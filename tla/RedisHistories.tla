--------------------------- MODULE RedisHistories ---------------------------
(***************************************************************************)
(* A replication id names a history: a sequence of commands with the data   *)
(* after each of them.  The invariant of RedisReplication says that         *)
(* histories exist such that everything a server, a file, a socket or an    *)
(* output buffer holds is a piece of the history it names.  The lemmas say  *)
(* how histories grow and begin, and that the connections that end, the     *)
(* promotions and the writes keep the invariant.                            *)
(***************************************************************************)
EXTENDS RedisReplication, FiniteSetTheorems, TLAPS

-----------------------------------------------------------------------------
(* Histories                                                               *)

\* len[i] is how far the history i goes, cmd[i][k] its command k, val[i][k] the
\* data after k commands, and sel[i][k] the database a server must have selected
\* then, or NoDb when the next command is sure to be a SELECT.
History ==
    [ids : Nat, writes : Seq(Db), len : [Nat -> Nat], val : [Nat -> [Nat -> Data]],
     cmd : [Nat -> [Nat -> Command]], sel : [Nat -> [Nat -> Db \cup {NoDb}]]]

SelAt(h, i, k, d) == h.sel[i][k] \in {NoDb, d}

\* Every write is in the database it was made to.
Right(h, db) == \A x \in DOMAIN db : db[x].w \in DOMAIN h.writes /\ db[x].db = h.writes[db[x].w]

\* Command k + 1 of a history leads from its data after k to its data after k + 1.
Follows(h, i, k) ==
    LET c == h.cmd[i][k + 1]
    IN  \/ /\ c.type = "select"
           /\ h.val[i][k + 1] = h.val[i][k]
           /\ SelAt(h, i, k + 1, c.db)
        \/ /\ c.type = "write"
           /\ h.sel[i][k] # NoDb
           /\ h.val[i][k + 1] = Append(h.val[i][k], [w |-> c.w, db |-> h.sel[i][k]])
           /\ SelAt(h, i, k + 1, h.sel[i][k])

HistoryOK(h) ==
    \A i \in 1..h.ids :
        /\ \A k \in Nat : k < h.len[i] => Follows(h, i, k)
        /\ \A k, m \in Nat : k <= m /\ m <= h.len[i] => IsPrefix(h.val[i][k], h.val[i][m])
        /\ \A k \in Nat : k <= h.len[i] => Right(h, h.val[i][k])

\* q is what comes after the first k commands of history i.
Stream(h, i, k, q) ==
    /\ k \in Nat /\ k + Len(q) <= h.len[i]
    /\ \A j \in 1..Len(q) : q[j] = h.cmd[i][k + j]

\* Up to k history j is the history i it began with.
Agree(h, i, j, k) ==
    /\ k \in Nat /\ k <= h.len[i] /\ k <= h.len[j]
    /\ \A m \in Nat : m <= k =>
          /\ h.val[j][m] = h.val[i][m]
          /\ h.cmd[j][m] = h.cmd[i][m]
          /\ h.sel[j][m] = NoDb \/ (h.sel[j][m] = h.sel[i][m] /\ m < h.len[i])

-----------------------------------------------------------------------------
(* The invariant                                                           *)

FileOK(h, f) ==
    /\ Right(h, f.db) /\ f.id \in 0..h.ids
    /\ f.sel # NoDb => /\ f.id \in 1..h.ids /\ f.off <= h.len[f.id]
                       /\ f.db = h.val[f.id][f.off]
                       /\ SelAt(h, f.id, f.off, f.sel)

FileAt(h, f, i, k) == f.sel # NoDb /\ f.id = i /\ f.off = k /\ FileOK(h, f)

\* The data of a server are those of its history at its offset, its backlog is
\* the end of it, and the second id is of a history it began with.
RoleOK(h, r) ==
    /\ r.mid \in 0..h.ids
    /\ r.state = "none" <=> r.host = None
    /\ r.host = None => r.cached = None /\ r.off = h.len[r.id] /\ h.sel[r.id][r.off] = r.seldb
    /\ r.cached # None => r.cached.id = r.id /\ r.cached.off = r.off /\ SelAt(h, r.id, r.off, r.cached.sel)
    /\ r.state = "connected" => /\ r.backlog # None /\ r.mid = r.id /\ r.moff = r.off
                                /\ SelAt(h, r.id, r.off, r.sel)
    /\ r.state \in {"transfer", "connected"} => r.cached = None
    /\ r.state = "transfer" => r.backlog = None

SecondOK(h, r) ==
    r.id2 # NoId => /\ r.id2 \in 1..h.ids /\ r.off2 \in 1..(r.off + 1) /\ r.off2 - 1 <= h.len[r.id2]
                    /\ IsPrefix(h.val[r.id2][r.off2 - 1], r.db)
                    /\ (r.backlog # None => Agree(h, r.id2, r.id, r.off2 - 1))

FilesOK(h, r) == FileOK(h, r.file) /\ (r.child # None => FileOK(h, r.child.file))

RecordOK(h, r) ==
    /\ r.id \in 1..h.ids /\ r.off <= h.len[r.id] /\ r.db = h.val[r.id][r.off]
    /\ r.backlog # None => Stream(h, r.id, r.off - Len(r.backlog), r.backlog)
    /\ RoleOK(h, r)
    /\ SecondOK(h, r)
    /\ FilesOK(h, r)

\* Nobody else can know the id of a server: it has had no slave under it.
Private(r) == r.host = None /\ r.backlog = None
Alone(r) == r.backlog = None /\ (r.host = None \/ (r.cached # None /\ r.id2 # NoId))

\* What a socket holds from a payload on, and from the answer to a PSYNC on.
PayloadOK(h, i, k, q) ==
    q # <<>> => q[1].type = "rdb" /\ FileAt(h, q[1].file, i, k) /\ Stream(h, i, k, Tail(q))

ReplyOK(h, r, q) ==
    q # <<>> =>
      \/ q[1].type = "fullresync" /\ q[1].id \in 1..h.ids /\ PayloadOK(h, q[1].id, q[1].off, Tail(q))
      \/ /\ q[1].type = "continue" /\ q[1].id \in 1..h.ids
         /\ r.cached # None /\ ~Alone(r)
         /\ q[1].id = r.id \/ Agree(h, r.id, q[1].id, r.off)
         /\ Stream(h, q[1].id, r.off, Tail(q))
      \/ q[1].type = "error" /\ Len(q) = 1

LinkOK(h, r, l) ==
    /\ r.state \in {"none", "connect"} => l = NoLink
    /\ r.state = "psync" => ReplyOK(h, r, l.q)
    /\ r.state = "transfer" => PayloadOK(h, r.mid, r.moff, l.q)
    /\ r.state = "connected" => Stream(h, r.id, r.off, l.q)

\* The slave r with q in its socket waits for the payload of (i, k); it has got
\* that and no more; it will be at (i, k) when it has read everything.
Awaits(r, q, i, k) ==
    \/ r.state = "psync" /\ Len(q) = 1 /\ q[1].type = "fullresync" /\ q[1].id = i /\ q[1].off = k
    \/ r.state = "transfer" /\ q = <<>> /\ r.mid = i /\ r.moff = k

Given(r, q, i, k) ==
    \/ r.state = "psync" /\ Len(q) = 2 /\ q[1].type = "fullresync" /\ q[1].id = i /\ q[1].off = k
    \/ r.state = "transfer" /\ Len(q) = 1 /\ r.mid = i /\ r.moff = k
    \/ r.state = "connected" /\ q = <<>> /\ r.id = i /\ r.off = k

Leads(r, q, i, k) ==
    \/ r.state = "psync" /\ Len(q) >= 2 /\ q[1].type = "fullresync" /\ q[1].id = i /\ q[1].off + Len(q) - 2 = k
    \/ r.state = "psync" /\ q # <<>> /\ q[1].type = "continue" /\ q[1].id = i /\ r.off + Len(q) - 1 = k
    \/ r.state = "transfer" /\ q # <<>> /\ r.mid = i /\ r.moff + Len(q) - 1 = k
    \/ r.state = "connected" /\ r.id = i /\ r.off + Len(q) = k

\* The client c that server s has for the slave rt, whose connection is l.
ClientOK(h, s, r, c, rt, l) ==
    /\ c.st # "none" => l.to = s /\ l.open /\ r.backlog # None
    /\ c.st = "start" => rt.state = "psync" /\ l.q = <<>> /\ c.buf = <<>>
    /\ c.st \in {"end", "ack"} => Stream(h, r.id, c.init, c.buf) /\ c.init + Len(c.buf) = r.off
    /\ c.st = "end" => /\ r.child # None /\ FileAt(h, r.child.file, r.id, c.init)
                       /\ r.child.type = "disk" => Awaits(rt, l.q, r.id, c.init)
                       /\ r.child.type = "socket" => Given(rt, l.q, r.id, c.init)
    /\ c.st = "ack" => Given(rt, l.q, r.id, c.init)
    /\ c.st = "online" => Leads(rt, l.q, r.id, r.off)

\* The ids that server r, its files and its socket l name are in I.
Names(m) == IF m.type \in {"continue", "fullresync"} THEN m.id
            ELSE IF m.type = "rdb" THEN m.file.id ELSE NoId
FilesIn(I, r) == r.file.id \in I /\ (r.child # None => r.child.file.id \in I)
QueueIn(I, q) == \A j \in 1..Len(q) : Names(q[j]) \in I
NamedIn(I, r, l) == r.id \in I /\ r.id2 \in I /\ r.mid \in I /\ FilesIn(I, r) /\ QueueIn(I, l.q)

Others(i) == Nat \ {i}

Apart(r, rt, l) ==
    /\ r.host = None /\ rt.host = None => r.id # rt.id
    /\ Alone(r) => NamedIn(Others(r.id), rt, l)

OwnOK(r) == Private(r) => r.id2 # r.id /\ FilesIn(Others(r.id), r)

\* All of it, of the servers and links g and the histories h.
Typed(g) ==
    /\ g.srv \in [Server -> Record] /\ g.link \in [Server -> Link]
    /\ g = [srv |-> g.srv, link |-> g.link]
    /\ \A s \in Server : g.srv[s].host # s /\ g.link[s].to # s

GroupOK(h, g) ==
    /\ Typed(g)
    /\ h \in History /\ HistoryOK(h)
    /\ \A s \in Server : RecordOK(h, g.srv[s]) /\ OwnOK(g.srv[s])
    /\ \A t \in Server : LinkOK(h, g.srv[t], g.link[t])
    /\ \A s, t \in Server : ClientOK(h, s, g.srv[s], g.srv[s].slv[t], g.srv[t], g.link[t])
    /\ \A s, t \in Server : s # t => Apart(g.srv[s], g.srv[t], g.link[t])

HistoriesInv == \E h \in History : h.ids = ids /\ h.writes = writes /\ GroupOK(h, State)

-----------------------------------------------------------------------------
(* Sequences and streams                                                   *)

LEMMA PrefixSame ==
    ASSUME NEW S, NEW a \in Seq(S)
    PROVE  IsPrefix(a, a)
  BY DEF IsPrefix

LEMMA PrefixTrans ==
    ASSUME NEW S, NEW a \in Seq(S), NEW b \in Seq(S), NEW c \in Seq(S), IsPrefix(a, b), IsPrefix(b, c)
    PROVE  IsPrefix(a, c)
  BY DEF IsPrefix

LEMMA PrefixAppend ==
    ASSUME NEW S, NEW a \in Seq(S), NEW b \in Seq(S), NEW x \in S, IsPrefix(a, b)
    PROVE  IsPrefix(a, Append(b, x))
  BY DEF IsPrefix

LEMMA HistoryFields ==
    ASSUME NEW h \in History
    PROVE  /\ h.len \in [Nat -> Nat] /\ h.val \in [Nat -> [Nat -> Data]]
           /\ h.cmd \in [Nat -> [Nat -> Command]] /\ h.sel \in [Nat -> [Nat -> Db \cup {NoDb}]]
  BY DEF History

LEMMA HistoryType ==
    ASSUME NEW h \in History, NEW i \in Nat, NEW k \in Nat
    PROVE  /\ h.ids \in Nat /\ h.writes \in Seq(Db) /\ h.len[i] \in Nat
           /\ h.val[i][k] \in Data /\ h.cmd[i][k] \in Command /\ h.sel[i][k] \in Db \cup {NoDb}
<1>1. h.ids \in Nat /\ h.writes \in Seq(Db)
  BY DEF History
<1>2. /\ h.len \in [Nat -> Nat] /\ h.val \in [Nat -> [Nat -> Data]]
      /\ h.cmd \in [Nat -> [Nat -> Command]] /\ h.sel \in [Nat -> [Nat -> Db \cup {NoDb}]]
  BY HistoryFields
<1>3. h.len[i] \in Nat /\ h.val[i] \in [Nat -> Data] /\ h.cmd[i] \in [Nat -> Command]
      /\ h.sel[i] \in [Nat -> Db \cup {NoDb}]
  BY <1>2
<1> QED
  BY <1>1, <1>3

LEMMA HistoryIds ==
    ASSUME NEW h \in History
    PROVE  h.ids \in Nat /\ \A i \in 1..h.ids : i \in Nat /\ h.len[i] \in Nat
  BY DEF History

LEMMA AppendElements ==
    ASSUME NEW S, NEW q \in Seq(S), NEW e \in S
    PROVE  /\ Append(q, e) \in Seq(S) /\ Len(Append(q, e)) = Len(q) + 1
           /\ Append(q, e)[Len(q) + 1] = e
           /\ \A x \in DOMAIN q : Append(q, e)[x] = q[x]
           /\ \A x \in DOMAIN Append(q, e) : x \in DOMAIN q \/ x = Len(q) + 1
<1>1. Len(q) \in Nat /\ DOMAIN q = 1..Len(q) /\ DOMAIN Append(q, e) = 1..(Len(q) + 1)
  OBVIOUS
<1> QED
  BY <1>1

LEMMA RightAppend ==
    ASSUME NEW h, NEW q \in Data, NEW e \in [w : Nat, db : Db], Right(h, q),
           e.w \in DOMAIN h.writes, e.db = h.writes[e.w]
    PROVE  Right(h, Append(q, e))
<1>1. q \in Seq([w : Nat, db : Db])
  BY DEF Data
<1>2. /\ \A x \in DOMAIN q : Append(q, e)[x] = q[x]
      /\ Append(q, e)[Len(q) + 1] = e
      /\ \A x \in DOMAIN Append(q, e) : x \in DOMAIN q \/ x = Len(q) + 1
  BY <1>1, AppendElements
<1> QED
  BY <1>2 DEF Right

LEMMA StreamType ==
    ASSUME NEW h \in History, NEW i \in Nat, NEW k, NEW S, NEW q \in Seq(S), Stream(h, i, k, q)
    PROVE  k \in Nat /\ Len(q) \in Nat /\ h.len[i] \in Nat /\ k + Len(q) <= h.len[i] /\ k <= h.len[i]
<1>1. k \in Nat /\ k + Len(q) <= h.len[i]
  BY DEF Stream
<1>2. h.len[i] \in Nat /\ Len(q) \in Nat
  BY <1>1, HistoryType
<1> QED
  BY <1>1, <1>2

LEMMA StreamNone ==
    ASSUME NEW h, NEW i, NEW k \in Nat, k <= h.len[i]
    PROVE  Stream(h, i, k, <<>>)
  BY DEF Stream

LEMMA TailOf ==
    ASSUME NEW S, NEW q \in Seq(S), q # <<>>
    PROVE  /\ Len(q) \in Nat /\ Len(q) >= 1 /\ q[1] \in S /\ Head(q) = q[1]
           /\ Tail(q) \in Seq(S) /\ Len(Tail(q)) = Len(q) - 1
           /\ \A j \in 1..Len(Tail(q)) : Tail(q)[j] = q[j + 1]
<1>1. Len(q) \in Nat /\ Len(q) # 0
  OBVIOUS
<1> QED
  BY <1>1

LEMMA StreamNext ==
    ASSUME NEW h \in History, NEW i \in Nat, NEW k, NEW S, NEW q \in Seq(S), q # <<>>, Stream(h, i, k, q)
    PROVE  q[1] = h.cmd[i][k + 1] /\ k < h.len[i] /\ Stream(h, i, k + 1, Tail(q))
<1>1. h.len[i] \in Nat /\ k \in Nat
  BY StreamType
<1>2. /\ Len(q) \in Nat /\ Len(q) >= 1 /\ Len(Tail(q)) = Len(q) - 1
      /\ \A j \in 1..Len(Tail(q)) : Tail(q)[j] = q[j + 1]
  BY TailOf
<1>3. k + Len(q) <= h.len[i] /\ \A j \in 1..Len(q) : q[j] = h.cmd[i][k + j]
  BY DEF Stream
<1>4. ASSUME NEW j \in 1..Len(Tail(q))
      PROVE  Tail(q)[j] = h.cmd[i][k + 1 + j]
  <2>1. j + 1 \in 1..Len(q) /\ k + (j + 1) = k + 1 + j
    BY <1>1, <1>2
  <2> QED
    BY <1>2, <1>3, <2>1
<1> QED
  BY <1>1, <1>2, <1>3, <1>4 DEF Stream

LEMMA StreamJoin ==
    ASSUME NEW h \in History, NEW i \in Nat, NEW k, NEW S, NEW q \in Seq(S), NEW m \in Seq(S),
           Stream(h, i, k, q), Stream(h, i, k + Len(q), m)
    PROVE  Stream(h, i, k, q \o m)
<1>1. h.len[i] \in Nat /\ k \in Nat /\ Len(q) \in Nat /\ Len(m) \in Nat
  BY StreamType
<1>2. Len(q \o m) = Len(q) + Len(m)
  OBVIOUS
<1>3. ASSUME NEW j \in 1..Len(q \o m)
      PROVE  (q \o m)[j] = h.cmd[i][k + j]
  <2>1. CASE j <= Len(q)
    BY <1>1, <1>2, <2>1 DEF Stream
  <2>2. CASE j > Len(q)
    <3>1. (q \o m)[j] = m[j - Len(q)] /\ j - Len(q) \in 1..Len(m)
      BY <1>1, <1>2, <2>2
    <3> QED
      BY <1>1, <3>1 DEF Stream
  <2> QED
    BY <1>1, <1>2, <2>1, <2>2
<1> QED
  BY <1>1, <1>2, <1>3 DEF Stream

LEMMA StreamPart ==
    ASSUME NEW h \in History, NEW i \in Nat, NEW k, NEW S, NEW q \in Seq(S), NEW a \in 1..(Len(q) + 1),
           Stream(h, i, k, q)
    PROVE  SubSeq(q, a, Len(q)) \in Seq(S) /\ Stream(h, i, k + a - 1, SubSeq(q, a, Len(q)))
<1>1. h.len[i] \in Nat /\ k \in Nat /\ Len(q) \in Nat
  BY StreamType
<1> DEFINE p == SubSeq(q, a, Len(q))
<1>2. p \in Seq(S) /\ Len(p) = Len(q) - a + 1 /\ \A j \in 1..Len(p) : p[j] = q[a + j - 1]
  BY <1>1
<1> QED
  BY <1>1, <1>2 DEF Stream

-----------------------------------------------------------------------------
(* Histories that grow                                                     *)

\* From h to g the histories I keep what they have; only the database at the end
\* may become one that is selected anew.
GrowsOn(I, h, g) ==
    /\ h.ids <= g.ids
    /\ \A x \in DOMAIN h.writes : x \in DOMAIN g.writes /\ g.writes[x] = h.writes[x]
    /\ \A i \in I : /\ h.len[i] <= g.len[i]
                    /\ \A k \in Nat : k <= h.len[i] =>
                          /\ g.val[i][k] = h.val[i][k]
                          /\ g.cmd[i][k] = h.cmd[i][k]
                          /\ g.sel[i][k] = h.sel[i][k] \/ (k = h.len[i] /\ g.sel[i][k] = NoDb)

LEMMA RightKept ==
    ASSUME NEW I, NEW h, NEW g, GrowsOn(I, h, g), NEW db, Right(h, db)
    PROVE  Right(g, db)
  BY DEF GrowsOn, Right

LEMMA StreamKept ==
    ASSUME NEW I \in SUBSET Nat, NEW h \in History, NEW g \in History, GrowsOn(I, h, g),
           NEW i \in I, NEW k, NEW S, NEW q \in Seq(S), Stream(h, i, k, q)
    PROVE  Stream(g, i, k, q)
<1>1. h.len[i] \in Nat /\ g.len[i] \in Nat /\ k \in Nat /\ Len(q) \in Nat
  BY StreamType, HistoryType
<1> QED
  BY <1>1 DEF Stream, GrowsOn

LEMMA SelKept ==
    ASSUME NEW I, NEW h, NEW g, GrowsOn(I, h, g), NEW i \in I, NEW k \in Nat, k <= h.len[i],
           NEW d, SelAt(h, i, k, d)
    PROVE  SelAt(g, i, k, d)
  BY DEF GrowsOn, SelAt

LEMMA AgreeKept ==
    ASSUME NEW I \in SUBSET Nat, NEW h \in History, NEW g \in History, GrowsOn(I, h, g),
           NEW i \in I, NEW j \in I, NEW k, Agree(h, i, j, k)
    PROVE  Agree(g, i, j, k)
<1>1. /\ h.len[i] \in Nat /\ g.len[i] \in Nat /\ h.len[j] \in Nat /\ g.len[j] \in Nat /\ k \in Nat
      /\ k <= h.len[i] /\ k <= h.len[j] /\ h.len[i] <= g.len[i] /\ h.len[j] <= g.len[j]
  BY DEF History, Agree, GrowsOn
<1>2. ASSUME NEW m \in Nat, m <= k
      PROVE  /\ g.val[j][m] = g.val[i][m]
             /\ g.cmd[j][m] = g.cmd[i][m]
             /\ g.sel[j][m] = NoDb \/ (g.sel[j][m] = g.sel[i][m] /\ m < g.len[i])
  <2>1. m <= h.len[i] /\ m <= h.len[j]
    BY <1>1, <1>2
  <2>2. /\ h.val[j][m] = h.val[i][m] /\ h.cmd[j][m] = h.cmd[i][m]
        /\ h.sel[j][m] = NoDb \/ (h.sel[j][m] = h.sel[i][m] /\ m < h.len[i])
    BY <1>2 DEF Agree
  <2>3. /\ g.val[i][m] = h.val[i][m] /\ g.cmd[i][m] = h.cmd[i][m]
        /\ g.sel[i][m] = h.sel[i][m] \/ (m = h.len[i] /\ g.sel[i][m] = NoDb)
    BY <2>1 DEF GrowsOn
  <2>4. /\ g.val[j][m] = h.val[j][m] /\ g.cmd[j][m] = h.cmd[j][m]
        /\ g.sel[j][m] = h.sel[j][m] \/ (m = h.len[j] /\ g.sel[j][m] = NoDb)
    BY <2>1 DEF GrowsOn
  <2> QED
    BY <1>1, <2>2, <2>3, <2>4
<1> QED
  BY <1>1, <1>2 DEF Agree

LEMMA FileKept ==
    ASSUME NEW I \in SUBSET Nat, NEW h \in History, NEW g \in History, GrowsOn(I, h, g),
           NEW f \in File, f.id \in I, FileOK(h, f)
    PROVE  FileOK(g, f)
<1>1. Right(g, f.db)
  BY RightKept DEF FileOK
<1>2. ASSUME f.sel # NoDb
      PROVE  /\ f.id \in 1..g.ids /\ f.off <= g.len[f.id]
             /\ f.db = g.val[f.id][f.off] /\ SelAt(g, f.id, f.off, f.sel)
  <2>1. /\ f.id \in 1..h.ids /\ f.off <= h.len[f.id] /\ f.off \in Nat
        /\ f.db = h.val[f.id][f.off] /\ SelAt(h, f.id, f.off, f.sel)
    BY <1>2 DEF FileOK, File
  <2>2. h.len[f.id] \in Nat /\ g.len[f.id] \in Nat /\ h.ids \in Nat /\ g.ids \in Nat
    BY DEF History
  <2>3. SelAt(g, f.id, f.off, f.sel)
    BY <2>1, SelKept
  <2>4. g.val[f.id][f.off] = h.val[f.id][f.off] /\ h.len[f.id] <= g.len[f.id] /\ h.ids <= g.ids
    BY <2>1 DEF GrowsOn
  <2> QED
    BY <2>1, <2>2, <2>3, <2>4
<1>3. f.id \in 0..g.ids
  BY HistoryIds DEF FileOK, GrowsOn
<1> QED
  BY <1>1, <1>2, <1>3 DEF FileOK

LEMMA PayloadKept ==
    ASSUME NEW I \in SUBSET Nat, NEW h \in History, NEW g \in History, GrowsOn(I, h, g),
           NEW q \in Seq(Message), QueueIn(I, q), NEW i \in I, NEW k, PayloadOK(h, i, k, q)
    PROVE  PayloadOK(g, i, k, q)
<1> SUFFICES ASSUME q # <<>>
             PROVE  q[1].type = "rdb" /\ FileAt(g, q[1].file, i, k) /\ Stream(g, i, k, Tail(q))
  BY DEF PayloadOK
<1>1. q[1].type = "rdb" /\ FileAt(h, q[1].file, i, k) /\ Stream(h, i, k, Tail(q))
  BY DEF PayloadOK
<1>2. Tail(q) \in Seq(Message) /\ q[1] \in Message /\ 1 \in 1..Len(q)
  BY TailOf
<1>3. q[1].file \in File
  BY <1>1, <1>2 DEF Message, Command
<1>4. q[1].file.id \in I
  BY <1>1, <1>2 DEF QueueIn, Names
<1>5. FileAt(g, q[1].file, i, k)
  BY <1>1, <1>3, <1>4, FileKept DEF FileAt
<1> QED
  BY <1>1, <1>2, <1>5, StreamKept

LEMMA TailIn ==
    ASSUME NEW I, NEW q \in Seq(Message), q # <<>>, QueueIn(I, q)
    PROVE  QueueIn(I, Tail(q)) /\ Names(q[1]) \in I
  BY TailOf DEF QueueIn

LEMMA LinkKept ==
    ASSUME NEW I \in SUBSET Nat, NEW h \in History, NEW g \in History, GrowsOn(I, h, g),
           NEW r \in Record, NEW l \in Link, NamedIn(I, r, l), LinkOK(h, r, l)
    PROVE  LinkOK(g, r, l)
<1>1. /\ l.q \in Seq(Message) /\ QueueIn(I, l.q) /\ r.id \in I /\ r.mid \in I
  BY DEF NamedIn, Link
<1>2. r.state = "transfer" => PayloadOK(g, r.mid, r.moff, l.q)
  BY <1>1, PayloadKept DEF LinkOK
<1>3. r.state = "connected" => Stream(g, r.id, r.off, l.q)
  BY <1>1, StreamKept DEF LinkOK
<1>4. ASSUME r.state = "psync", l.q # <<>>
      PROVE  ReplyOK(g, r, l.q)
  <2> DEFINE m == l.q[1]
  <2>1. Tail(l.q) \in Seq(Message) /\ QueueIn(I, Tail(l.q)) /\ Names(m) \in I
    BY <1>1, <1>4, TailOf, TailIn
  <2>2. h.ids <= g.ids /\ h.ids \in Nat /\ g.ids \in Nat
    BY HistoryType DEF GrowsOn
  <2>3. ReplyOK(h, r, l.q)
    BY <1>4 DEF LinkOK
  <2>4. CASE m.type = "fullresync" /\ m.id \in 1..h.ids /\ PayloadOK(h, m.id, m.off, Tail(l.q))
    <3>1. m.id \in I /\ m.id \in 1..g.ids
      BY <2>1, <2>2, <2>4 DEF Names
    <3>2. PayloadOK(h, m.id, m.off, Tail(l.q))
      BY <2>4
    <3>3. \A k : \A i \in I, q \in Seq(Message) : QueueIn(I, q) /\ PayloadOK(h, i, k, q) => PayloadOK(g, i, k, q)
      BY PayloadKept
    <3>4. PayloadOK(g, m.id, m.off, Tail(l.q))
      BY <2>1, <3>1, <3>2, <3>3
    <3> QED
      BY <2>4, <3>1, <3>4 DEF ReplyOK
  <2>5. CASE /\ m.type = "continue" /\ m.id \in 1..h.ids
             /\ r.cached # None /\ ~Alone(r)
             /\ m.id = r.id \/ Agree(h, r.id, m.id, r.off)
             /\ Stream(h, m.id, r.off, Tail(l.q))
    <3>1. m.id \in I /\ m.id \in 1..g.ids
      BY <2>1, <2>2, <2>5 DEF Names
    <3>2. m.id = r.id \/ Agree(g, r.id, m.id, r.off)
      BY <1>1, <2>5, <3>1, AgreeKept
    <3>3. Stream(g, m.id, r.off, Tail(l.q))
      BY <2>1, <2>5, <3>1, StreamKept
    <3> QED
      BY <2>5, <3>1, <3>2, <3>3 DEF ReplyOK
  <2>6. CASE m.type = "error" /\ Len(l.q) = 1
    BY <2>6 DEF ReplyOK
  <2> QED
    BY <1>4, <2>3, <2>4, <2>5, <2>6 DEF ReplyOK
<1>5. r.state = "psync" => ReplyOK(g, r, l.q)
  BY <1>4 DEF ReplyOK
<1> QED
  BY <1>2, <1>3, <1>5 DEF LinkOK

LEMMA FilesKept ==
    ASSUME NEW I \in SUBSET Nat, NEW h \in History, NEW g \in History, GrowsOn(I, h, g),
           NEW r \in Record, FilesIn(I, r), FilesOK(h, r)
    PROVE  FilesOK(g, r)
<1>1. r.file \in File /\ (r.child # None => r.child.file \in File)
  BY DEF Record, Child
<1>2. FileOK(g, r.file)
  BY <1>1, FileKept DEF FilesIn, FilesOK
<1>3. r.child # None => FileOK(g, r.child.file)
  BY <1>1, FileKept DEF FilesIn, FilesOK
<1> QED
  BY <1>2, <1>3 DEF FilesOK

LEMMA SecondKept ==
    ASSUME NEW I \in SUBSET Nat, NEW h \in History, NEW g \in History, GrowsOn(I, h, g),
           NEW r \in Record, r.id \in I, r.id2 \in I, SecondOK(h, r)
    PROVE  SecondOK(g, r)
<1> SUFFICES ASSUME r.id2 # NoId
             PROVE  /\ r.id2 \in 1..g.ids /\ r.off2 \in 1..(r.off + 1) /\ r.off2 - 1 <= g.len[r.id2]
                    /\ IsPrefix(g.val[r.id2][r.off2 - 1], r.db)
                    /\ (r.backlog # None => Agree(g, r.id2, r.id, r.off2 - 1))
  BY DEF SecondOK
<1>1. /\ r.id2 \in 1..h.ids /\ r.off2 \in 1..(r.off + 1) /\ r.off2 - 1 <= h.len[r.id2]
      /\ IsPrefix(h.val[r.id2][r.off2 - 1], r.db)
      /\ (r.backlog # None => Agree(h, r.id2, r.id, r.off2 - 1))
  BY DEF SecondOK
<1>2. /\ h.ids \in Nat /\ g.ids \in Nat /\ h.len[r.id2] \in Nat /\ g.len[r.id2] \in Nat
      /\ r.off \in Nat
  BY HistoryType DEF Record
<1>3. r.off2 - 1 \in Nat
  BY <1>1, <1>2
<1>4. /\ h.ids <= g.ids /\ h.len[r.id2] <= g.len[r.id2]
      /\ g.val[r.id2][r.off2 - 1] = h.val[r.id2][r.off2 - 1]
  BY <1>1, <1>3 DEF GrowsOn
<1>5. \A k : Agree(h, r.id2, r.id, k) => Agree(g, r.id2, r.id, k)
  BY AgreeKept
<1> QED
  BY <1>1, <1>2, <1>3, <1>4, <1>5

\* The end of the history of a master is where it was.
EndKept(h, g, r) ==
    r.host = None => g.len[r.id] = h.len[r.id] /\ g.sel[r.id][r.off] = h.sel[r.id][r.off]

\* The records r and q have the same history, data and files.
SameBody(r, q) ==
    /\ q.id = r.id /\ q.id2 = r.id2 /\ q.off2 = r.off2 /\ q.off = r.off
    /\ q.backlog = r.backlog /\ q.db = r.db /\ q.child = r.child /\ q.file = r.file

LEMMA SameBodyOK ==
    ASSUME NEW h, NEW r, NEW q, SameBody(r, q), RecordOK(h, r), RoleOK(h, q)
    PROVE  RecordOK(h, q)
<1>1. SecondOK(h, q) /\ FilesOK(h, q)
  BY DEF SameBody, RecordOK, SecondOK, FilesOK
<1> QED
  BY <1>1 DEF SameBody, RecordOK

LEMMA BodyKept ==
    ASSUME NEW I \in SUBSET Nat, NEW h \in History, NEW g \in History, GrowsOn(I, h, g),
           NEW r \in Record, r.id \in I, r.id2 \in I, FilesIn(I, r), RecordOK(h, r),
           NEW q, SameBody(r, q), RoleOK(g, q)
    PROVE  RecordOK(g, q)
<1>1. /\ r.id \in 1..h.ids /\ r.off <= h.len[r.id] /\ r.db = h.val[r.id][r.off]
      /\ r.backlog # None => Stream(h, r.id, r.off - Len(r.backlog), r.backlog)
      /\ SecondOK(h, r) /\ FilesOK(h, r)
  BY DEF RecordOK
<1>2. /\ h.len[r.id] \in Nat /\ g.len[r.id] \in Nat /\ h.ids \in Nat /\ g.ids \in Nat
      /\ r.off \in Nat /\ (r.backlog # None => r.backlog \in Seq(Command))
  BY HistoryType DEF Record
<1>3. h.ids <= g.ids /\ h.len[r.id] <= g.len[r.id] /\ g.val[r.id][r.off] = h.val[r.id][r.off]
  BY <1>1, <1>2 DEF GrowsOn
<1>4. r.backlog # None => Stream(g, r.id, r.off - Len(r.backlog), r.backlog)
  BY <1>1, <1>2, StreamKept
<1>5. SecondOK(g, r) /\ FilesOK(g, r)
  BY <1>1, SecondKept, FilesKept
<1>6. SecondOK(g, q) /\ FilesOK(g, q)
  BY <1>5 DEF SameBody, SecondOK, FilesOK
<1>7. r.id \in 1..g.ids /\ r.off <= g.len[r.id] /\ r.db = g.val[r.id][r.off]
  BY <1>1, <1>2, <1>3
<1> QED
  BY <1>4, <1>6, <1>7 DEF SameBody, RecordOK

LEMMA RecordKept ==
    ASSUME NEW I \in SUBSET Nat, NEW h \in History, NEW g \in History, GrowsOn(I, h, g),
           NEW r \in Record, r.id \in I, r.id2 \in I, FilesIn(I, r), EndKept(h, g, r), RecordOK(h, r)
    PROVE  RecordOK(g, r)
<1>1. r.id \in 1..h.ids /\ r.off <= h.len[r.id] /\ RoleOK(h, r)
  BY DEF RecordOK
<1>2. r.off \in Nat /\ h.ids \in Nat /\ g.ids \in Nat /\ h.ids <= g.ids
  BY HistoryIds DEF Record, GrowsOn
<1>3. \A d : SelAt(h, r.id, r.off, d) => SelAt(g, r.id, r.off, d)
  BY <1>1, <1>2, SelKept
<1>4. r.mid \in 0..g.ids
  BY <1>1, <1>2 DEF RoleOK
<1>5. RoleOK(g, r)
  BY <1>1, <1>3, <1>4 DEF RoleOK, EndKept
<1> QED
  BY <1>5, BodyKept DEF SameBody

LEMMA ClientKept ==
    ASSUME NEW I \in SUBSET Nat, NEW h \in History, NEW g \in History, GrowsOn(I, h, g),
           NEW r \in Record, r.id \in I, FilesIn(I, r), NEW c \in Client,
           NEW s, NEW rt, NEW l, ClientOK(h, s, r, c, rt, l)
    PROVE  ClientOK(g, s, r, c, rt, l)
<1>1. c.buf \in Seq(Command) /\ (r.child # None => r.child.file \in File /\ r.child.file.id \in I)
  BY DEF Client, Record, Child, FilesIn
<1>2. Stream(h, r.id, c.init, c.buf) => Stream(g, r.id, c.init, c.buf)
  BY <1>1, StreamKept
<1>3. r.child # None /\ FileAt(h, r.child.file, r.id, c.init) => FileAt(g, r.child.file, r.id, c.init)
  BY <1>1, FileKept DEF FileAt
<1> QED
  BY <1>2, <1>3 DEF ClientOK

-----------------------------------------------------------------------------
(* How histories grow and begin                                            *)

\* Another write is made; the history i begins with data v at off; history j
\* branches off from i at off; i goes on with the command c; its next command is
\* sure to be a SELECT.
Written(h, d) == [h EXCEPT !.writes = Append(h.writes, d)]

Begin(h, i, off, v, d) ==
    [ids |-> IF i > h.ids THEN i ELSE h.ids, writes |-> h.writes,
     len |-> [h.len EXCEPT ![i] = off],
     val |-> [h.val EXCEPT ![i] = [k \in Nat |-> v]],
     cmd |-> [h.cmd EXCEPT ![i] = [k \in Nat |-> [type |-> "select", db |-> IF d = NoDb THEN 0 ELSE d]]],
     sel |-> [h.sel EXCEPT ![i] = [k \in Nat |-> d]]]

Branch(h, i, j, off) ==
    [ids |-> j, writes |-> h.writes,
     len |-> [h.len EXCEPT ![j] = off],
     val |-> [h.val EXCEPT ![j] = h.val[i]],
     cmd |-> [h.cmd EXCEPT ![j] = h.cmd[i]],
     sel |-> [h.sel EXCEPT ![j] = [k \in Nat |-> IF k < off THEN h.sel[i][k] ELSE NoDb]]]

Extend(h, i, c) ==
    LET n == h.len[i]
        v == IF c.type = "write" THEN Append(h.val[i][n], [w |-> c.w, db |-> h.sel[i][n]]) ELSE h.val[i][n]
        d == IF c.type = "select" THEN c.db ELSE h.sel[i][n]
    IN  [ids |-> h.ids, writes |-> h.writes,
         len |-> [h.len EXCEPT ![i] = n + 1],
         val |-> [h.val EXCEPT ![i] = [k \in Nat |-> IF k <= n THEN h.val[i][k] ELSE v]],
         cmd |-> [h.cmd EXCEPT ![i] = [k \in Nat |-> IF k <= n THEN h.cmd[i][k] ELSE c]],
         sel |-> [h.sel EXCEPT ![i] = [k \in Nat |-> IF k <= n THEN h.sel[i][k] ELSE d]]]

Release(h, i) ==
    [ids |-> h.ids, writes |-> h.writes, len |-> h.len, val |-> h.val, cmd |-> h.cmd,
     sel |-> [h.sel EXCEPT ![i] = [k \in Nat |-> IF k = h.len[i] THEN NoDb ELSE h.sel[i][k]]]]

\* From h to g only the end of history i changes.
SameBut(i, h, g) == \A j \in Others(i) : g.len[j] = h.len[j] /\ g.sel[j] = h.sel[j]

LEMMA WrittenOK ==
    ASSUME NEW h \in History, HistoryOK(h), NEW d \in Db
    PROVE  LET g == Written(h, d) IN
           /\ g \in History /\ HistoryOK(g) /\ GrowsOn(Nat, h, g)
           /\ g.ids = h.ids /\ g.writes = Append(h.writes, d) /\ g.len = h.len /\ g.sel = h.sel
           /\ g.val = h.val /\ g.cmd = h.cmd
<1> DEFINE g == Written(h, d)
<1>1. /\ g.ids = h.ids /\ g.writes = Append(h.writes, d) /\ g.len = h.len /\ g.sel = h.sel
      /\ g.val = h.val /\ g.cmd = h.cmd
  BY DEF Written, History
<1>2. h.writes \in Seq(Db) /\ Append(h.writes, d) \in Seq(Db)
  BY DEF History
<1>3. g \in History
  BY <1>2 DEF Written, History
<1> HIDE DEF g
<1>4. \A x \in DOMAIN h.writes : x \in DOMAIN g.writes /\ g.writes[x] = h.writes[x]
  BY <1>1, <1>2
<1>5. GrowsOn(Nat, h, g)
  BY <1>1, <1>4, HistoryType DEF GrowsOn
<1>6. \A db : Right(h, db) => Right(g, db)
  BY <1>4 DEF Right
<1>7. \A i, k : Follows(h, i, k) => Follows(g, i, k)
  BY <1>1 DEF Follows, SelAt
<1>8. HistoryOK(g)
  BY <1>1, <1>6, <1>7 DEF HistoryOK
<1> QED
  BY <1>1, <1>3, <1>5, <1>8 DEF g

LEMMA BeginOK ==
    ASSUME NEW h \in History, HistoryOK(h), NEW i \in 1..(h.ids + 1), NEW off \in Nat,
           NEW v \in Data, Right(h, v), NEW d \in Db \cup {NoDb}
    PROVE  LET g == Begin(h, i, off, v, d) IN
           /\ g \in History /\ HistoryOK(g) /\ GrowsOn(Others(i), h, g) /\ SameBut(i, h, g)
           /\ g.ids = (IF i > h.ids THEN i ELSE h.ids) /\ g.writes = h.writes
           /\ g.len[i] = off /\ g.val[i][off] = v /\ g.sel[i][off] = d
<1> DEFINE g == Begin(h, i, off, v, d)
           c == [type |-> "select", db |-> IF d = NoDb THEN 0 ELSE d]
<1>1. h.ids \in Nat /\ i \in Nat /\ c \in Command /\ c.type = "select"
  BY HistoryType DEF Command, Db
<1>2. /\ g.ids = (IF i > h.ids THEN i ELSE h.ids) /\ g.writes = h.writes
      /\ g.len = [h.len EXCEPT ![i] = off]
      /\ g.val = [h.val EXCEPT ![i] = [k \in Nat |-> v]]
      /\ g.cmd = [h.cmd EXCEPT ![i] = [k \in Nat |-> c]]
      /\ g.sel = [h.sel EXCEPT ![i] = [k \in Nat |-> d]]
  BY DEF Begin
<1>3. g \in History
  BY <1>1 DEF Begin, History
<1> HIDE DEF g
<1>4. /\ g.len[i] = off
      /\ \A k \in Nat : g.val[i][k] = v /\ g.cmd[i][k] = c /\ g.sel[i][k] = d
  <2> HIDE DEF c
  <2>1. g.val[i] = [k \in Nat |-> v] /\ g.cmd[i] = [k \in Nat |-> c] /\ g.sel[i] = [k \in Nat |-> d]
    BY <1>1, <1>2, HistoryFields
  <2> QED
    BY <1>1, <1>2, <2>1, HistoryFields
<1>5. \A j \in Others(i) : /\ g.len[j] = h.len[j] /\ g.val[j] = h.val[j]
                           /\ g.cmd[j] = h.cmd[j] /\ g.sel[j] = h.sel[j]
  BY <1>2 DEF History, Others
<1>6. g.ids \in Nat /\ h.ids <= g.ids
  BY <1>1, <1>2
<1>7. GrowsOn(Others(i), h, g)
  BY <1>2, <1>5, <1>6, HistoryType DEF GrowsOn, Others
<1>8. \A db : Right(h, db) => Right(g, db)
  BY <1>2 DEF Right
<1>9. ASSUME NEW j \in 1..g.ids
      PROVE  /\ \A k \in Nat : k < g.len[j] => Follows(g, j, k)
             /\ \A k, m \in Nat : k <= m /\ m <= g.len[j] => IsPrefix(g.val[j][k], g.val[j][m])
             /\ \A k \in Nat : k <= g.len[j] => Right(g, g.val[j][k])
  <2>1. CASE j = i
    <3>1. \A k \in Nat : Follows(g, i, k)
      BY <1>1, <1>4 DEF Follows, SelAt
    <3>2. IsPrefix(v, v) /\ Right(g, v)
      BY <1>8, PrefixSame DEF Data
    <3> QED
      BY <2>1, <3>1, <3>2, <1>4
  <2>2. CASE j # i
    <3>1. j \in 1..h.ids /\ j \in Others(i)
      BY <1>1, <1>2, <2>2 DEF Others
    <3>2. \A k : Follows(h, j, k) => Follows(g, j, k)
      BY <1>5, <3>1 DEF Follows, SelAt
    <3> QED
      BY <1>5, <1>8, <3>1, <3>2 DEF HistoryOK
  <2> QED
    BY <2>1, <2>2
<1>10. HistoryOK(g)
  BY <1>9 DEF HistoryOK
<1>11. SameBut(i, h, g)
  BY <1>5 DEF SameBut
<1> QED
  BY <1>2, <1>3, <1>4, <1>7, <1>10, <1>11 DEF g

LEMMA BranchOK ==
    ASSUME NEW h \in History, HistoryOK(h), NEW i \in 1..h.ids, NEW off \in Nat, off <= h.len[i]
    PROVE  LET j == h.ids + 1
               g == Branch(h, i, j, off) IN
           /\ g \in History /\ HistoryOK(g) /\ GrowsOn(Others(j), h, g) /\ SameBut(j, h, g)
           /\ g.ids = j /\ g.writes = h.writes
           /\ g.len[j] = off /\ g.val[j][off] = h.val[i][off] /\ g.sel[j][off] = NoDb
           /\ Agree(g, i, j, off)
<1> DEFINE j == h.ids + 1
           g == Branch(h, i, j, off)
<1>1. h.ids \in Nat /\ i \in Nat /\ j \in Nat /\ i # j /\ h.len[i] \in Nat
  BY HistoryType
<1>2. /\ g.ids = j /\ g.writes = h.writes
      /\ g.len = [h.len EXCEPT ![j] = off]
      /\ g.val = [h.val EXCEPT ![j] = h.val[i]]
      /\ g.cmd = [h.cmd EXCEPT ![j] = h.cmd[i]]
      /\ g.sel = [h.sel EXCEPT ![j] = [k \in Nat |-> IF k < off THEN h.sel[i][k] ELSE NoDb]]
  BY DEF Branch
<1>3. g \in History
  <2>1. [k \in Nat |-> IF k < off THEN h.sel[i][k] ELSE NoDb] \in [Nat -> Db \cup {NoDb}]
    BY <1>1, HistoryType
  <2> QED
    BY <1>1, <2>1 DEF Branch, History
<1> HIDE DEF g
<1>4. /\ g.len[j] = off /\ g.val[j] = h.val[i] /\ g.cmd[j] = h.cmd[i]
      /\ \A k \in Nat : g.sel[j][k] = IF k < off THEN h.sel[i][k] ELSE NoDb
  <2> HIDE DEF j
  <2>1. g.sel[j] = [k \in Nat |-> IF k < off THEN h.sel[i][k] ELSE NoDb]
    BY <1>1, <1>2, HistoryFields
  <2> QED
    BY <1>1, <1>2, <2>1, HistoryFields
<1>5. \A x \in Others(j) : /\ g.len[x] = h.len[x] /\ g.val[x] = h.val[x]
                           /\ g.cmd[x] = h.cmd[x] /\ g.sel[x] = h.sel[x]
  BY <1>2 DEF History, Others
<1>6. i \in Others(j) /\ h.ids <= g.ids
  BY <1>1, <1>2 DEF Others
<1> HIDE DEF j
<1>7. GrowsOn(Others(j), h, g)
  BY <1>2, <1>5, <1>6, HistoryType DEF GrowsOn, Others
<1>8. \A db : Right(h, db) => Right(g, db)
  BY <1>2 DEF Right
<1>9. ASSUME NEW x \in 1..g.ids
      PROVE  /\ \A k \in Nat : k < g.len[x] => Follows(g, x, k)
             /\ \A k, m \in Nat : k <= m /\ m <= g.len[x] => IsPrefix(g.val[x][k], g.val[x][m])
             /\ \A k \in Nat : k <= g.len[x] => Right(g, g.val[x][k])
  <2>1. CASE x = j
    <3>1. ASSUME NEW k \in Nat, k < off
          PROVE  Follows(g, j, k)
      <4>1. Follows(h, i, k)
        BY <1>1, <3>1 DEF HistoryOK
      <4>2. g.sel[j][k] = h.sel[i][k] /\ g.sel[j][k + 1] \in {h.sel[i][k + 1], NoDb}
        BY <1>4, <3>1
      <4> QED
        BY <1>4, <4>1, <4>2 DEF Follows, SelAt
    <3>2. \A k, m \in Nat : k <= m /\ m <= off => IsPrefix(h.val[i][k], h.val[i][m])
      BY <1>1 DEF HistoryOK
    <3>3. \A k \in Nat : k <= off => Right(g, h.val[i][k])
      BY <1>1, <1>8 DEF HistoryOK
    <3> QED
      BY <1>4, <2>1, <3>1, <3>2, <3>3
  <2>2. CASE x # j
    <3>1. x \in 1..h.ids /\ x \in Others(j)
      BY <1>1, <1>2, <2>2 DEF Others, j
    <3>2. \A k : Follows(h, x, k) => Follows(g, x, k)
      BY <1>5, <3>1 DEF Follows, SelAt
    <3> QED
      BY <1>5, <1>8, <3>1, <3>2 DEF HistoryOK
  <2> QED
    BY <2>1, <2>2
<1>10. HistoryOK(g)
  BY <1>9 DEF HistoryOK
<1>11. SameBut(j, h, g)
  BY <1>5 DEF SameBut
<1>12. Agree(g, i, j, off)
  BY <1>1, <1>4, <1>5, <1>6 DEF Agree
<1>13. g.sel[j][off] = NoDb /\ g.val[j][off] = h.val[i][off]
  BY <1>4
<1> QED
  BY <1>2, <1>3, <1>4, <1>7, <1>10, <1>11, <1>12, <1>13 DEF g, j

LEMMA ExtendOK ==
    ASSUME NEW h \in History, HistoryOK(h), NEW i \in 1..h.ids, NEW c \in Command,
           c.type = "write" => /\ h.sel[i][h.len[i]] # NoDb
                               /\ c.w \in DOMAIN h.writes /\ h.writes[c.w] = h.sel[i][h.len[i]]
    PROVE  LET n == h.len[i]
               g == Extend(h, i, c) IN
           /\ g \in History /\ HistoryOK(g) /\ GrowsOn(Nat, h, g) /\ SameBut(i, h, g)
           /\ g.ids = h.ids /\ g.writes = h.writes
           /\ g.len[i] = n + 1 /\ g.cmd[i][n + 1] = c
           /\ g.val[i][n + 1] = (IF c.type = "write" THEN Append(h.val[i][n], [w |-> c.w, db |-> h.sel[i][n]])
                                 ELSE h.val[i][n])
           /\ g.sel[i][n + 1] = (IF c.type = "select" THEN c.db ELSE h.sel[i][n])
<1> DEFINE n == h.len[i]
           v == IF c.type = "write" THEN Append(h.val[i][n], [w |-> c.w, db |-> h.sel[i][n]]) ELSE h.val[i][n]
           d == IF c.type = "select" THEN c.db ELSE h.sel[i][n]
           g == Extend(h, i, c)
<1>1. /\ h.ids \in Nat /\ i \in Nat /\ n \in Nat /\ h.val[i][n] \in Data
      /\ h.sel[i][n] \in Db \cup {NoDb} /\ h.writes \in Seq(Db)
  BY HistoryType
<1>2. (c.type = "select" /\ c.db \in Db) \/ (c.type = "write" /\ c.w \in Nat /\ h.sel[i][n] \in Db)
  BY <1>1 DEF Command
<1>3. v \in Data /\ d \in Db \cup {NoDb}
  <2>1. CASE c.type = "select"
    BY <1>1, <1>2, <2>1
  <2>2. CASE c.type = "write"
    <3>1. [w |-> c.w, db |-> h.sel[i][n]] \in [w : Nat, db : Db]
      BY <1>2, <2>2
    <3> QED
      BY <1>1, <2>2, <3>1, AppendElements DEF Data
  <2> QED
    BY <1>2, <2>1, <2>2
<1>4. /\ g.ids = h.ids /\ g.writes = h.writes
      /\ g.len = [h.len EXCEPT ![i] = n + 1]
      /\ g.val = [h.val EXCEPT ![i] = [k \in Nat |-> IF k <= n THEN h.val[i][k] ELSE v]]
      /\ g.cmd = [h.cmd EXCEPT ![i] = [k \in Nat |-> IF k <= n THEN h.cmd[i][k] ELSE c]]
      /\ g.sel = [h.sel EXCEPT ![i] = [k \in Nat |-> IF k <= n THEN h.sel[i][k] ELSE d]]
      /\ g = [ids |-> g.ids, writes |-> g.writes, len |-> g.len, val |-> g.val, cmd |-> g.cmd, sel |-> g.sel]
  BY DEF Extend
<1>5. IsPrefix(h.val[i][n], v) /\ Right(h, v)
  <2>1. Right(h, h.val[i][n])
    BY <1>1 DEF HistoryOK
  <2>2. CASE c.type = "select"
    BY <1>1, <2>1, <2>2, PrefixSame DEF Data
  <2>3. CASE c.type = "write"
    <3> DEFINE e == [w |-> c.w, db |-> h.sel[i][n]]
    <3>1. e \in [w : Nat, db : Db] /\ e.w \in DOMAIN h.writes /\ e.db = h.writes[e.w]
      BY <1>2, <2>3
    <3> HIDE DEF e
    <3>2. v = Append(h.val[i][n], e)
      BY <2>3 DEF e
    <3>3. IsPrefix(h.val[i][n], h.val[i][n])
      BY <1>1, PrefixSame DEF Data
    <3>4. IsPrefix(h.val[i][n], Append(h.val[i][n], e))
      BY <1>1, <3>1, <3>3, PrefixAppend DEF Data
    <3>5. Right(h, Append(h.val[i][n], e))
      BY <1>1, <2>1, <3>1, RightAppend
    <3> QED
      BY <3>2, <3>4, <3>5
  <2> QED
    BY <1>2, <2>2, <2>3
<1> HIDE DEF g, v, d
<1>6. g \in History
  <2>1. /\ [k \in Nat |-> IF k <= n THEN h.val[i][k] ELSE v] \in [Nat -> Data]
        /\ [k \in Nat |-> IF k <= n THEN h.cmd[i][k] ELSE c] \in [Nat -> Command]
        /\ [k \in Nat |-> IF k <= n THEN h.sel[i][k] ELSE d] \in [Nat -> Db \cup {NoDb}]
    BY <1>1, <1>3, HistoryType
  <2> DEFINE fv == [k \in Nat |-> IF k <= n THEN h.val[i][k] ELSE v]
             fc == [k \in Nat |-> IF k <= n THEN h.cmd[i][k] ELSE c]
             fs == [k \in Nat |-> IF k <= n THEN h.sel[i][k] ELSE d]
  <2>2. /\ g.len = [h.len EXCEPT ![i] = n + 1] /\ g.val = [h.val EXCEPT ![i] = fv]
        /\ g.cmd = [h.cmd EXCEPT ![i] = fc] /\ g.sel = [h.sel EXCEPT ![i] = fs]
    BY <1>4
  <2>3. n + 1 \in Nat /\ fv \in [Nat -> Data] /\ fc \in [Nat -> Command] /\ fs \in [Nat -> Db \cup {NoDb}]
    BY <1>1, <2>1
  <2> HIDE DEF fv, fc, fs, n
  <2>4. /\ g.len \in [Nat -> Nat] /\ g.val \in [Nat -> [Nat -> Data]]
        /\ g.cmd \in [Nat -> [Nat -> Command]] /\ g.sel \in [Nat -> [Nat -> Db \cup {NoDb}]]
    <3>1. /\ h.len \in [Nat -> Nat] /\ h.val \in [Nat -> [Nat -> Data]]
          /\ h.cmd \in [Nat -> [Nat -> Command]] /\ h.sel \in [Nat -> [Nat -> Db \cup {NoDb}]]
      BY HistoryFields
    <3>2. i \in Nat
      BY <1>1
    <3>3. [h.len EXCEPT ![i] = n + 1] \in [Nat -> Nat]
      BY <2>3, <3>1, <3>2
    <3>4. [h.val EXCEPT ![i] = fv] \in [Nat -> [Nat -> Data]]
      BY <2>3, <3>1, <3>2
    <3>5. [h.cmd EXCEPT ![i] = fc] \in [Nat -> [Nat -> Command]]
      BY <2>3, <3>1, <3>2
    <3>6. [h.sel EXCEPT ![i] = fs] \in [Nat -> [Nat -> Db \cup {NoDb}]]
      BY <2>3, <3>1, <3>2
    <3> QED
      BY <2>2, <3>3, <3>4, <3>5, <3>6
  <2> QED
    BY <1>1, <1>4, <2>4 DEF History
<1>7. /\ g.len[i] = n + 1
      /\ \A k \in Nat : /\ g.val[i][k] = IF k <= n THEN h.val[i][k] ELSE v
                        /\ g.cmd[i][k] = IF k <= n THEN h.cmd[i][k] ELSE c
                        /\ g.sel[i][k] = IF k <= n THEN h.sel[i][k] ELSE d
  <2>1. /\ g.val[i] = [k \in Nat |-> IF k <= n THEN h.val[i][k] ELSE v]
        /\ g.cmd[i] = [k \in Nat |-> IF k <= n THEN h.cmd[i][k] ELSE c]
        /\ g.sel[i] = [k \in Nat |-> IF k <= n THEN h.sel[i][k] ELSE d]
    BY <1>1, <1>4, HistoryFields
  <2> QED
    BY <1>1, <1>4, <2>1, HistoryFields
<1>8. \A j \in Others(i) : /\ g.len[j] = h.len[j] /\ g.val[j] = h.val[j]
                           /\ g.cmd[j] = h.cmd[j] /\ g.sel[j] = h.sel[j]
  BY <1>4, HistoryFields DEF Others
<1>9. GrowsOn(Nat, h, g)
  <2>1. ASSUME NEW j \in Nat
        PROVE  /\ h.len[j] <= g.len[j]
               /\ \A k \in Nat : k <= h.len[j] =>
                     g.val[j][k] = h.val[j][k] /\ g.cmd[j][k] = h.cmd[j][k] /\ g.sel[j][k] = h.sel[j][k]
    <3>1. CASE j = i
      BY <1>1, <1>7, <3>1
    <3>2. CASE j # i
      BY <1>8, <3>2, HistoryType DEF Others
    <3> QED
      BY <3>1, <3>2
  <2> QED
    BY <1>1, <1>4, <2>1 DEF GrowsOn
<1>10. \A db : Right(h, db) => Right(g, db)
  BY <1>4 DEF Right
<1>11. ASSUME NEW j \in 1..g.ids
       PROVE  /\ \A k \in Nat : k < g.len[j] => Follows(g, j, k)
              /\ \A k, m \in Nat : k <= m /\ m <= g.len[j] => IsPrefix(g.val[j][k], g.val[j][m])
              /\ \A k \in Nat : k <= g.len[j] => Right(g, g.val[j][k])
  <2>1. CASE j = i
    <3>1. ASSUME NEW k \in Nat, k < n
          PROVE  Follows(g, i, k)
      <4>1. Follows(h, i, k)
        BY <1>1, <3>1 DEF HistoryOK
      <4>2. /\ g.sel[i][k] = h.sel[i][k] /\ g.sel[i][k + 1] = h.sel[i][k + 1]
            /\ g.val[i][k] = h.val[i][k] /\ g.val[i][k + 1] = h.val[i][k + 1]
            /\ g.cmd[i][k + 1] = h.cmd[i][k + 1]
        BY <1>1, <1>7, <3>1
      <4> QED
        BY <4>1, <4>2 DEF Follows, SelAt
    <3>2. Follows(g, i, n)
      <4>1. /\ g.sel[i][n] = h.sel[i][n] /\ g.sel[i][n + 1] = d
            /\ g.val[i][n] = h.val[i][n] /\ g.val[i][n + 1] = v
            /\ g.cmd[i][n + 1] = c
        BY <1>1, <1>7
      <4> QED
        BY <1>2, <4>1 DEF Follows, SelAt, v, d
    <3>3. ASSUME NEW k \in Nat, NEW m \in Nat, k <= m, m <= n + 1
          PROVE  IsPrefix(g.val[i][k], g.val[i][m])
      <4>1. CASE m <= n
        BY <1>1, <1>7, <3>3, <4>1 DEF HistoryOK
      <4>2. CASE m = n + 1 /\ k <= n
        <5>1. g.val[i][m] = v /\ g.val[i][k] = h.val[i][k]
          BY <1>1, <1>7, <4>2
        <5>2. IsPrefix(h.val[i][k], h.val[i][n])
          BY <1>1, <4>2 DEF HistoryOK
        <5>3. h.val[i][k] \in Data
          BY <1>1, HistoryType
        <5> QED
          BY <1>1, <1>3, <1>5, <5>1, <5>2, <5>3, PrefixTrans DEF Data
      <4>3. CASE k = n + 1
        BY <1>1, <1>3, <1>7, <3>3, <4>3, PrefixSame DEF Data
      <4> QED
        BY <1>1, <3>3, <4>1, <4>2, <4>3
    <3>4. \A k \in Nat : k <= n + 1 => Right(g, g.val[i][k])
      BY <1>1, <1>5, <1>7, <1>10 DEF HistoryOK
    <3> QED
      BY <1>1, <1>7, <2>1, <3>1, <3>2, <3>3, <3>4
  <2>2. CASE j # i
    <3>1. j \in 1..h.ids /\ j \in Others(i)
      BY <1>1, <1>4, <2>2 DEF Others
    <3>2. \A k : Follows(h, j, k) => Follows(g, j, k)
      BY <1>8, <3>1 DEF Follows, SelAt
    <3> QED
      BY <1>8, <1>10, <3>1, <3>2 DEF HistoryOK
  <2> QED
    BY <2>1, <2>2
<1>12. HistoryOK(g)
  BY <1>11 DEF HistoryOK
<1>13. SameBut(i, h, g)
  BY <1>8 DEF SameBut
<1>14. g.len[i] = n + 1 /\ g.cmd[i][n + 1] = c /\ g.val[i][n + 1] = v /\ g.sel[i][n + 1] = d
  BY <1>1, <1>7
<1> QED
  BY <1>4, <1>6, <1>9, <1>12, <1>13, <1>14 DEF g, v, d

LEMMA ReleaseOK ==
    ASSUME NEW h \in History, HistoryOK(h), NEW i \in 1..h.ids
    PROVE  LET g == Release(h, i) IN
           /\ g \in History /\ HistoryOK(g) /\ GrowsOn(Nat, h, g) /\ SameBut(i, h, g)
           /\ g.ids = h.ids /\ g.writes = h.writes /\ g.len = h.len
           /\ g.sel[i][h.len[i]] = NoDb
<1> DEFINE g == Release(h, i)
           e == [k \in Nat |-> IF k = h.len[i] THEN NoDb ELSE h.sel[i][k]]
<1>1. h.ids \in Nat /\ i \in Nat /\ h.len[i] \in Nat
  BY HistoryIds
<1>2. /\ g.ids = h.ids /\ g.writes = h.writes /\ g.len = h.len /\ g.val = h.val /\ g.cmd = h.cmd
      /\ g.sel = [h.sel EXCEPT ![i] = e]
      /\ g = [ids |-> g.ids, writes |-> g.writes, len |-> g.len, val |-> g.val, cmd |-> g.cmd, sel |-> g.sel]
  BY DEF Release
<1>3. e \in [Nat -> Db \cup {NoDb}] /\ e[h.len[i]] = NoDb /\ \A k \in Nat : k # h.len[i] => e[k] = h.sel[i][k]
  BY <1>1, HistoryType
<1> HIDE DEF e, g
<1>4. g.sel \in [Nat -> [Nat -> Db \cup {NoDb}]] /\ g.sel[i] = e /\ \A j \in Others(i) : g.sel[j] = h.sel[j]
  BY <1>1, <1>2, <1>3, HistoryFields DEF Others
<1>5. g \in History
  BY <1>2, <1>4 DEF History
<1>6. SameBut(i, h, g)
  BY <1>2, <1>4 DEF SameBut
<1>7. \A j \in Nat, k \in Nat : g.sel[j][k] = h.sel[j][k] \/ (j = i /\ k = h.len[i] /\ g.sel[j][k] = NoDb)
  BY <1>3, <1>4 DEF Others
<1>8. GrowsOn(Nat, h, g)
  BY <1>1, <1>2, <1>7, HistoryType DEF GrowsOn
<1>9. \A db : Right(h, db) => Right(g, db)
  BY <1>2 DEF Right
<1>10. ASSUME NEW j \in 1..h.ids, NEW k \in Nat, k < h.len[j]
       PROVE  Follows(g, j, k)
  <2>1. j \in Nat /\ Follows(h, j, k)
    BY <1>1, <1>10 DEF HistoryOK
  <2>2. g.sel[j][k] = h.sel[j][k] /\ g.sel[j][k + 1] \in {h.sel[j][k + 1], NoDb}
    BY <1>1, <1>7, <1>10, <2>1
  <2> QED
    BY <1>2, <2>1, <2>2 DEF Follows, SelAt
<1>11. HistoryOK(g)
  BY <1>2, <1>9, <1>10 DEF HistoryOK
<1> QED
  BY <1>2, <1>3, <1>4, <1>5, <1>6, <1>8, <1>11 DEF g

-----------------------------------------------------------------------------
(* What a step that changes one server has to show                         *)

\* The records r and q differ in their clients only.
Twin(r, q) ==
    /\ q.host = r.host /\ q.state = r.state /\ q.id = r.id /\ q.id2 = r.id2 /\ q.off2 = r.off2
    /\ q.off = r.off /\ q.backlog = r.backlog /\ q.seldb = r.seldb /\ q.db = r.db
    /\ q.cached = r.cached /\ q.mid = r.mid /\ q.moff = r.moff /\ q.sel = r.sel
    /\ q.child = r.child /\ q.file = r.file

LEMMA TwinRecord ==
    ASSUME NEW h, NEW r, NEW q, Twin(r, q), RecordOK(h, r)
    PROVE  RecordOK(h, q)
<1>1. RoleOK(h, q)
  BY DEF Twin, RecordOK, RoleOK
<1>2. SecondOK(h, q) /\ FilesOK(h, q)
  BY DEF Twin, RecordOK, SecondOK, FilesOK
<1> QED
  BY <1>1, <1>2 DEF Twin, RecordOK

LEMMA TwinLink ==
    ASSUME NEW h, NEW r, NEW q, NEW l, Twin(r, q), LinkOK(h, r, l)
    PROVE  LinkOK(h, q, l)
  BY DEF Twin, LinkOK, ReplyOK, Alone

LEMMA TwinClient ==
    ASSUME NEW h, NEW s, NEW r, NEW q, NEW c, NEW rt, NEW qt, NEW l, Twin(r, q), Twin(rt, qt),
           ClientOK(h, s, r, c, rt, l)
    PROVE  ClientOK(h, s, q, c, qt, l)
<1>1. \A i, k : Awaits(rt, l.q, i, k) => Awaits(qt, l.q, i, k)
  BY DEF Twin, Awaits
<1>2. \A i, k : Given(rt, l.q, i, k) => Given(qt, l.q, i, k)
  BY DEF Twin, Given
<1>3. \A i, k : Leads(rt, l.q, i, k) => Leads(qt, l.q, i, k)
  BY DEF Twin, Leads
<1>4. q.id = r.id /\ q.off = r.off /\ q.backlog = r.backlog /\ q.child = r.child
  BY DEF Twin
<1>5. c.st # "none" => l.to = s /\ l.open /\ q.backlog # None
  BY <1>4 DEF ClientOK
<1>6. c.st = "start" => qt.state = "psync" /\ l.q = <<>> /\ c.buf = <<>>
  BY DEF ClientOK, Twin
<1>7. c.st \in {"end", "ack"} => Stream(h, q.id, c.init, c.buf) /\ c.init + Len(c.buf) = q.off
  BY <1>4 DEF ClientOK
<1>8. ASSUME c.st = "end"
      PROVE  /\ q.child # None /\ FileAt(h, q.child.file, q.id, c.init)
             /\ q.child.type = "disk" => Awaits(qt, l.q, q.id, c.init)
             /\ q.child.type = "socket" => Given(qt, l.q, q.id, c.init)
  <2>1. /\ r.child # None /\ FileAt(h, r.child.file, r.id, c.init)
        /\ r.child.type = "disk" => Awaits(rt, l.q, r.id, c.init)
        /\ r.child.type = "socket" => Given(rt, l.q, r.id, c.init)
    BY <1>8 DEF ClientOK
  <2> QED
    BY <1>1, <1>2, <1>4, <2>1
<1>9. c.st = "ack" => Given(qt, l.q, q.id, c.init)
  <2>1. c.st = "ack" => Given(rt, l.q, r.id, c.init)
    BY DEF ClientOK
  <2> QED
    BY <1>2, <1>4, <2>1
<1>10. c.st = "online" => Leads(qt, l.q, q.id, q.off)
  <2>1. c.st = "online" => Leads(rt, l.q, r.id, r.off)
    BY DEF ClientOK
  <2> QED
    BY <1>3, <1>4, <2>1
<1> QED
  BY <1>5, <1>6, <1>7, <1>8, <1>9, <1>10 DEF ClientOK

LEMMA TwinNamed ==
    ASSUME NEW I, NEW r, NEW q, NEW l, Twin(r, q), NamedIn(I, r, l)
    PROVE  NamedIn(I, q, l)
  BY DEF Twin, NamedIn, FilesIn

LEMMA TwinOwn ==
    ASSUME NEW r, NEW q, Twin(r, q), OwnOK(r)
    PROVE  OwnOK(q)
  BY DEF Twin, OwnOK, Private, FilesIn

\* In the group g, the parts of GroupOK one by one.
LEMMA GroupParts ==
    ASSUME NEW h, NEW g, GroupOK(h, g)
    PROVE  /\ h \in History /\ HistoryOK(h) /\ h.ids \in Nat
           /\ g.srv \in [Server -> Record] /\ g.link \in [Server -> Link]
           /\ g = [srv |-> g.srv, link |-> g.link]
           /\ \A s \in Server :
                 /\ g.srv[s] \in Record /\ g.link[s] \in Link
                 /\ g.srv[s].host # s /\ g.link[s].to # s
                 /\ RecordOK(h, g.srv[s]) /\ OwnOK(g.srv[s]) /\ LinkOK(h, g.srv[s], g.link[s])
           /\ \A s, t \in Server :
                 /\ g.srv[s].slv[t] \in Client
                 /\ ClientOK(h, s, g.srv[s], g.srv[s].slv[t], g.srv[t], g.link[t])
                 /\ s # t => Apart(g.srv[s], g.srv[t], g.link[t])
<1>1. /\ h \in History /\ HistoryOK(h) /\ Typed(g)
      /\ \A s \in Server : RecordOK(h, g.srv[s]) /\ OwnOK(g.srv[s]) /\ LinkOK(h, g.srv[s], g.link[s])
      /\ \A s, t \in Server :
            /\ ClientOK(h, s, g.srv[s], g.srv[s].slv[t], g.srv[t], g.link[t])
            /\ s # t => Apart(g.srv[s], g.srv[t], g.link[t])
  BY DEF GroupOK
<1>2. /\ g.srv \in [Server -> Record] /\ g.link \in [Server -> Link]
      /\ g = [srv |-> g.srv, link |-> g.link]
      /\ \A s \in Server : g.srv[s].host # s /\ g.link[s].to # s
  BY <1>1 DEF Typed
<1>3. \A s, t \in Server : g.srv[s].slv[t] \in Client
  BY <1>2 DEF Record
<1>4. h.ids \in Nat
  BY <1>1, HistoryIds
<1> QED
  BY <1>1, <1>2, <1>3, <1>4

\* A step of server a from g to k, with histories that go from h to j: the
\* others keep all but their clients.
Around(I, h, j, g, k, a) ==
    /\ GroupOK(h, g) /\ Typed(k)
    /\ j \in History /\ HistoryOK(j) /\ I \in SUBSET Nat /\ GrowsOn(I, h, j)
    /\ \A x \in Server \ {a} : /\ Twin(g.srv[x], k.srv[x])
                               /\ NamedIn(I, g.srv[x], g.link[x])
                               /\ EndKept(h, j, g.srv[x])

\* What holds of a itself afterwards.
ActorOK(j, k, a) ==
    /\ RecordOK(j, k.srv[a]) /\ OwnOK(k.srv[a]) /\ LinkOK(j, k.srv[a], k.link[a])
    /\ \A x \in Server \ {a} :
          /\ Apart(k.srv[a], k.srv[x], k.link[x])
          /\ Apart(k.srv[x], k.srv[a], k.link[a])
          /\ ClientOK(j, a, k.srv[a], k.srv[a].slv[x], k.srv[x], k.link[x])
          /\ ClientOK(j, x, k.srv[x], k.srv[x].slv[a], k.srv[a], k.link[a])
    /\ k.srv[a].slv[a].st = "none"

\* ... and of the connections of the others.
SocketsOK(j, g, k, a) ==
    \A t \in Server \ {a} :
        /\ LinkOK(j, k.srv[t], k.link[t])
        /\ \A s \in Server \ {a} :
              /\ k.srv[s].slv[t] = g.srv[s].slv[t] /\ (k.link[t] = g.link[t] \/ g.srv[s].slv[t].st = "none")
              /\ s # t /\ Alone(g.srv[s]) => QueueIn(Others(g.srv[s].id), k.link[t].q)

LEMMA Regroup ==
    ASSUME NEW I, NEW h, NEW j, NEW g, NEW k, NEW a \in Server,
           Around(I, h, j, g, k, a), ActorOK(j, k, a), SocketsOK(j, g, k, a)
    PROVE  GroupOK(j, k)
<1>1. /\ GroupOK(h, g) /\ Typed(k)
      /\ j \in History /\ HistoryOK(j) /\ I \in SUBSET Nat /\ GrowsOn(I, h, j)
      /\ \A x \in Server \ {a} : /\ Twin(g.srv[x], k.srv[x])
                                 /\ NamedIn(I, g.srv[x], g.link[x])
                                 /\ EndKept(h, j, g.srv[x])
  BY DEF Around
<1>2. ASSUME NEW x \in Server \ {a}
      PROVE  RecordOK(j, k.srv[x]) /\ OwnOK(k.srv[x]) /\ LinkOK(j, k.srv[x], k.link[x])
  <2>1. h \in History /\ g.srv[x] \in Record /\ RecordOK(h, g.srv[x]) /\ OwnOK(g.srv[x])
    BY <1>1, <1>2, GroupParts
  <2>2. g.srv[x].id \in I /\ g.srv[x].id2 \in I /\ FilesIn(I, g.srv[x])
    BY <1>1, <1>2 DEF NamedIn
  <2>3. RecordOK(j, g.srv[x])
    BY <1>1, <1>2, <2>1, <2>2, RecordKept
  <2> QED
    BY <1>1, <1>2, <2>1, <2>3, TwinRecord, TwinOwn DEF SocketsOK
<1>3. ASSUME NEW s \in Server \ {a}, NEW t \in Server \ {a}
      PROVE  /\ ClientOK(j, s, k.srv[s], k.srv[s].slv[t], k.srv[t], k.link[t])
             /\ s # t => Apart(k.srv[s], k.srv[t], k.link[t])
  <2>1. /\ h \in History /\ g.srv[s] \in Record /\ g.srv[s].slv[t] \in Client
        /\ ClientOK(h, s, g.srv[s], g.srv[s].slv[t], g.srv[t], g.link[t])
        /\ s # t => Apart(g.srv[s], g.srv[t], g.link[t])
    BY <1>1, <1>3, GroupParts
  <2>2. Twin(g.srv[s], k.srv[s]) /\ Twin(g.srv[t], k.srv[t]) /\ g.srv[s].id \in I /\ FilesIn(I, g.srv[s])
    BY <1>1, <1>3 DEF NamedIn
  <2>3. /\ k.srv[s].slv[t] = g.srv[s].slv[t] /\ (k.link[t] = g.link[t] \/ g.srv[s].slv[t].st = "none")
        /\ s # t /\ Alone(g.srv[s]) => QueueIn(Others(g.srv[s].id), k.link[t].q)
    BY <1>3 DEF SocketsOK
  <2>4. ClientOK(j, s, g.srv[s], g.srv[s].slv[t], g.srv[t], g.link[t])
    BY <1>1, <2>1, <2>2, ClientKept
  <2>5. ClientOK(j, s, k.srv[s], g.srv[s].slv[t], k.srv[t], g.link[t])
    BY <2>2, <2>4, TwinClient
  <2>6. ClientOK(j, s, k.srv[s], k.srv[s].slv[t], k.srv[t], k.link[t])
    BY <2>3, <2>5 DEF ClientOK
  <2>7. ASSUME s # t
        PROVE  Apart(k.srv[s], k.srv[t], k.link[t])
    BY <2>1, <2>2, <2>3, <2>7 DEF Apart, Twin, NamedIn, FilesIn, Alone
  <2> QED
    BY <2>6, <2>7
<1>4. ClientOK(j, a, k.srv[a], k.srv[a].slv[a], k.srv[a], k.link[a])
  BY DEF ActorOK, ClientOK
<1>5. \A s \in Server : RecordOK(j, k.srv[s]) /\ OwnOK(k.srv[s]) /\ LinkOK(j, k.srv[s], k.link[s])
  BY <1>2 DEF ActorOK
<1>6. \A s, t \in Server : /\ ClientOK(j, s, k.srv[s], k.srv[s].slv[t], k.srv[t], k.link[t])
                           /\ s # t => Apart(k.srv[s], k.srv[t], k.link[t])
  BY <1>3, <1>4 DEF ActorOK
<1> QED
  BY <1>1, <1>5, <1>6 DEF GroupOK

-----------------------------------------------------------------------------
(* Connections that end                                                    *)

LEMMA ClientTypes ==
    /\ NoClient \in Client /\ NoClient.st = "none" /\ NoLink \in Link /\ NoLink.q = <<>>
    /\ NoLink.to = None /\ NoLink.open = FALSE
  BY DEF NoClient, Client, NoLink, Link

\* Clients and connections go, and nothing else changes.
LEMMA Narrow ==
    ASSUME NEW h, NEW g, NEW k, GroupOK(h, g), Typed(k),
           \A x \in Server : Twin(g.srv[x], k.srv[x]),
           \A t \in Server : k.link[t].q = g.link[t].q /\ (g.link[t] = NoLink => k.link[t] = NoLink),
           \A s, t \in Server : \/ k.srv[s].slv[t].st = "none"
                                \/ k.srv[s].slv[t] = g.srv[s].slv[t] /\ k.link[t] = g.link[t]
    PROVE  GroupOK(h, k)
<1>1. \A x \in Server : RecordOK(h, k.srv[x]) /\ OwnOK(k.srv[x])
  BY GroupParts, TwinRecord, TwinOwn
<1>2. ASSUME NEW t \in Server
      PROVE  LinkOK(h, k.srv[t], k.link[t])
  <2>1. LinkOK(h, g.srv[t], g.link[t])
    BY GroupParts
  <2>2. LinkOK(h, g.srv[t], k.link[t])
    BY <2>1 DEF LinkOK
  <2> QED
    BY <2>2, TwinLink
<1>3. ASSUME NEW s \in Server, NEW t \in Server
      PROVE  ClientOK(h, s, k.srv[s], k.srv[s].slv[t], k.srv[t], k.link[t])
  <2>1. CASE k.srv[s].slv[t].st = "none"
    BY <2>1 DEF ClientOK
  <2>2. CASE k.srv[s].slv[t] = g.srv[s].slv[t] /\ k.link[t] = g.link[t]
    <3>1. ClientOK(h, s, g.srv[s], g.srv[s].slv[t], g.srv[t], g.link[t])
      BY GroupParts
    <3> QED
      BY <2>2, <3>1, TwinClient
  <2> QED
    BY <2>1, <2>2
<1>4. ASSUME NEW s \in Server, NEW t \in Server, s # t
      PROVE  Apart(k.srv[s], k.srv[t], k.link[t])
  <2>1. Apart(g.srv[s], g.srv[t], g.link[t])
    BY <1>4, GroupParts
  <2>2. Apart(g.srv[s], g.srv[t], k.link[t])
    BY <2>1 DEF Apart, NamedIn, QueueIn
  <2>3. NamedIn(Others(g.srv[s].id), g.srv[t], k.link[t]) => NamedIn(Others(g.srv[s].id), k.srv[t], k.link[t])
    BY TwinNamed
  <2>4. k.srv[s].id = g.srv[s].id /\ k.srv[s].host = g.srv[s].host /\ (Alone(k.srv[s]) <=> Alone(g.srv[s]))
        /\ k.srv[t].id = g.srv[t].id /\ k.srv[t].host = g.srv[t].host
    BY DEF Twin, Alone
  <2> QED
    BY <2>2, <2>3, <2>4 DEF Apart
<1> QED
  BY <1>1, <1>2, <1>3, <1>4, GroupParts DEF GroupOK

LEMMA ClientsSet ==
    ASSUME NEW r \in Record, NEW c \in [Server -> Client]
    PROVE  [r EXCEPT !.slv = c] \in Record /\ [r EXCEPT !.slv = c].slv = c /\ Twin(r, [r EXCEPT !.slv = c])
<1>1. [r EXCEPT !.slv = c] \in Record
  BY DEF Record
<1>2. [r EXCEPT !.slv = c].slv = c
  BY DEF Record
<1>3. Twin(r, [r EXCEPT !.slv = c])
  BY DEF Record, Twin
<1> QED
  BY <1>1, <1>2, <1>3

\* What CloseSlaves changes.
LEMMA CloseSlavesParts ==
    ASSUME NEW g, Typed(g), NEW s \in Server, NEW T
    PROVE  LET k == CloseSlaves(g, s, T) IN
           /\ Typed(k)
           /\ \A x \in Server : Twin(g.srv[x], k.srv[x])
           /\ \A x \in Server \ {s} : k.srv[x] = g.srv[x]
           /\ \A t \in Server : k.srv[s].slv[t] = IF t \in T THEN NoClient ELSE g.srv[s].slv[t]
           /\ \A t \in Server : k.link[t] = IF t \in T /\ g.link[t].to = s
                                            THEN [g.link[t] EXCEPT !.open = FALSE] ELSE g.link[t]
           /\ \A t \in Server : k.link[t].q = g.link[t].q /\ k.link[t].to = g.link[t].to
<1> DEFINE k == CloseSlaves(g, s, T)
           c == [t \in Server |-> IF t \in T THEN NoClient ELSE g.srv[s].slv[t]]
<1>1. g.srv \in [Server -> Record] /\ g.link \in [Server -> Link]
  BY DEF Typed
<1>2. c \in [Server -> Client]
  BY <1>1, ClientTypes DEF Record
<1>3. /\ k.srv = [g.srv EXCEPT ![s] = [g.srv[s] EXCEPT !.slv = c]]
      /\ k = [srv |-> k.srv, link |-> k.link]
  BY DEF CloseSlaves
<1>4. [g.srv[s] EXCEPT !.slv = c] \in Record /\ Twin(g.srv[s], [g.srv[s] EXCEPT !.slv = c])
      /\ [g.srv[s] EXCEPT !.slv = c].slv = c
  <2> HIDE DEF c
  <2> QED
    BY <1>1, <1>2, ClientsSet
<1>5. /\ k.srv[s] = [g.srv[s] EXCEPT !.slv = c] /\ k.srv \in [Server -> Record]
      /\ \A x \in Server \ {s} : k.srv[x] = g.srv[x]
  <2> HIDE DEF c, k
  <2> QED
    BY <1>1, <1>3, <1>4
<1>6. \A t \in Server : k.link[t] = IF t \in T /\ g.link[t].to = s
                                    THEN [g.link[t] EXCEPT !.open = FALSE] ELSE g.link[t]
  BY DEF CloseSlaves
<1>7. k.link \in [Server -> Link]
  <2>1. \A l \in Link : [l EXCEPT !.open = FALSE] \in Link
    BY DEF Link
  <2>2. k.link = [t \in Server |-> IF t \in T /\ g.link[t].to = s THEN [g.link[t] EXCEPT !.open = FALSE]
                                   ELSE g.link[t]]
    BY DEF CloseSlaves
  <2> QED
    BY <1>1, <2>1, <2>2
<1>8. \A t \in Server : k.link[t].q = g.link[t].q /\ k.link[t].to = g.link[t].to
  <2>1. \A l \in Link : [l EXCEPT !.open = FALSE].q = l.q /\ [l EXCEPT !.open = FALSE].to = l.to
    BY DEF Link
  <2> QED
    BY <1>1, <1>6, <2>1
<1>9. \A x \in Server : Twin(g.srv[x], k.srv[x])
  <2> HIDE DEF k
  <2> QED
    BY <1>4, <1>5 DEF Twin
<1>10. Typed(k)
  <2>1. \A x \in Server : k.srv[x].host = g.srv[x].host
    BY <1>9 DEF Twin
  <2> QED
    BY <1>3, <1>5, <1>7, <1>8, <2>1 DEF Typed
<1>11. \A t \in Server : k.srv[s].slv[t] = IF t \in T THEN NoClient ELSE g.srv[s].slv[t]
  BY <1>4, <1>5
<1> HIDE DEF c
<1> QED
  BY <1>5, <1>6, <1>8, <1>9, <1>10, <1>11 DEF k

LEMMA CloseSlavesOK ==
    ASSUME NEW h, NEW g, GroupOK(h, g), NEW s \in Server, NEW T
    PROVE  GroupOK(h, CloseSlaves(g, s, T))
<1> DEFINE k == CloseSlaves(g, s, T)
<1>1. Typed(g)
  BY DEF GroupOK
<1>2. /\ Typed(k)
      /\ \A x \in Server : Twin(g.srv[x], k.srv[x])
      /\ \A x \in Server \ {s} : k.srv[x] = g.srv[x]
      /\ \A t \in Server : k.srv[s].slv[t] = IF t \in T THEN NoClient ELSE g.srv[s].slv[t]
      /\ \A t \in Server : k.link[t] = IF t \in T /\ g.link[t].to = s
                                       THEN [g.link[t] EXCEPT !.open = FALSE] ELSE g.link[t]
      /\ \A t \in Server : k.link[t].q = g.link[t].q /\ k.link[t].to = g.link[t].to
  BY <1>1, CloseSlavesParts
<1> HIDE DEF k
<1>3. s # None
  BY ReplicationConstants
<1>4. \A t \in Server : g.link[t] = NoLink => k.link[t] = NoLink
  BY <1>2, <1>3, ClientTypes
<1>5. ASSUME NEW x \in Server, NEW t \in Server
      PROVE  k.srv[x].slv[t].st = "none" \/ (k.srv[x].slv[t] = g.srv[x].slv[t] /\ k.link[t] = g.link[t])
  <2>1. CASE x = s
    BY <1>2, <2>1, ClientTypes
  <2>2. CASE x # s
    <3>1. g.srv[x].slv[t].st # "none" => g.link[t].to = x
      BY GroupParts DEF ClientOK
    <3> QED
      BY <1>2, <2>2, <3>1
  <2> QED
    BY <2>1, <2>2
<1>6. GroupOK(h, k)
  BY <1>2, <1>4, <1>5, Narrow
<1> QED
  BY <1>6 DEF k

LEMMA GrowsSame ==
    ASSUME NEW h \in History, NEW I \in SUBSET Nat
    PROVE  GrowsOn(I, h, h)
<1>1. \A i \in I : i \in Nat /\ h.len[i] \in Nat
  BY HistoryFields
<1>2. h.ids <= h.ids
  BY HistoryIds
<1>3. ASSUME NEW i \in I
      PROVE  /\ h.len[i] <= h.len[i]
             /\ \A k \in Nat : k <= h.len[i] =>
                   /\ h.val[i][k] = h.val[i][k]
                   /\ h.cmd[i][k] = h.cmd[i][k]
                   /\ h.sel[i][k] = h.sel[i][k] \/ (k = h.len[i] /\ h.sel[i][k] = NoDb)
  <2>1. \A n \in Nat : n <= n
    OBVIOUS
  <2>2. h.len[i] <= h.len[i]
    BY <1>1, <2>1, Zenon
  <2> QED
    BY <2>2, Zenon
<1>4. \A x \in DOMAIN h.writes : x \in DOMAIN h.writes /\ h.writes[x] = h.writes[x]
  OBVIOUS
<1> QED
  BY <1>2, <1>3, <1>4, Zenon DEF GrowsOn

LEMMA NamesNat ==
    ASSUME NEW m \in Message
    PROVE  Names(m) \in Nat
<1>1. m.type \in {"continue", "fullresync"} => m.id \in Nat
  BY DEF Message, Command
<1>2. m.type = "rdb" => m.file.id \in Nat
  BY DEF Message, Command, File
<1> QED
  BY <1>1, <1>2 DEF Names, NoId

LEMMA NamedNat ==
    ASSUME NEW r \in Record, NEW l \in Link
    PROVE  NamedIn(Nat, r, l)
<1>1. r.id \in Nat /\ r.id2 \in Nat /\ r.mid \in Nat
  BY DEF Record
<1>2. FilesIn(Nat, r)
  BY DEF Record, File, Child, FilesIn
<1>3. QueueIn(Nat, l.q)
  BY NamesNat DEF Link, QueueIn
<1> QED
  BY <1>1, <1>2, <1>3 DEF NamedIn

\* A client depends on few fields of its server.
LEMMA ClientOwner ==
    ASSUME NEW h, NEW s, NEW r, NEW q, NEW c, NEW rt, NEW l, ClientOK(h, s, r, c, rt, l),
           q.id = r.id, q.off = r.off, q.backlog = r.backlog, q.child = r.child
    PROVE  ClientOK(h, s, q, c, rt, l)
  BY DEF ClientOK

LEMMA NoSelf ==
    ASSUME NEW h, NEW g, GroupOK(h, g), NEW s \in Server
    PROVE  g.srv[s].slv[s].st = "none"
  BY GroupParts DEF ClientOK

LEMMA NoBacklogNoClients ==
    ASSUME NEW h, NEW g, GroupOK(h, g), NEW s \in Server, g.srv[s].backlog = None
    PROVE  \A t \in Server : g.srv[s].slv[t].st = "none"
  BY GroupParts DEF ClientOK

LEMMA NoLinkNoClient ==
    ASSUME NEW h, NEW g, GroupOK(h, g), NEW t \in Server, g.link[t] = NoLink
    PROVE  \A s \in Server : g.srv[s].slv[t].st = "none"
<1>1. NoLink.open = FALSE
  BY ClientTypes
<1> QED
  BY <1>1, GroupParts DEF ClientOK

\* Server a changes, and no connection of another does.
Beside(g, k, a) ==
    \A x \in Server \ {a} :
        /\ Twin(g.srv[x], k.srv[x]) /\ k.link[x] = g.link[x]
        /\ \A y \in Server \ {a} : k.srv[x].slv[y] = g.srv[x].slv[y]

LEMMA AlterIn ==
    ASSUME NEW I \in SUBSET Nat, NEW h, NEW j \in History, NEW g, NEW k, NEW a \in Server,
           GroupOK(h, g), Typed(k), HistoryOK(j), GrowsOn(I, h, j), Beside(g, k, a), ActorOK(j, k, a),
           \A x \in Server \ {a} : NamedIn(I, g.srv[x], g.link[x]) /\ EndKept(h, j, g.srv[x])
    PROVE  GroupOK(j, k)
<1>1. Around(I, h, j, g, k, a)
  BY DEF Around, Beside
<1>2. ASSUME NEW t \in Server \ {a}
      PROVE  LinkOK(j, k.srv[t], k.link[t])
  <2>1. h \in History /\ g.srv[t] \in Record /\ g.link[t] \in Link /\ LinkOK(h, g.srv[t], g.link[t])
    BY GroupParts
  <2>2. LinkOK(j, g.srv[t], g.link[t])
    BY <1>2, <2>1, LinkKept
  <2> QED
    BY <2>2, TwinLink DEF Beside
<1>3. ASSUME NEW t \in Server \ {a}, NEW s \in Server \ {a}
      PROVE  /\ k.srv[s].slv[t] = g.srv[s].slv[t] /\ (k.link[t] = g.link[t] \/ g.srv[s].slv[t].st = "none")
             /\ s # t /\ Alone(g.srv[s]) => QueueIn(Others(g.srv[s].id), k.link[t].q)
  <2>1. k.srv[s].slv[t] = g.srv[s].slv[t] /\ k.link[t] = g.link[t]
    BY DEF Beside
  <2>2. s # t => Apart(g.srv[s], g.srv[t], g.link[t])
    BY GroupParts
  <2> QED
    BY <2>1, <2>2 DEF Apart, NamedIn
<1>4. SocketsOK(j, g, k, a)
  BY <1>2, <1>3 DEF SocketsOK
<1> QED
  BY <1>1, <1>4, Regroup

LEMMA Alter ==
    ASSUME NEW h, NEW g, NEW k, NEW a \in Server,
           GroupOK(h, g), Typed(k), Beside(g, k, a), ActorOK(h, k, a)
    PROVE  GroupOK(h, k)
<1>1. h \in History /\ HistoryOK(h)
  BY GroupParts
<1>2. GrowsOn(Nat, h, h)
  BY <1>1, GrowsSame
<1>3. \A x \in Server : NamedIn(Nat, g.srv[x], g.link[x])
  BY GroupParts, NamedNat
<1>4. \A x \in Server : EndKept(h, h, g.srv[x])
  BY DEF EndKept
<1> QED
  BY <1>1, <1>2, <1>3, <1>4, AlterIn

\* The slave t closes its connection.
LEMMA CloseLinkParts ==
    ASSUME NEW h, NEW g, GroupOK(h, g), NEW t \in Server
    PROVE  LET k == CloseLink(g, t) IN
           /\ Typed(k) /\ Beside(g, k, t) /\ k.link[t] = NoLink /\ k.srv[t] = g.srv[t]
           /\ \A x \in Server : Twin(g.srv[x], k.srv[x]) /\ k.srv[x].slv[t].st = "none"
<1> DEFINE s == g.link[t].to
           e == IF s # None /\ g.link[t].open THEN CloseSlaves(g, s, {t}) ELSE g
           k == CloseLink(g, t)
<1>1. /\ Typed(g) /\ s \in Server \cup {None} /\ s # t
      /\ \A x \in Server : g.srv[x].slv[t].st # "none" => x = s /\ g.link[t].open
      /\ None \notin Server
  <2>1. /\ Typed(g) /\ g.link[t] \in Link /\ s # t
        /\ \A x \in Server : ClientOK(h, x, g.srv[x], g.srv[x].slv[t], g.srv[t], g.link[t])
    BY GroupParts, Zenon DEF GroupOK
  <2>2. s \in Server \cup {None}
    BY <2>1 DEF Link
  <2>3. \A x \in Server : g.srv[x].slv[t].st # "none" => x = s /\ g.link[t].open
    BY <2>1 DEF ClientOK
  <2> QED
    BY <2>1, <2>2, <2>3, ReplicationConstants
<1>2. /\ Typed(e)
      /\ \A x \in Server : Twin(g.srv[x], e.srv[x]) /\ e.srv[x].slv[t].st = "none"
      /\ \A x, y \in Server : y # t => e.srv[x].slv[y] = g.srv[x].slv[y] /\ e.link[y] = g.link[y]
      /\ e.srv[t] = g.srv[t]
  <2>1. CASE s # None /\ g.link[t].open
    <3> DEFINE d == CloseSlaves(g, s, {t})
    <3>a. s \in Server /\ Typed(g)
      BY <1>1, <2>1
    <3>2. e = d
      BY <2>1
    <3> HIDE DEF e, s
    <3>1. /\ Typed(d)
          /\ \A x \in Server : Twin(g.srv[x], d.srv[x])
          /\ \A x \in Server \ {s} : d.srv[x] = g.srv[x]
          /\ \A y \in Server : d.srv[s].slv[y] = IF y \in {t} THEN NoClient ELSE g.srv[s].slv[y]
          /\ \A y \in Server : d.link[y] = IF y \in {t} /\ g.link[y].to = s
                                           THEN [g.link[y] EXCEPT !.open = FALSE] ELSE g.link[y]
      BY <3>a, CloseSlavesParts
    <3> HIDE DEF d
    <3>3. s \in Server /\ d.srv[t] = g.srv[t]
      BY <1>1, <2>1, <3>1
    <3>4. \A x \in Server : d.srv[x].slv[t].st = "none"
      BY <1>1, <3>1, <3>3, ClientTypes
    <3>5. \A x, y \in Server : y # t => d.srv[x].slv[y] = g.srv[x].slv[y] /\ d.link[y] = g.link[y]
      BY <3>1, <3>3
    <3> QED
      BY <3>1, <3>2, <3>3, <3>4, <3>5
  <2>2. CASE ~(s # None /\ g.link[t].open)
    <3>1. e = g
      BY <2>2
    <3>2. \A x \in Server : Twin(g.srv[x], g.srv[x])
      BY DEF Twin
    <3> HIDE DEF e, s
    <3> QED
      BY <1>1, <2>2, <3>1, <3>2
  <2> QED
    BY <2>1, <2>2
<1>3. k = [e EXCEPT !.link[t] = NoLink]
  BY DEF CloseLink
<1> HIDE DEF e, k
<1>4. e.srv \in [Server -> Record] /\ e.link \in [Server -> Link] /\ e = [srv |-> e.srv, link |-> e.link]
  BY <1>2 DEF Typed
<1>5. k = [srv |-> e.srv, link |-> [e.link EXCEPT ![t] = NoLink]]
  BY <1>3, <1>4
<1>6. /\ k.srv = e.srv /\ k.link \in [Server -> Link] /\ k.link[t] = NoLink
      /\ \A y \in Server \ {t} : k.link[y] = e.link[y]
  BY <1>4, <1>5, ClientTypes
<1>7. Typed(k)
  BY <1>1, <1>2, <1>5, <1>6, ClientTypes DEF Typed
<1>8. Beside(g, k, t)
  BY <1>2, <1>6 DEF Beside
<1> QED
  BY <1>2, <1>6, <1>7, <1>8 DEF k

\* Server a becomes r.
Put(g, a, r) == [srv |-> [g.srv EXCEPT ![a] = r], link |-> g.link]

LEMMA PutParts ==
    ASSUME NEW g, Typed(g), NEW a \in Server, NEW r \in Record, r.host # a
    PROVE  /\ Typed(Put(g, a, r)) /\ Put(g, a, r).srv[a] = r /\ Put(g, a, r).link = g.link
           /\ \A x \in Server \ {a} : Put(g, a, r).srv[x] = g.srv[x]
           /\ \A q : Put(Put(g, a, r), a, q) = Put(g, a, q)
<1>1. /\ g.srv \in [Server -> Record] /\ g.link \in [Server -> Link]
      /\ \A s \in Server : g.srv[s].host # s /\ g.link[s].to # s
  BY DEF Typed
<1>2. /\ Put(g, a, r).srv = [g.srv EXCEPT ![a] = r] /\ Put(g, a, r).link = g.link
      /\ Put(g, a, r) = [srv |-> Put(g, a, r).srv, link |-> Put(g, a, r).link]
  BY DEF Put
<1>3. /\ Put(g, a, r).srv \in [Server -> Record] /\ Put(g, a, r).srv[a] = r
      /\ \A x \in Server \ {a} : Put(g, a, r).srv[x] = g.srv[x]
  BY <1>1, <1>2
<1>4. Typed(Put(g, a, r))
  BY <1>1, <1>2, <1>3 DEF Typed
<1>5. ASSUME NEW q
      PROVE  Put(Put(g, a, r), a, q) = Put(g, a, q)
  <2>1. [[g.srv EXCEPT ![a] = r] EXCEPT ![a] = q] = [g.srv EXCEPT ![a] = q]
    BY <1>1
  <2> QED
    BY <1>2, <2>1 DEF Put
<1> QED
  BY <1>2, <1>3, <1>4, <1>5

LEMMA PutSame ==
    ASSUME NEW g, Typed(g), NEW a \in Server
    PROVE  Put(g, a, g.srv[a]) = g
  BY DEF Put, Typed

LEMMA PutIs ==
    ASSUME NEW g, g = [srv |-> g.srv, link |-> g.link], NEW a, NEW r
    PROVE  [g EXCEPT !.srv = [g.srv EXCEPT ![a] = r]] = Put(g, a, r)
<1>1. \A z : [g EXCEPT !.srv = z] = [srv |-> z, link |-> g.link]
  OBVIOUS
<1> QED
  BY <1>1 DEF Put

LEMMA PutOne ==
    ASSUME NEW g, g = [srv |-> g.srv, link |-> g.link], NEW a, NEW r
    PROVE  [g EXCEPT !.srv[a] = r] = Put(g, a, r)
<1>1. [g EXCEPT !.srv[a] = r] = [g EXCEPT !.srv = [g.srv EXCEPT ![a] = r]]
  OBVIOUS
<1> QED
  BY <1>1, PutIs

LEMMA PutAgain ==
    ASSUME NEW g, g.srv = [x \in Server |-> g.srv[x]], NEW a \in Server, NEW r
    PROVE  /\ Put(g, a, r) = [srv |-> Put(g, a, r).srv, link |-> Put(g, a, r).link]
           /\ Put(g, a, r).srv[a] = r /\ Put(g, a, r).srv = [x \in Server |-> Put(g, a, r).srv[x]]
           /\ \A q : Put(Put(g, a, r), a, q) = Put(g, a, q)
<1>1. Put(g, a, r).srv = [g.srv EXCEPT ![a] = r] /\ Put(g, a, r).link = g.link
  BY DEF Put
<1>2. Put(g, a, r) = [srv |-> Put(g, a, r).srv, link |-> Put(g, a, r).link]
  BY DEF Put
<1>3. \A q : [[g.srv EXCEPT ![a] = r] EXCEPT ![a] = q] = [g.srv EXCEPT ![a] = q]
  OBVIOUS
<1>4. \A q : Put(Put(g, a, r), a, q) = Put(g, a, q)
  BY <1>1, <1>3 DEF Put
<1> QED
  BY <1>1, <1>2, <1>4

\* What r and q have in common when only the tie to the master changes.
SameData(r, q) ==
    /\ q.host = r.host /\ q.id = r.id /\ q.id2 = r.id2 /\ q.off2 = r.off2 /\ q.off = r.off
    /\ q.backlog = r.backlog /\ q.seldb = r.seldb /\ q.db = r.db /\ q.child = r.child
    /\ q.file = r.file /\ q.slv = r.slv

\* The record that LoseMaster leaves.
Lost(r) ==
    IF r.state = "connected"
    THEN [r EXCEPT !.cached = [id |-> r.mid, off |-> r.moff, sel |-> r.sel], !.state = "connect"]
    ELSE IF r.state \in {"psync", "transfer"} THEN [r EXCEPT !.state = "connect"] ELSE r

LEMMA LostParts ==
    ASSUME NEW h \in History, NEW r \in Record, RecordOK(h, r)
    PROVE  /\ Lost(r) \in Record /\ SameData(r, Lost(r)) /\ RecordOK(h, Lost(r)) /\ Lost(r).mid = r.mid
           /\ Lost(r).state = (IF r.state = "none" THEN "none" ELSE "connect")
           /\ Alone(Lost(r)) => Alone(r)
<1>1. RoleOK(h, r)
  BY DEF RecordOK
<1>2. CASE r.state = "connected"
  <2> DEFINE c == [id |-> r.mid, off |-> r.moff, sel |-> r.sel]
             q == [r EXCEPT !.cached = c, !.state = "connect"]
  <2>1. Lost(r) = q
    BY <1>2 DEF Lost
  <2>2. r.backlog # None /\ r.mid = r.id /\ r.moff = r.off /\ SelAt(h, r.id, r.off, r.sel) /\ r.host # None
    BY <1>1, <1>2 DEF RoleOK
  <2>3. c \in [id : Nat, off : Nat, sel : Db] /\ c.id = r.id /\ c.off = r.off /\ c.sel = r.sel
    BY <2>2 DEF Record
  <2> HIDE DEF c
  <2>4. q \in Record
    BY <2>3 DEF Record
  <2>5. SameData(r, q) /\ q.mid = r.mid /\ q.cached = c /\ q.state = "connect"
    BY DEF Record, SameData
  <2> HIDE DEF q
  <2>6. RoleOK(h, q)
    BY <1>1, <2>2, <2>3, <2>5 DEF RoleOK, SameData
  <2>7. RecordOK(h, q)
    BY <2>5, <2>6, SameBodyOK DEF SameData, SameBody
  <2>8. ~Alone(q)
    BY <2>2, <2>5 DEF Alone, SameData
  <2> QED
    BY <1>2, <2>1, <2>4, <2>5, <2>7, <2>8
<1>3. CASE r.state \in {"psync", "transfer"}
  <2> DEFINE q == [r EXCEPT !.state = "connect"]
  <2>1. Lost(r) = q
    BY <1>3 DEF Lost
  <2>2. q \in Record
    BY DEF Record
  <2>3. SameData(r, q) /\ q.mid = r.mid /\ q.cached = r.cached /\ q.state = "connect"
    BY DEF Record, SameData
  <2> HIDE DEF q
  <2>4. RoleOK(h, q)
    BY <1>1, <1>3, <2>3 DEF RoleOK, SameData
  <2>5. RecordOK(h, q)
    BY <2>3, <2>4, SameBodyOK DEF SameData, SameBody
  <2>6. Alone(q) => Alone(r)
    BY <2>3 DEF Alone, SameData
  <2> QED
    BY <1>3, <2>1, <2>2, <2>3, <2>5, <2>6
<1>4. CASE r.state \in {"none", "connect"}
  <2>1. Lost(r) = r
    BY <1>4 DEF Lost
  <2> QED
    BY <1>4, <2>1 DEF SameData
<1> QED
  BY <1>2, <1>3, <1>4 DEF Record

LEMMA LoseMasterIs ==
    ASSUME NEW h, NEW g, GroupOK(h, g), NEW t \in Server
    PROVE  LoseMaster(g, t) = Put(CloseLink(g, t), t, Lost(g.srv[t]))
<1> DEFINE k == CloseLink(g, t)
           r == g.srv[t]
           c == [id |-> r.mid, off |-> r.moff, sel |-> r.sel]
<1>1. Typed(k) /\ k.srv[t] = r
  BY CloseLinkParts
<1>2. k.srv \in [Server -> Record] /\ k = [srv |-> k.srv, link |-> k.link]
  BY <1>1 DEF Typed
<1>3. LoseMaster(g, t) = CASE r.state = "connected" -> [k EXCEPT !.srv[t].cached = c, !.srv[t].state = "connect"]
                           [] r.state \in {"psync", "transfer"} -> [k EXCEPT !.srv[t].state = "connect"]
                           [] OTHER -> k
  BY DEF LoseMaster
<1> HIDE DEF k, c, r
<1>4. [k EXCEPT !.srv[t].cached = c, !.srv[t].state = "connect"]
         = Put(k, t, [r EXCEPT !.cached = c, !.state = "connect"])
  <2>1. [k EXCEPT !.srv[t].cached = c, !.srv[t].state = "connect"]
           = [k EXCEPT !.srv = [k.srv EXCEPT ![t] = [r EXCEPT !.cached = c, !.state = "connect"]]]
    BY <1>1, <1>2
  <2> QED
    BY <1>2, <2>1, PutIs
<1>5. [k EXCEPT !.srv[t].state = "connect"] = Put(k, t, [r EXCEPT !.state = "connect"])
  BY <1>1, <1>2 DEF Put
<1>6. k = Put(k, t, r)
  BY <1>1, PutSame
<1> QED
  BY <1>3, <1>4, <1>5, <1>6 DEF Lost, k, c, r

LEMMA ApartFrom ==
    ASSUME NEW r, NEW q, NEW rt, NEW l, Apart(r, rt, l), q.host = r.host, q.id = r.id, Alone(q) => Alone(r)
    PROVE  Apart(q, rt, l)
  BY DEF Apart

LEMMA ApartTo ==
    ASSUME NEW x, NEW r, NEW l, NEW q, NEW m, Apart(x, r, l),
           x.host = None /\ q.host = None => x.id # q.id,
           NamedIn(Others(x.id), r, l) => NamedIn(Others(x.id), q, m)
    PROVE  Apart(x, q, m)
  BY DEF Apart

LEMMA TwinApart ==
    ASSUME NEW r, NEW q, NEW rt, NEW qt, NEW l, Twin(r, q), Twin(rt, qt), Apart(r, rt, l)
    PROVE  Apart(q, qt, l)
<1>1. Apart(q, rt, l)
  BY ApartFrom DEF Twin, Alone
<1>2. qt.host = rt.host /\ qt.id = rt.id
  BY DEF Twin
<1>3. NamedIn(Others(q.id), rt, l) => NamedIn(Others(q.id), qt, l)
  BY TwinNamed
<1>4. q.host = None /\ rt.host = None => q.id # rt.id
  BY <1>1 DEF Apart
<1> QED
  BY <1>1, <1>2, <1>3, <1>4, ApartTo

LEMMA NoQueue ==
    ASSUME NEW I, NEW l, l.q = <<>>
    PROVE  QueueIn(I, l.q)
  BY DEF QueueIn

\* A server without its master, before it changes: the clients of the others.
LEMMA LoseMasterOK ==
    ASSUME NEW h, NEW g, GroupOK(h, g), NEW t \in Server
    PROVE  LET k == LoseMaster(g, t) IN
           /\ GroupOK(h, k) /\ k.link[t] = NoLink /\ k.srv[t] = Lost(g.srv[t])
           /\ k = Put(CloseLink(g, t), t, Lost(g.srv[t])) /\ Beside(g, k, t)
<1> DEFINE d == CloseLink(g, t)
           r == g.srv[t]
           q == Lost(r)
           k == Put(d, t, q)
<1>1. LoseMaster(g, t) = k
  BY LoseMasterIs
<1>2. /\ Typed(d) /\ Beside(g, d, t) /\ d.link[t] = NoLink /\ d.srv[t] = r
      /\ \A x \in Server : Twin(g.srv[x], d.srv[x]) /\ d.srv[x].slv[t].st = "none"
  BY CloseLinkParts
<1>3. h \in History /\ r \in Record /\ RecordOK(h, r) /\ OwnOK(r) /\ LinkOK(h, r, g.link[t]) /\ r.host # t
  BY GroupParts
<1>4. /\ q \in Record /\ SameData(r, q) /\ RecordOK(h, q) /\ q.mid = r.mid
      /\ q.state = (IF r.state = "none" THEN "none" ELSE "connect")
      /\ Alone(q) => Alone(r)
  BY <1>3, LostParts
<1>5. q.host = r.host /\ q.id = r.id /\ q.id2 = r.id2 /\ q.off = r.off /\ q.backlog = r.backlog
      /\ q.child = r.child /\ q.file = r.file /\ q.slv = r.slv
  BY <1>4 DEF SameData
<1> HIDE DEF d, q, k
<1>6. /\ Typed(k) /\ k.srv[t] = q /\ k.link = d.link
      /\ \A x \in Server \ {t} : k.srv[x] = d.srv[x]
  BY <1>2, <1>3, <1>4, <1>5, PutParts DEF k
<1>7. Beside(g, k, t)
  BY <1>2, <1>6 DEF Beside
<1>8. RecordOK(h, q) /\ OwnOK(q) /\ LinkOK(h, q, k.link[t])
  <2>1. OwnOK(q)
    BY <1>3, <1>5 DEF OwnOK, Private, FilesIn
  <2>2. LinkOK(h, q, k.link[t])
    BY <1>2, <1>4, <1>6 DEF LinkOK
  <2> QED
    BY <1>4, <2>1, <2>2
<1>9. ASSUME NEW x \in Server \ {t}
      PROVE  /\ Apart(q, k.srv[x], k.link[x]) /\ Apart(k.srv[x], q, k.link[t])
             /\ ClientOK(h, t, q, q.slv[x], k.srv[x], k.link[x])
             /\ ClientOK(h, x, k.srv[x], k.srv[x].slv[t], q, k.link[t])
  <2>1. /\ Apart(r, g.srv[x], g.link[x]) /\ Apart(g.srv[x], r, g.link[t])
        /\ ClientOK(h, t, r, r.slv[x], g.srv[x], g.link[x])
    BY <1>9, GroupParts
  <2>2. Twin(g.srv[x], k.srv[x]) /\ k.link[x] = g.link[x] /\ Twin(r, r) /\ k.link[t].q = <<>>
    BY <1>2, <1>6, <1>7, ClientTypes DEF Beside, Twin
  <2>3. Apart(q, k.srv[x], k.link[x])
    BY <1>4, <1>5, <2>1, <2>2, TwinApart, ApartFrom
  <2>4. Apart(k.srv[x], r, g.link[t])
    BY <2>1, <2>2, TwinApart
  <2>5. Apart(k.srv[x], q, k.link[t])
    <3>1. NamedIn(Others(k.srv[x].id), r, g.link[t]) => NamedIn(Others(k.srv[x].id), q, k.link[t])
      BY <1>4, <1>5, <2>2, NoQueue DEF NamedIn, FilesIn
    <3>2. k.srv[x].host = None /\ q.host = None => k.srv[x].id # q.id
      BY <1>5, <2>4 DEF Apart
    <3> QED
      BY <2>4, <3>1, <3>2, ApartTo
  <2>6. ClientOK(h, t, q, q.slv[x], k.srv[x], k.link[x])
    BY <1>5, <2>1, <2>2, TwinClient, ClientOwner
  <2>7. ClientOK(h, x, k.srv[x], k.srv[x].slv[t], q, k.link[t])
    BY <1>2, <1>6 DEF ClientOK
  <2> QED
    BY <2>3, <2>5, <2>6, <2>7
<1>10. ActorOK(h, k, t)
  BY <1>2, <1>5, <1>6, <1>8, <1>9, NoSelf DEF ActorOK
<1>11. GroupOK(h, k)
  BY <1>6, <1>7, <1>10, Alter
<1> QED
  BY <1>1, <1>2, <1>6, <1>7, <1>11 DEF k, d, q

\* A server that has neither a master's connection nor slaves becomes q.
LEMMA ReplaceOK ==
    ASSUME NEW I \in SUBSET Nat, NEW h, NEW j \in History, NEW g, NEW a \in Server, NEW q \in Record,
           GroupOK(h, g), HistoryOK(j), GrowsOn(I, h, j), q.host # a,
           g.link[a] = NoLink, q.state \in {"none", "connect"},
           \A x \in Server : q.slv[x].st = "none",
           \A x \in Server \ {a} : NamedIn(I, g.srv[x], g.link[x]) /\ EndKept(h, j, g.srv[x]),
           RecordOK(j, q), OwnOK(q),
           \A x \in Server \ {a} : Apart(q, g.srv[x], g.link[x]) /\ Apart(g.srv[x], q, NoLink)
    PROVE  GroupOK(j, Put(g, a, q))
<1> DEFINE k == Put(g, a, q)
<1>1. Typed(g)
  BY DEF GroupOK
<1>2. /\ Typed(k) /\ k.srv[a] = q /\ k.link = g.link
      /\ \A x \in Server \ {a} : k.srv[x] = g.srv[x]
  BY <1>1, PutParts
<1> HIDE DEF k
<1>3. Beside(g, k, a)
  BY <1>2 DEF Beside, Twin
<1>4. LinkOK(j, q, k.link[a])
  BY <1>2 DEF LinkOK
<1>5. ASSUME NEW x \in Server \ {a}
      PROVE  /\ ClientOK(j, a, q, q.slv[x], k.srv[x], k.link[x])
             /\ ClientOK(j, x, k.srv[x], k.srv[x].slv[a], q, k.link[a])
  BY <1>2, NoLinkNoClient DEF ClientOK
<1>6. ActorOK(j, k, a)
  BY <1>2, <1>4, <1>5 DEF ActorOK
<1> QED
  BY <1>2, <1>3, <1>6, AlterIn DEF k

-----------------------------------------------------------------------------
(* Names that are not in use                                               *)

LEMMA CommandNames ==
    ASSUME NEW m \in Command
    PROVE  Names(m) = NoId /\ m \in Message /\ m.type \in {"select", "write"}
<1>1. m.type \in {"select", "write"}
  BY DEF Command
<1> QED
  BY <1>1 DEF Names, Message

LEMMA StreamNames ==
    ASSUME NEW h \in History, NEW i \in Nat, NEW k, NEW q \in Seq(Message), Stream(h, i, k, q), NEW I, NoId \in I
    PROVE  QueueIn(I, q)
<1>1. k \in Nat /\ Len(q) \in Nat
  BY DEF Stream
<1>2. ASSUME NEW j \in 1..Len(q)
      PROVE  Names(q[j]) = NoId
  <2>1. q[j] = h.cmd[i][k + j] /\ k + j \in Nat
    BY <1>1 DEF Stream
  <2>2. q[j] \in Command
    BY <2>1, HistoryType
  <2> QED
    BY <2>2, CommandNames
<1> QED
  BY <1>2 DEF QueueIn

LEMMA QueueFirst ==
    ASSUME NEW I, NEW q \in Seq(Message), q # <<>>, Names(q[1]) \in I, QueueIn(I, Tail(q))
    PROVE  QueueIn(I, q)
<1>1. /\ Len(q) \in Nat /\ Len(q) >= 1 /\ Len(Tail(q)) = Len(q) - 1
      /\ \A j \in 1..Len(Tail(q)) : Tail(q)[j] = q[j + 1]
  BY TailOf
<1>2. ASSUME NEW j \in 1..Len(q)
      PROVE  Names(q[j]) \in I
  <2>1. CASE j = 1
    BY <2>1
  <2>2. CASE j # 1
    <3>1. j - 1 \in 1..Len(Tail(q)) /\ q[j] = Tail(q)[j - 1]
      BY <1>1, <2>2
    <3> QED
      BY <3>1 DEF QueueIn
  <2> QED
    BY <2>1, <2>2
<1> QED
  BY <1>2 DEF QueueIn

LEMMA PayloadNames ==
    ASSUME NEW h \in History, NEW i \in Nat, NEW k, NEW q \in Seq(Message), PayloadOK(h, i, k, q),
           NEW I, NoId \in I, i \in I
    PROVE  QueueIn(I, q)
<1>1. CASE q = <<>>
  BY <1>1 DEF QueueIn
<1>2. CASE q # <<>>
  <2>1. q[1].type = "rdb" /\ q[1].file.id = i /\ Stream(h, i, k, Tail(q))
    BY <1>2 DEF PayloadOK, FileAt
  <2>2. Tail(q) \in Seq(Message)
    BY <1>2, TailOf
  <2>3. QueueIn(I, Tail(q))
    BY <2>1, <2>2, StreamNames
  <2>4. Names(q[1]) = i
    BY <2>1 DEF Names
  <2> QED
    BY <1>2, <2>3, <2>4, QueueFirst
<1> QED
  BY <1>1, <1>2

\* No server, file or socket names an id that has not been made.
LEMMA NamedUpTo ==
    ASSUME NEW h, NEW g, GroupOK(h, g), NEW x \in Server
    PROVE  NamedIn(0..h.ids, g.srv[x], g.link[x])
<1> DEFINE r == g.srv[x]
           q == g.link[x].q
<1>1. h \in History /\ h.ids \in Nat /\ r \in Record /\ RecordOK(h, r) /\ LinkOK(h, r, g.link[x])
  BY GroupParts
<1>2. q \in Seq(Message)
  BY GroupParts DEF Link
<1>3. r.id \in 1..h.ids /\ RoleOK(h, r) /\ SecondOK(h, r) /\ FilesOK(h, r)
  BY <1>1 DEF RecordOK
<1>4. r.id \in 0..h.ids /\ r.id2 \in 0..h.ids /\ r.mid \in 0..h.ids /\ FilesIn(0..h.ids, r)
  <2>1. r.id \in 0..h.ids /\ r.mid \in 0..h.ids
    BY <1>1, <1>3 DEF RoleOK
  <2>2. r.id2 = 0 \/ r.id2 \in 1..h.ids
    BY <1>3 DEF SecondOK, NoId
  <2>3. FilesIn(0..h.ids, r)
    BY <1>3 DEF FilesOK, FileOK, FilesIn
  <2> QED
    BY <1>1, <2>1, <2>2, <2>3
<1>5. NoId \in 0..h.ids /\ (\A i \in 0..h.ids : i \in Nat) /\ (\A i \in 1..h.ids : i \in 0..h.ids)
  BY <1>1 DEF NoId
<1>6. QueueIn(0..h.ids, q)
  <2>1. CASE r.state \in {"none", "connect"}
    BY <1>1, <2>1, ClientTypes, NoQueue DEF LinkOK
  <2>2. CASE r.state = "psync"
    <3>1. CASE q = <<>>
      BY <3>1 DEF QueueIn
    <3>2. CASE q # <<>>
      <4>1. Tail(q) \in Seq(Message) /\ ReplyOK(h, r, q)
        BY <1>1, <1>2, <2>2, <3>2, TailOf DEF LinkOK
      <4>2. CASE q[1].type = "fullresync" /\ q[1].id \in 1..h.ids /\ PayloadOK(h, q[1].id, q[1].off, Tail(q))
        <5>1. QueueIn(0..h.ids, Tail(q))
          BY <1>1, <1>5, <4>1, <4>2, PayloadNames
        <5> QED
          BY <1>2, <1>5, <3>2, <4>2, <5>1, QueueFirst DEF Names
      <4>3. CASE q[1].type = "continue" /\ q[1].id \in 1..h.ids /\ Stream(h, q[1].id, r.off, Tail(q))
        <5>1. QueueIn(0..h.ids, Tail(q))
          BY <1>1, <1>5, <4>1, <4>3, StreamNames
        <5> QED
          BY <1>2, <1>5, <3>2, <4>3, <5>1, QueueFirst DEF Names
      <4>4. CASE q[1].type = "error" /\ Len(q) = 1
        <5>1. Names(q[1]) = NoId
          BY <4>4 DEF Names
        <5>2. \A j \in 1..Len(q) : j = 1
          BY <4>4
        <5> QED
          BY <1>5, <5>1, <5>2 DEF QueueIn
      <4> QED
        BY <3>2, <4>1, <4>2, <4>3, <4>4 DEF ReplyOK
    <3> QED
      BY <3>1, <3>2
  <2>3. CASE r.state = "transfer"
    BY <1>1, <1>2, <1>4, <1>5, <2>3, PayloadNames DEF LinkOK
  <2>4. CASE r.state = "connected"
    BY <1>1, <1>2, <1>4, <1>5, <2>4, StreamNames DEF LinkOK
  <2> QED
    BY <1>1, <2>1, <2>2, <2>3, <2>4 DEF Record
<1> QED
  BY <1>4, <1>6 DEF NamedIn

LEMMA NamedWider ==
    ASSUME NEW I, NEW J, \A i \in I : i \in J, NEW r, NEW l, NamedIn(I, r, l)
    PROVE  NamedIn(J, r, l)
  BY DEF NamedIn, FilesIn, QueueIn

\* The next id is new to all.
LEMMA NewToAll ==
    ASSUME NEW h, NEW g, GroupOK(h, g), NEW x \in Server
    PROVE  NamedIn(Others(h.ids + 1), g.srv[x], g.link[x])
<1>1. h.ids \in Nat /\ NamedIn(0..h.ids, g.srv[x], g.link[x])
  BY GroupParts, NamedUpTo
<1>2. \A i \in 0..h.ids : i \in Others(h.ids + 1)
  BY <1>1 DEF Others
<1> QED
  BY <1>1, <1>2, NamedWider

LEMMA DetachOK ==
    ASSUME NEW h, NEW g, GroupOK(h, g), NEW s \in Server
    PROVE  LET k == DisconnectSlaves(LoseMaster(g, s), s) IN
           /\ GroupOK(h, k) /\ k.link[s] = NoLink /\ Twin(Lost(g.srv[s]), k.srv[s])
           /\ \A t \in Server : k.srv[s].slv[t] = NoClient
<1> DEFINE d == LoseMaster(g, s)
           k == CloseSlaves(d, s, Server)
<1>1. GroupOK(h, d) /\ d.link[s] = NoLink /\ d.srv[s] = Lost(g.srv[s])
  BY LoseMasterOK
<1> HIDE DEF d
<1>2. GroupOK(h, k)
  BY <1>1, CloseSlavesOK
<1>3. Typed(d)
  BY <1>1 DEF GroupOK
<1>4. /\ Twin(d.srv[s], k.srv[s])
      /\ \A t \in Server : k.srv[s].slv[t] = IF t \in Server THEN NoClient ELSE d.srv[s].slv[t]
      /\ \A t \in Server : k.link[t] = IF t \in Server /\ d.link[t].to = s
                                       THEN [d.link[t] EXCEPT !.open = FALSE] ELSE d.link[t]
  BY <1>3, CloseSlavesParts
<1>5. d.link[s].to # s
  BY <1>3 DEF Typed
<1> QED
  BY <1>1, <1>2, <1>4, <1>5 DEF d, DisconnectSlaves

-----------------------------------------------------------------------------
(* Promotions, demotions, restarts and new ids                             *)

\* Where the step of the model leads: to k, after the writes w.
Reached(w, k) ==
    \E j \in History :
        /\ j.writes = w /\ GroupOK(j, k)
        /\ j.ids = ids \/ (j.ids = ids + 1 /\ \E s \in Server : k.srv[s].id = ids + 1)

LEMMA EndsApart ==
    ASSUME NEW h, NEW g, GroupOK(h, g), NEW s \in Server, g.srv[s].host = None,
           NEW j, SameBut(g.srv[s].id, h, j), NEW x \in Server \ {s}
    PROVE  EndKept(h, j, g.srv[x])
<1>1. Apart(g.srv[s], g.srv[x], g.link[x]) /\ g.srv[x].id \in Nat
  BY GroupParts DEF Record
<1>2. g.srv[x].host = None => g.srv[x].id \in Others(g.srv[s].id)
  BY <1>1 DEF Apart, Others
<1> QED
  BY <1>2 DEF EndKept, SameBut

LEMMA EndsNew ==
    ASSUME NEW h, NEW g, GroupOK(h, g), NEW j, SameBut(h.ids + 1, h, j), NEW x \in Server
    PROVE  EndKept(h, j, g.srv[x])
<1>1. g.srv[x].id \in Others(h.ids + 1)
  BY NewToAll DEF NamedIn
<1> QED
  BY <1>1 DEF EndKept, SameBut

LEMMA DemoteOK ==
    ASSUME NEW h, NEW j \in History, NEW b, NEW s \in Server, NEW q \in Record,
           GroupOK(h, b), HistoryOK(j), GrowsOn(Nat, h, j), b.link[s] = NoLink,
           \A t \in Server : b.srv[s].slv[t] = NoClient,
           SameBody(b.srv[s], q), q.mid = b.srv[s].mid, q.slv = b.srv[s].slv,
           q.host \notin {None, s}, q.state = "connect", RoleOK(j, q), Alone(q) => Alone(b.srv[s]),
           \A x \in Server \ {s} : EndKept(h, j, b.srv[x])
    PROVE  GroupOK(j, Put(b, s, q))
<1> DEFINE r == b.srv[s]
<1>1. h \in History /\ r \in Record /\ RecordOK(h, r)
  BY GroupParts
<1>2. \A x \in Server : NamedIn(Nat, b.srv[x], b.link[x])
  BY GroupParts, NamedNat
<1>3. RecordOK(j, q)
  <2>1. r.id \in Nat /\ r.id2 \in Nat /\ FilesIn(Nat, r)
    BY <1>2 DEF NamedIn
  <2> QED
    BY <1>1, <2>1, BodyKept
<1>4. OwnOK(q)
  BY DEF OwnOK, Private
<1>5. ASSUME NEW x \in Server \ {s}
      PROVE  Apart(q, b.srv[x], b.link[x]) /\ Apart(b.srv[x], q, NoLink)
  <2>1. Apart(r, b.srv[x], b.link[x]) /\ Apart(b.srv[x], r, NoLink)
    BY GroupParts
  <2>2. Alone(q) => NamedIn(Others(q.id), b.srv[x], b.link[x])
    BY <2>1 DEF Apart, SameBody
  <2>3. NamedIn(Others(b.srv[x].id), r, NoLink) => NamedIn(Others(b.srv[x].id), q, NoLink)
    BY DEF NamedIn, FilesIn, SameBody
  <2> QED
    BY <2>1, <2>2, <2>3 DEF Apart
<1>6. \A x \in Server : q.slv[x].st = "none"
  BY ClientTypes
<1>7. Nat \in SUBSET Nat
  OBVIOUS
<1> HIDE DEF r
<1> QED
  BY <1>2, <1>3, <1>4, <1>5, <1>6, <1>7, ReplaceOK

LEMMA SetMasterOK ==
    ASSUME NEW h, NEW g, GroupOK(h, g), h.ids = ids, NEW s \in Server, NEW t \in Server, s # t
    PROVE  Reached(h.writes, SetMaster(g, s, t))
<1> DEFINE b == DisconnectSlaves(LoseMaster(g, s), s)
           r == b.srv[s]
           c == [id |-> r.id, off |-> r.off, sel |-> 0]
           q1 == [r EXCEPT !.cached = c, !.host = t, !.state = "connect"]
           q2 == [r EXCEPT !.host = t, !.state = "connect"]
<1>1. /\ GroupOK(h, b) /\ b.link[s] = NoLink /\ Twin(Lost(g.srv[s]), r)
      /\ \A x \in Server : r.slv[x] = NoClient
  BY DetachOK
<1>2. /\ h \in History /\ HistoryOK(h) /\ r \in Record /\ RecordOK(h, r)
      /\ b.srv \in [Server -> Record] /\ b = [srv |-> b.srv, link |-> b.link]
  BY <1>1, GroupParts
<1>3. g.srv[s].host = r.host /\ r.state \in {"none", "connect"}
  <2>1. g.srv[s] \in Record /\ RecordOK(h, g.srv[s])
    BY GroupParts
  <2> QED
    BY <1>1, <1>2, <2>1, LostParts DEF Twin, SameData
<1> DEFINE i == IF g.srv[s].host = None THEN CacheMasterUsingMyself(b, s) ELSE b
<1>4. SetMaster(g, s, t) = [i EXCEPT !.srv[s] = [i.srv[s] EXCEPT !.host = t, !.state = "connect"]]
  BY DEF SetMaster
<1>8. i = IF r.host = None THEN [b EXCEPT !.srv[s].cached = c] ELSE b
  BY <1>3 DEF CacheMasterUsingMyself
<1> HIDE DEF i
<1> HIDE DEF b, c
<1>5. /\ t # None /\ RoleOK(h, r) /\ r.id \in 1..h.ids /\ r.off \in Nat /\ r.id \in Nat /\ r.off <= h.len[r.id]
  BY <1>2, ReplicationConstants DEF RecordOK, Record
<1>6. CASE r.host = None
  <2>1. c \in [id : Nat, off : Nat, sel : Db] /\ c.id = r.id /\ c.off = r.off /\ c.sel = 0
    BY <1>5 DEF c, Db
  <2>2. /\ q1 \in Record /\ SameBody(r, q1) /\ q1.mid = r.mid /\ q1.slv = r.slv /\ q1.host = t
        /\ q1.state = "connect" /\ q1.cached = c
    BY <1>2, <2>1 DEF Record, SameBody
  <2>3. SetMaster(g, s, t) = Put(b, s, q1)
    <3> DEFINE r1 == [r EXCEPT !.cached = c]
    <3>1. i = [b EXCEPT !.srv = [b.srv EXCEPT ![s] = r1]]
      BY <1>2, <1>6, <1>8
    <3> HIDE DEF r1
    <3>2. i = Put(b, s, r1)
      BY <1>2, <3>1, PutIs
    <3>3. /\ i = [srv |-> i.srv, link |-> i.link] /\ i.srv[s] = r1
          /\ \A q : Put(i, s, q) = Put(b, s, q)
      <4>1. /\ Put(b, s, r1) = [srv |-> Put(b, s, r1).srv, link |-> Put(b, s, r1).link]
            /\ Put(b, s, r1).srv[s] = r1 /\ Put(b, s, r1).srv = [x \in Server |-> Put(b, s, r1).srv[x]]
            /\ \A q : Put(Put(b, s, r1), s, q) = Put(b, s, q)
        <5>1. b.srv = [x \in Server |-> b.srv[x]]
          BY <1>2
        <5> QED
          BY <5>1, PutAgain
      <4> QED
        BY <3>2, <4>1
    <3>4. SetMaster(g, s, t) = Put(i, s, [r1 EXCEPT !.host = t, !.state = "connect"])
      BY <1>4, <3>3, PutOne
    <3> QED
      BY <3>3, <3>4 DEF r1
  <2> DEFINE j == Release(h, r.id)
  <2>4. /\ j \in History /\ HistoryOK(j) /\ GrowsOn(Nat, h, j) /\ SameBut(r.id, h, j)
        /\ j.ids = h.ids /\ j.writes = h.writes /\ j.len = h.len
        /\ j.sel[r.id][h.len[r.id]] = NoDb
    BY <1>2, <1>5, ReleaseOK
  <2> HIDE DEF j, q1
  <2>5. RoleOK(j, q1)
    <3>1. r.off = h.len[r.id] /\ r.mid \in 0..j.ids
      BY <1>5, <1>6, <2>4 DEF RoleOK
    <3>2. /\ q1.cached.id = q1.id /\ q1.cached.off = q1.off /\ j.sel[q1.id][q1.off] = NoDb
          /\ q1.mid \in 0..j.ids /\ q1.host # None /\ q1.state = "connect"
      BY <1>5, <2>1, <2>2, <2>4, <3>1 DEF SameBody
    <3> QED
      BY <3>2 DEF RoleOK, SelAt
  <2>6. \A x \in Server \ {s} : EndKept(h, j, b.srv[x])
    BY <1>1, <1>6, <2>4, EndsApart
  <2>7. Alone(q1) => Alone(r)
    BY <1>6, <2>2 DEF Alone, SameBody
  <2>8. GroupOK(j, Put(b, s, q1))
    <3>1. q1.host \notin {None, s}
      BY <1>5, <2>2
    <3> QED
      BY <1>1, <2>2, <2>4, <2>5, <2>6, <2>7, <3>1, DemoteOK
  <2> QED
    BY <2>3, <2>4, <2>8 DEF Reached
<1>7. CASE r.host # None
  <2>2. /\ q2 \in Record /\ SameBody(r, q2) /\ q2.mid = r.mid /\ q2.slv = r.slv /\ q2.host = t
        /\ q2.state = "connect" /\ q2.cached = r.cached
    BY <1>2 DEF Record, SameBody
  <2>3. SetMaster(g, s, t) = Put(b, s, q2)
    BY <1>2, <1>4, <1>7, <1>8, PutOne
  <2> HIDE DEF q2
  <2>4. GrowsOn(Nat, h, h) /\ \A x \in Server \ {s} : EndKept(h, h, b.srv[x])
    BY <1>2, GrowsSame DEF EndKept
  <2>5. RoleOK(h, q2)
    BY <1>5, <2>2 DEF RoleOK, SameBody
  <2>7. Alone(q2) => Alone(r)
    BY <1>5, <2>2 DEF Alone, SameBody
  <2>8. GroupOK(h, Put(b, s, q2))
    <3>1. q2.host \notin {None, s}
      BY <1>5, <2>2
    <3> QED
      BY <1>1, <1>2, <2>2, <2>4, <2>5, <2>7, <3>1, DemoteOK
  <2> QED
    BY <1>2, <2>3, <2>8 DEF Reached
<1> QED
  BY <1>6, <1>7

\* A server without connections takes the next id.
LEMMA RenewOK ==
    ASSUME NEW h, NEW j \in History, NEW b, NEW s \in Server, NEW q \in Record,
           GroupOK(h, b), HistoryOK(j), GrowsOn(Others(h.ids + 1), h, j), SameBut(h.ids + 1, h, j),
           b.link[s] = NoLink, q.host # s, q.state \in {"none", "connect"},
           \A t \in Server : q.slv[t].st = "none",
           q.id = h.ids + 1, q.id2 \in {NoId, b.srv[s].id}, q.mid \in {NoId, b.srv[s].mid},
           q.file = b.srv[s].file, q.child \in {None, b.srv[s].child}, RecordOK(j, q)
    PROVE  GroupOK(j, Put(b, s, q))
<1> DEFINE r == b.srv[s]
           n == h.ids + 1
<1>1. h.ids \in Nat /\ n \in Nat /\ NoId \in Others(n) /\ Others(n) \in SUBSET Nat
  BY GroupParts DEF Others, NoId
<1>2. \A x \in Server : NamedIn(Others(n), b.srv[x], b.link[x]) /\ EndKept(h, j, b.srv[x])
  BY NewToAll, EndsNew
<1>3. OwnOK(q)
  <2>1. r.id \in Others(n) /\ r.file.id \in Others(n) /\ (r.child # None => r.child.file.id \in Others(n))
    BY <1>2 DEF NamedIn, FilesIn
  <2>2. q.id2 # q.id
    BY <1>1, <2>1 DEF Others
  <2>3. FilesIn(Others(q.id), q)
    BY <2>1 DEF FilesIn
  <2> QED
    BY <2>2, <2>3 DEF OwnOK
<1>4. ASSUME NEW x \in Server \ {s}
      PROVE  Apart(q, b.srv[x], b.link[x]) /\ Apart(b.srv[x], q, NoLink)
  <2>1. /\ NamedIn(Others(n), b.srv[x], b.link[x])
        /\ Apart(b.srv[x], r, NoLink) /\ b.srv[x].id \in 1..h.ids
    BY <1>2, GroupParts DEF RecordOK
  <2>2. b.srv[x].id # n /\ NoId \in Others(b.srv[x].id) /\ n \in Others(b.srv[x].id)
    BY <1>1, <2>1 DEF Others, NoId
  <2>3. Apart(q, b.srv[x], b.link[x])
    BY <2>1, <2>2 DEF Apart
  <2>4. NamedIn(Others(b.srv[x].id), r, NoLink) => NamedIn(Others(b.srv[x].id), q, NoLink)
    BY <2>2 DEF NamedIn, FilesIn
  <2>5. Apart(b.srv[x], q, NoLink)
    BY <2>1, <2>2, <2>4, ApartTo
  <2> QED
    BY <2>3, <2>5
<1> HIDE DEF r, n
<1> QED
  BY <1>1, <1>2, <1>3, <1>4, ReplaceOK DEF n

\* Its files are as good as before.
LEMMA RenewFiles ==
    ASSUME NEW h, NEW j \in History, NEW b, NEW s \in Server, NEW q \in Record,
           GroupOK(h, b), GrowsOn(Others(h.ids + 1), h, j),
           q.file = b.srv[s].file, q.child \in {None, b.srv[s].child}
    PROVE  FilesOK(j, q)
<1>1. h \in History /\ FilesIn(Others(h.ids + 1), b.srv[s]) /\ FilesOK(h, b.srv[s]) /\ b.srv[s] \in Record
  BY GroupParts, NewToAll DEF RecordOK, NamedIn
<1>2. Others(h.ids + 1) \in SUBSET Nat
  BY DEF Others
<1>3. FilesOK(j, b.srv[s])
  BY <1>1, <1>2, FilesKept
<1> QED
  BY <1>3 DEF FilesOK

\* The record that UnsetMaster leaves.
Promoted(r, n) ==
    [[[r EXCEPT !.id2 = r.id, !.off2 = r.off + 1] EXCEPT !.id = n]
        EXCEPT !.host = None, !.cached = None, !.state = "none", !.seldb = NoDb]

LEMMA PromotedParts ==
    ASSUME NEW r \in Record, NEW n \in Nat
    PROVE  LET q == Promoted(r, n) IN
           /\ q \in Record
           /\ q.id = n /\ q.id2 = r.id /\ q.off2 = r.off + 1 /\ q.off = r.off /\ q.host = None /\ q.cached = None
           /\ q.state = "none" /\ q.seldb = NoDb
           /\ q.mid = r.mid /\ q.file = r.file /\ q.child = r.child /\ q.slv = r.slv
           /\ q.db = r.db /\ q.backlog = r.backlog
<1> DEFINE r1 == [[r EXCEPT !.id2 = r.id, !.off2 = r.off + 1] EXCEPT !.id = n]
           q == [r1 EXCEPT !.host = None, !.cached = None, !.state = "none", !.seldb = NoDb]
<1>1. r1 \in Record
  <2>1. r.id \in Nat /\ r.off + 1 \in Int
    BY DEF Record
  <2> DEFINE e1 == [r EXCEPT !.id2 = r.id, !.off2 = r.off + 1]
  <2>2. e1 \in Record
    BY <2>1 DEF Record
  <2> HIDE DEF e1
  <2>3. \A e \in Record : [e EXCEPT !.id = n] \in Record
    BY DEF Record
  <2> QED
    BY <2>2, <2>3 DEF e1
<1>2. /\ r1.id = n /\ r1.id2 = r.id /\ r1.off2 = r.off + 1 /\ r1.off = r.off
      /\ r1.mid = r.mid /\ r1.file = r.file /\ r1.child = r.child /\ r1.slv = r.slv
      /\ r1.db = r.db /\ r1.backlog = r.backlog
  BY DEF Record
<1> HIDE DEF r1
<1>3. q \in Record
  BY <1>1 DEF Record, NoDb
<1>4. /\ q.id = r1.id /\ q.id2 = r1.id2 /\ q.off2 = r1.off2 /\ q.off = r1.off
      /\ q.mid = r1.mid /\ q.file = r1.file /\ q.child = r1.child /\ q.slv = r1.slv
      /\ q.db = r1.db /\ q.backlog = r1.backlog
      /\ q.host = None /\ q.cached = None /\ q.state = "none" /\ q.seldb = NoDb
  BY <1>1 DEF Record
<1>5. q = Promoted(r, n)
  BY DEF Promoted, r1
<1> HIDE DEF q
<1> QED
  BY <1>2, <1>3, <1>4, <1>5

LEMMA UnsetMasterIs ==
    ASSUME NEW g, NEW s \in Server,
           DisconnectSlaves(LoseMaster(g, s), s).srv \in [Server -> Record],
           DisconnectSlaves(LoseMaster(g, s), s) = [srv |-> DisconnectSlaves(LoseMaster(g, s), s).srv,
                                                    link |-> DisconnectSlaves(LoseMaster(g, s), s).link]
    PROVE  LET b == DisconnectSlaves(LoseMaster(g, s), s)
           IN  UnsetMaster(g, s) = Put(b, s, Promoted(b.srv[s], ids + 1))
<1> DEFINE b == DisconnectSlaves(LoseMaster(g, s), s)
           r == b.srv[s]
           r1 == [r EXCEPT !.id2 = r.id, !.off2 = r.off + 1]
           r2 == [r1 EXCEPT !.id = ids + 1]
           e1 == [b EXCEPT !.srv[s] = [b.srv[s] EXCEPT !.id2 = b.srv[s].id, !.off2 = b.srv[s].off + 1]]
           e2 == ShiftReplicationId(b, s)
<1>1. UnsetMaster(g, s) = [e2 EXCEPT !.srv[s] = [e2.srv[s] EXCEPT !.host = None, !.cached = None,
                                                                  !.state = "none", !.seldb = NoDb]]
  BY DEF UnsetMaster
<1>2. e2 = [e1 EXCEPT !.srv[s].id = ids + 1]
  BY DEF ShiftReplicationId, ChangeReplicationId
<1>3. b.srv \in [Server -> Record] /\ b = [srv |-> b.srv, link |-> b.link]
  OBVIOUS
<1> HIDE DEF b, e2
<1>4. e1 = Put(b, s, r1)
  BY <1>3, PutOne
<1> HIDE DEF r1, e1
<1>5. /\ e1 = [srv |-> e1.srv, link |-> e1.link] /\ e1.srv[s] = r1 /\ e1.srv = [x \in Server |-> e1.srv[x]]
      /\ \A q : Put(e1, s, q) = Put(b, s, q)
  <2>1. /\ Put(b, s, r1) = [srv |-> Put(b, s, r1).srv, link |-> Put(b, s, r1).link]
        /\ Put(b, s, r1).srv[s] = r1 /\ Put(b, s, r1).srv = [x \in Server |-> Put(b, s, r1).srv[x]]
        /\ \A q : Put(Put(b, s, r1), s, q) = Put(b, s, q)
    <3>1. b.srv = [x \in Server |-> b.srv[x]]
      BY <1>3
    <3> QED
      BY <3>1, PutAgain
  <2> QED
    BY <1>4, <2>1
<1>6. e2 = Put(e1, s, r2)
  <2>1. e2 = [e1 EXCEPT !.srv = [e1.srv EXCEPT ![s] = r2]]
    BY <1>2, <1>5
  <2> HIDE DEF r2
  <2> QED
    BY <1>5, <2>1, PutIs
<1> HIDE DEF r2
<1>7. /\ e2 = [srv |-> e2.srv, link |-> e2.link] /\ e2.srv[s] = r2 /\ \A q : Put(e2, s, q) = Put(e1, s, q)
  <2>1. /\ Put(e1, s, r2) = [srv |-> Put(e1, s, r2).srv, link |-> Put(e1, s, r2).link]
        /\ Put(e1, s, r2).srv[s] = r2 /\ Put(e1, s, r2).srv = [x \in Server |-> Put(e1, s, r2).srv[x]]
        /\ \A q : Put(Put(e1, s, r2), s, q) = Put(e1, s, q)
    BY <1>5, PutAgain
  <2> QED
    BY <1>6, <2>1
<1>8. UnsetMaster(g, s) = Put(e2, s, [r2 EXCEPT !.host = None, !.cached = None, !.state = "none", !.seldb = NoDb])
  BY <1>1, <1>7, PutOne
<1> QED
  BY <1>5, <1>7, <1>8 DEF r2, r1, b, Promoted

LEMMA StreamAgree ==
    ASSUME NEW h \in History, NEW i \in Nat, NEW j \in Nat, NEW k, Agree(h, i, j, k),
           NEW m, NEW S, NEW q \in Seq(S), Stream(h, i, m, q), m + Len(q) <= k
    PROVE  Stream(h, j, m, q)
<1>1. m \in Nat /\ Len(q) \in Nat /\ k \in Nat /\ k <= h.len[j] /\ h.len[j] \in Nat
  BY HistoryType DEF Stream, Agree
<1>2. ASSUME NEW x \in 1..Len(q)
      PROVE  q[x] = h.cmd[j][m + x]
  <2>1. q[x] = h.cmd[i][m + x] /\ m + x \in Nat /\ m + x <= k
    BY <1>1 DEF Stream
  <2> QED
    BY <2>1 DEF Agree
<1> QED
  BY <1>1, <1>2 DEF Stream

LEMMA UnsetMasterOK ==
    ASSUME NEW h, NEW g, GroupOK(h, g), h.ids = ids, NEW s \in Server
    PROVE  Reached(h.writes, UnsetMaster(g, s))
<1> DEFINE b == DisconnectSlaves(LoseMaster(g, s), s)
           r == b.srv[s]
           n == h.ids + 1
           j == Branch(h, r.id, n, r.off)
           q == Promoted(r, ids + 1)
<1>1. /\ GroupOK(h, b) /\ b.link[s] = NoLink
      /\ \A x \in Server : r.slv[x] = NoClient
  BY DetachOK
<1>2. /\ h \in History /\ HistoryOK(h) /\ h.ids \in Nat /\ r \in Record /\ RecordOK(h, r)
      /\ b.srv \in [Server -> Record] /\ b = [srv |-> b.srv, link |-> b.link]
  BY <1>1, GroupParts
<1>3. UnsetMaster(g, s) = Put(b, s, q)
  BY <1>2, UnsetMasterIs
<1> HIDE DEF b
<1>4. /\ r.id \in 1..h.ids /\ r.off \in Nat /\ r.id \in Nat /\ r.off <= h.len[r.id]
      /\ r.db = h.val[r.id][r.off] /\ r.db \in Data /\ r.mid \in 0..h.ids
      /\ r.backlog # None => r.backlog \in Seq(Command) /\ Stream(h, r.id, r.off - Len(r.backlog), r.backlog)
  BY <1>2 DEF RecordOK, RoleOK, Record
<1>5. q \in Record
  BY <1>2, PromotedParts
<1>6. /\ q.id = n /\ q.id2 = r.id /\ q.off2 = r.off + 1 /\ q.off = r.off /\ q.host = None /\ q.cached = None
      /\ q.state = "none" /\ q.seldb = NoDb
  BY <1>2, PromotedParts
<1>7. /\ q.mid = r.mid /\ q.file = r.file /\ q.child = r.child /\ q.slv = r.slv
      /\ q.db = r.db /\ q.backlog = r.backlog
  BY <1>2, PromotedParts
<1>8. /\ j \in History /\ HistoryOK(j) /\ GrowsOn(Others(n), h, j) /\ SameBut(n, h, j)
      /\ j.ids = n /\ j.writes = h.writes
      /\ j.len[n] = r.off /\ j.val[n][r.off] = h.val[r.id][r.off] /\ j.sel[n][r.off] = NoDb
      /\ Agree(j, r.id, n, r.off)
  BY <1>2, <1>4, BranchOK
<1> HIDE DEF q, j
<1>9. n \in Nat /\ r.id \in Others(n) /\ Others(n) \in SUBSET Nat
  BY <1>2, <1>4 DEF Others
<1> HIDE DEF n
<1>10. RecordOK(j, q)
  <2>1. q.id \in 1..j.ids /\ q.off <= j.len[q.id] /\ q.db = j.val[q.id][q.off]
    BY <1>2, <1>4, <1>6, <1>7, <1>8 DEF n
  <2>2. q.backlog # None => Stream(j, q.id, q.off - Len(q.backlog), q.backlog)
    <3>1. SUFFICES ASSUME r.backlog # None
                   PROVE  Stream(j, n, r.off - Len(r.backlog), r.backlog)
      BY <1>6, <1>7
    <3>2. Stream(j, r.id, r.off - Len(r.backlog), r.backlog)
      BY <1>2, <1>4, <1>8, <1>9, <3>1, StreamKept
    <3>3. r.backlog \in Seq(Command) /\ (r.off - Len(r.backlog)) + Len(r.backlog) <= r.off
      BY <1>4, <3>1
    <3> QED
      BY <1>4, <1>8, <1>9, <3>2, <3>3, StreamAgree
  <2>3. RoleOK(j, q)
    <3>1. q.mid \in 0..j.ids
      BY <1>2, <1>4, <1>7, <1>8 DEF n
    <3> QED
      BY <1>6, <1>8, <3>1 DEF RoleOK
  <2>4. SecondOK(j, q)
    <3>1. q.id2 \in 1..j.ids /\ q.off2 \in 1..(q.off + 1) /\ q.off2 - 1 = r.off
      BY <1>2, <1>4, <1>6, <1>8 DEF n
    <3>2. r.off <= j.len[r.id]
      BY <1>8 DEF Agree
    <3>3. j.val[r.id][r.off] = r.db
      BY <1>4, <1>8, <1>9 DEF GrowsOn
    <3>4. IsPrefix(j.val[q.id2][q.off2 - 1], q.db)
      BY <1>4, <1>6, <1>7, <3>1, <3>3, PrefixSame DEF Data
    <3> QED
      BY <1>6, <1>8, <3>1, <3>2, <3>4 DEF SecondOK
  <2>5. FilesOK(j, q)
    BY <1>1, <1>5, <1>7, <1>8, RenewFiles DEF n
  <2> QED
    BY <2>1, <2>2, <2>3, <2>4, <2>5 DEF RecordOK
<1>11. q.host # s /\ \A x \in Server : q.slv[x].st = "none"
  BY <1>1, <1>6, <1>7, ReplicationConstants, ClientTypes
<1>12. GroupOK(j, Put(b, s, q))
  BY <1>1, <1>5, <1>6, <1>7, <1>8, <1>10, <1>11, RenewOK DEF n
<1>13. Put(b, s, q).srv[s].id = ids + 1
  BY <1>1, <1>2, <1>5, <1>6, <1>11, PutParts DEF n, GroupOK
<1> QED
  BY <1>3, <1>6, <1>8, <1>12, <1>13 DEF Reached, n

\* The group holds together as k, with histories of the same ids and writes.
Held(h, k) == \E j \in History : j.ids = h.ids /\ j.writes = h.writes /\ GroupOK(j, k)

\* The record of a master with a new id.
Renewed(r, n, b) == [[[r EXCEPT !.id = n] EXCEPT !.id2 = NoId, !.off2 = -1] EXCEPT !.backlog = b]

LEMMA RenewedParts ==
    ASSUME NEW r \in Record, NEW n \in Nat, NEW b \in {None, <<>>}
    PROVE  LET q == Renewed(r, n, b) IN
           /\ q \in Record
           /\ q.id = n /\ q.id2 = NoId /\ q.backlog = b /\ q.off = r.off /\ q.host = r.host /\ q.cached = r.cached
           /\ q.state = r.state /\ q.seldb = r.seldb
           /\ q.mid = r.mid /\ q.file = r.file /\ q.child = r.child /\ q.slv = r.slv /\ q.db = r.db
<1> DEFINE e1 == [r EXCEPT !.id = n]
           e2 == [e1 EXCEPT !.id2 = NoId, !.off2 = -1]
           q == [e2 EXCEPT !.backlog = b]
<1>1. e1 \in Record
  BY DEF Record
<1>2. /\ e1.id = n /\ e1.off = r.off /\ e1.host = r.host /\ e1.cached = r.cached
      /\ e1.state = r.state /\ e1.seldb = r.seldb
      /\ e1.mid = r.mid /\ e1.file = r.file /\ e1.child = r.child /\ e1.slv = r.slv /\ e1.db = r.db
  BY DEF Record
<1> HIDE DEF e1
<1>3. e2 \in Record
  <2>1. NoId \in Nat /\ -1 \in Int
    BY DEF NoId
  <2> QED
    BY <1>1, <2>1 DEF Record
<1>4. /\ e2.id = e1.id /\ e2.id2 = NoId /\ e2.off = e1.off /\ e2.host = e1.host /\ e2.cached = e1.cached
      /\ e2.state = e1.state /\ e2.seldb = e1.seldb
      /\ e2.mid = e1.mid /\ e2.file = e1.file /\ e2.child = e1.child /\ e2.slv = e1.slv /\ e2.db = e1.db
  BY <1>1 DEF Record
<1> HIDE DEF e2
<1>5. q \in Record
  <2>1. b \in Seq(Command) \cup {None}
    <3>1. <<>> \in Seq(Command)
      OBVIOUS
    <3> QED
      BY <3>1
  <2> QED
    BY <1>3, <2>1 DEF Record
<1>6. /\ q.id = e2.id /\ q.id2 = e2.id2 /\ q.backlog = b /\ q.off = e2.off /\ q.host = e2.host /\ q.cached = e2.cached
      /\ q.state = e2.state /\ q.seldb = e2.seldb
      /\ q.mid = e2.mid /\ q.file = e2.file /\ q.child = e2.child /\ q.slv = e2.slv /\ q.db = e2.db
  BY <1>3 DEF Record
<1>7. q = Renewed(r, n, b)
  BY DEF Renewed, e1, e2
<1> HIDE DEF q
<1> QED
  BY <1>2, <1>4, <1>5, <1>6, <1>7

LEMMA RightData ==
    ASSUME NEW h \in History, HistoryOK(h), NEW r \in Record, RecordOK(h, r)
    PROVE  Right(h, r.db)
<1>1. r.id \in 1..h.ids /\ r.off \in Nat /\ r.off <= h.len[r.id] /\ r.db = h.val[r.id][r.off]
  BY DEF RecordOK, Record
<1> QED
  BY <1>1 DEF HistoryOK

LEMMA NewIdOK ==
    ASSUME NEW h, NEW g, GroupOK(h, g), NEW s \in Server, g.srv[s].host = None,
           \A t \in Server : g.srv[s].slv[t].st = "none", NEW b \in {None, <<>>}
    PROVE  /\ \E j \in History : /\ j.ids = h.ids + 1 /\ j.writes = h.writes
                                 /\ GroupOK(j, Put(g, s, Renewed(g.srv[s], h.ids + 1, b)))
           /\ Put(g, s, Renewed(g.srv[s], h.ids + 1, b)).srv[s].id = h.ids + 1
<1> DEFINE r == g.srv[s]
           n == h.ids + 1
           q == Renewed(r, n, b)
           j == Begin(h, n, r.off, r.db, r.seldb)
<1>1. /\ h \in History /\ HistoryOK(h) /\ h.ids \in Nat /\ r \in Record /\ RecordOK(h, r)
      /\ LinkOK(h, r, g.link[s]) /\ Typed(g)
  BY GroupParts DEF GroupOK
<1>2. /\ RoleOK(h, r) /\ r.off \in Nat /\ r.db \in Data /\ r.seldb \in Db \cup {NoDb} /\ Right(h, r.db)
      /\ r.mid \in 0..h.ids /\ r.cached = None /\ r.state = "none"
  BY <1>1, RightData DEF RecordOK, RoleOK, Record
<1>3. g.link[s] = NoLink
  BY <1>1, <1>2 DEF LinkOK
<1>4. n \in Nat /\ n \in 1..(h.ids + 1) /\ n > h.ids
  BY <1>1
<1>5. /\ j \in History /\ HistoryOK(j) /\ GrowsOn(Others(n), h, j) /\ SameBut(n, h, j)
      /\ j.ids = (IF n > h.ids THEN n ELSE h.ids) /\ j.writes = h.writes
      /\ j.len[n] = r.off /\ j.val[n][r.off] = r.db /\ j.sel[n][r.off] = r.seldb
  BY <1>1, <1>2, <1>4, BeginOK
<1>6. /\ q \in Record
      /\ q.id = n /\ q.id2 = NoId /\ q.backlog = b /\ q.off = r.off /\ q.host = r.host /\ q.cached = r.cached
      /\ q.state = r.state /\ q.seldb = r.seldb
      /\ q.mid = r.mid /\ q.file = r.file /\ q.child = r.child /\ q.slv = r.slv /\ q.db = r.db
  BY <1>1, <1>4, RenewedParts
<1> HIDE DEF q, j
<1>7. RecordOK(j, q)
  <2>1. q.id \in 1..j.ids /\ q.off <= j.len[q.id] /\ q.db = j.val[q.id][q.off]
    BY <1>2, <1>4, <1>5, <1>6
  <2>2. ASSUME q.backlog # None
        PROVE  Stream(j, q.id, q.off - Len(q.backlog), q.backlog)
    <3>1. q.backlog = <<>> /\ q.off - Len(q.backlog) = q.off
      BY <1>2, <1>6, <2>2
    <3> QED
      BY <1>2, <1>6, <2>1, <3>1, StreamNone
  <2>3. RoleOK(j, q)
    <3>1. j.ids = h.ids + 1 /\ q.mid \in 0..h.ids
      BY <1>2, <1>4, <1>5, <1>6
    <3>2. q.mid \in 0..j.ids
      BY <1>1, <3>1
    <3> QED
      BY <1>2, <1>5, <1>6, <3>2 DEF RoleOK
  <2>4. SecondOK(j, q)
    BY <1>6 DEF SecondOK
  <2>5. FilesOK(j, q)
    BY <1>5, <1>6, RenewFiles
  <2> QED
    BY <2>1, <2>2, <2>3, <2>4, <2>5 DEF RecordOK
<1>8. q.host # s /\ \A x \in Server : q.slv[x].st = "none"
  BY <1>6, ReplicationConstants
<1>9. GroupOK(j, Put(g, s, q))
  BY <1>2, <1>3, <1>5, <1>6, <1>7, <1>8, RenewOK
<1>10. Put(g, s, q).srv[s].id = n
  BY <1>1, <1>6, <1>8, PutParts
<1> QED
  BY <1>4, <1>5, <1>9, <1>10 DEF q

LEMMA Shaped ==
    ASSUME NEW g, Typed(g)
    PROVE  g.srv = [x \in Server |-> g.srv[x]] /\ g = [srv |-> g.srv, link |-> g.link]
  BY DEF Typed

\* The updates of one field or two, as updates of the server.
LEMMA NewIdIs ==
    ASSUME NEW g, g.srv = [x \in Server |-> g.srv[x]], g = [srv |-> g.srv, link |-> g.link], NEW s \in Server
    PROVE  LET k == ClearReplicationId2(ChangeReplicationId(g, s), s) IN
           /\ [k EXCEPT !.srv[s].backlog = None] = Put(g, s, Renewed(g.srv[s], ids + 1, None))
           /\ CreateBacklog(k, s) = Put(g, s, Renewed(g.srv[s], ids + 1, <<>>))
<1> DEFINE r == g.srv[s]
           r1 == [r EXCEPT !.id = ids + 1]
           r2 == [r1 EXCEPT !.id2 = NoId, !.off2 = -1]
           e1 == ChangeReplicationId(g, s)
           k == ClearReplicationId2(e1, s)
<1>1. e1 = Put(g, s, r1)
  <2>1. e1 = [g EXCEPT !.srv = [g.srv EXCEPT ![s] = r1]]
    BY DEF ChangeReplicationId
  <2> HIDE DEF r1, e1
  <2> QED
    BY <2>1, PutIs
<1>2. k = [e1 EXCEPT !.srv[s] = [e1.srv[s] EXCEPT !.id2 = NoId, !.off2 = -1]]
  BY DEF ClearReplicationId2
<1> HIDE DEF k, e1, r1
<1>3. /\ e1 = [srv |-> e1.srv, link |-> e1.link] /\ e1.srv[s] = r1 /\ e1.srv = [x \in Server |-> e1.srv[x]]
      /\ \A q : Put(e1, s, q) = Put(g, s, q)
  <2>1. /\ Put(g, s, r1) = [srv |-> Put(g, s, r1).srv, link |-> Put(g, s, r1).link]
        /\ Put(g, s, r1).srv[s] = r1 /\ Put(g, s, r1).srv = [x \in Server |-> Put(g, s, r1).srv[x]]
        /\ \A q : Put(Put(g, s, r1), s, q) = Put(g, s, q)
    BY PutAgain
  <2> QED
    BY <1>1, <2>1
<1>4. k = Put(e1, s, r2)
  BY <1>2, <1>3, PutOne
<1> HIDE DEF r2
<1>5. /\ k = [srv |-> k.srv, link |-> k.link] /\ k.srv[s] = r2 /\ k.srv = [x \in Server |-> k.srv[x]]
      /\ \A q : Put(k, s, q) = Put(e1, s, q)
  <2>1. /\ Put(e1, s, r2) = [srv |-> Put(e1, s, r2).srv, link |-> Put(e1, s, r2).link]
        /\ Put(e1, s, r2).srv[s] = r2 /\ Put(e1, s, r2).srv = [x \in Server |-> Put(e1, s, r2).srv[x]]
        /\ \A q : Put(Put(e1, s, r2), s, q) = Put(e1, s, q)
    BY <1>3, PutAgain
  <2> QED
    BY <1>4, <2>1
<1>6. ASSUME NEW b
      PROVE  [k EXCEPT !.srv[s].backlog = b] = Put(g, s, Renewed(r, ids + 1, b))
  <2>1. [k EXCEPT !.srv[s].backlog = b] = [k EXCEPT !.srv = [k.srv EXCEPT ![s] = [r2 EXCEPT !.backlog = b]]]
    BY <1>5
  <2>2. [k EXCEPT !.srv[s].backlog = b] = Put(k, s, [r2 EXCEPT !.backlog = b])
    BY <1>5, <2>1, PutIs
  <2>3. [r2 EXCEPT !.backlog = b] = Renewed(r, ids + 1, b)
    BY DEF Renewed, r1, r2
  <2> QED
    BY <1>3, <1>5, <2>2, <2>3
<1> QED
  BY <1>6 DEF CreateBacklog, k, e1

LEMMA FreeBacklogOK ==
    ASSUME NEW h, NEW g, GroupOK(h, g), h.ids = ids, NEW s \in Server, g.srv[s].host = None, SlavesOf(g, s) = {}
    PROVE  Reached(h.writes, [ClearReplicationId2(ChangeReplicationId(g, s), s) EXCEPT !.srv[s].backlog = None])
<1>1. \A t \in Server : g.srv[s].slv[t].st = "none"
  BY DEF SlavesOf
<1>2. Typed(g)
  BY DEF GroupOK
<1>3. [ClearReplicationId2(ChangeReplicationId(g, s), s) EXCEPT !.srv[s].backlog = None]
         = Put(g, s, Renewed(g.srv[s], ids + 1, None))
  <2>1. g.srv = [x \in Server |-> g.srv[x]] /\ g = [srv |-> g.srv, link |-> g.link]
    BY <1>2, Shaped
  <2> QED
    BY <2>1, NewIdIs
<1>4. /\ \E j \in History : /\ j.ids = h.ids + 1 /\ j.writes = h.writes
                            /\ GroupOK(j, Put(g, s, Renewed(g.srv[s], h.ids + 1, None)))
      /\ Put(g, s, Renewed(g.srv[s], h.ids + 1, None)).srv[s].id = h.ids + 1
  BY <1>1, NewIdOK
<1> QED
  BY <1>3, <1>4 DEF Reached

LEMMA CloseThenPut ==
    ASSUME NEW d, d.srv = [x \in Server |-> d.srv[x]], NEW s \in Server, NEW r, NEW q, NEW T
    PROVE  Put(CloseSlaves(Put(d, s, r), s, T), s, q) = Put(CloseSlaves(d, s, T), s, q)
<1> DEFINE p == Put(d, s, r)
           c1 == [t \in Server |-> IF t \in T THEN NoClient ELSE p.srv[s].slv[t]]
           c2 == [t \in Server |-> IF t \in T THEN NoClient ELSE d.srv[s].slv[t]]
<1>1. p.srv = [d.srv EXCEPT ![s] = r] /\ p.link = d.link
  BY DEF Put
<1>2. /\ CloseSlaves(p, s, T).srv = [p.srv EXCEPT ![s] = [p.srv[s] EXCEPT !.slv = c1]]
      /\ CloseSlaves(d, s, T).srv = [d.srv EXCEPT ![s] = [d.srv[s] EXCEPT !.slv = c2]]
  BY DEF CloseSlaves
<1>3. CloseSlaves(p, s, T).link = CloseSlaves(d, s, T).link
  BY <1>1 DEF CloseSlaves
<1> HIDE DEF p, c1, c2
<1>4. \A y, z : [[[d.srv EXCEPT ![s] = r] EXCEPT ![s] = y] EXCEPT ![s] = q] = [[d.srv EXCEPT ![s] = z] EXCEPT ![s] = q]
  OBVIOUS
<1>5. [CloseSlaves(p, s, T).srv EXCEPT ![s] = q] = [CloseSlaves(d, s, T).srv EXCEPT ![s] = q]
  BY <1>1, <1>2, <1>4
<1> QED
  BY <1>3, <1>5 DEF Put, p

\* The record of a process that starts with the file f.
Started(host, n, f) == [Fresh(host, n) EXCEPT !.db = f.db, !.file = f]

\* ... and with the id and the offset of the file.
Resumed(e, f) ==
    [e EXCEPT !.id = f.id, !.off = f.off, !.cached = [id |-> f.id, off |-> f.off, sel |-> f.sel]]

LEMMA StartedParts ==
    ASSUME NEW host \in Server \cup {None}, NEW n \in Nat, NEW f \in File
    PROVE  LET q == Started(host, n, f) IN
           /\ q \in Record
           /\ q.host = host /\ q.state = (IF host = None THEN "none" ELSE "connect")
           /\ q.id = n /\ q.id2 = NoId /\ q.off = 0 /\ q.backlog = None /\ q.seldb = NoDb /\ q.db = f.db
           /\ q.cached = None /\ q.mid = NoId /\ q.child = None /\ q.file = f
           /\ \A t \in Server : q.slv[t] = NoClient
<1> DEFINE e == Fresh(host, n)
           q == [e EXCEPT !.db = f.db, !.file = f]
           c == [t \in Server |-> NoClient]
<1>1. c \in [Server -> Client] /\ f.db \in Data /\ <<>> \in Data /\ NoFile \in File
  BY ClientTypes DEF File, Data, NoFile, NoDb, NoId
<1>2. e = [host |-> host, state |-> IF host = None THEN "none" ELSE "connect",
           id |-> n, id2 |-> NoId, off2 |-> -1, off |-> 0, backlog |-> None, seldb |-> NoDb,
           db |-> <<>>, cached |-> None, mid |-> NoId, moff |-> 0, sel |-> 0,
           child |-> None, file |-> NoFile, slv |-> c]
  BY DEF Fresh
<1> HIDE DEF c, e
<1>3. e \in Record
  <2>1. NoId \in Nat /\ -1 \in Int /\ 0 \in Nat /\ 0 \in Int /\ 0 \in Db /\ NoDb \in Db \cup {NoDb}
    BY DEF NoId, Db
  <2> QED
    BY <1>1, <1>2, <2>1 DEF Record
<1>4. /\ e.host = host /\ e.state = (IF host = None THEN "none" ELSE "connect")
      /\ e.id = n /\ e.id2 = NoId /\ e.off = 0 /\ e.backlog = None /\ e.seldb = NoDb
      /\ e.cached = None /\ e.mid = NoId /\ e.child = None /\ e.slv = c
  BY <1>2
<1>5. q \in Record
  BY <1>1, <1>3 DEF Record
<1>6. /\ q.host = e.host /\ q.state = e.state
      /\ q.id = e.id /\ q.id2 = e.id2 /\ q.off = e.off /\ q.backlog = e.backlog /\ q.seldb = e.seldb /\ q.db = f.db
      /\ q.cached = e.cached /\ q.mid = e.mid /\ q.child = e.child /\ q.file = f /\ q.slv = e.slv
  BY <1>3 DEF Record
<1>7. q = Started(host, n, f)
  BY DEF Started, e
<1> HIDE DEF q
<1>8. \A t \in Server : q.slv[t] = NoClient
  BY <1>4, <1>6 DEF c
<1> QED
  BY <1>4, <1>5, <1>6, <1>7, <1>8

\* A restart of a server that forgets its id.
LEMMA RestartNewOK ==
    ASSUME NEW h, NEW b, GroupOK(h, b), NEW s \in Server, b.link[s] = NoLink
    PROVE  LET q == Started(b.srv[s].host, h.ids + 1, b.srv[s].file) IN
           \E j \in History : /\ j.ids = h.ids + 1 /\ j.writes = h.writes
                              /\ GroupOK(j, Put(b, s, q)) /\ Put(b, s, q).srv[s].id = h.ids + 1
<1> DEFINE r == b.srv[s]
           f == r.file
           n == h.ids + 1
           q == Started(r.host, n, f)
           j == Begin(h, n, 0, f.db, NoDb)
<1>1. /\ h \in History /\ HistoryOK(h) /\ h.ids \in Nat /\ r \in Record /\ RecordOK(h, r) /\ Typed(b) /\ r.host # s
  BY GroupParts DEF GroupOK
<1>2. f \in File /\ r.host \in Server \cup {None} /\ f.db \in Data /\ Right(h, f.db)
  BY <1>1 DEF Record, File, RecordOK, FilesOK, FileOK
<1>11. f.id \in 0..h.ids
  BY <1>1 DEF RecordOK, FilesOK, FileOK
<1> HIDE DEF f
<1>3. n \in Nat /\ n \in 1..(h.ids + 1) /\ n > h.ids /\ 0 \in Nat /\ NoDb \in Db \cup {NoDb}
  BY <1>1
<1> HIDE DEF n
<1>4. /\ j \in History /\ HistoryOK(j) /\ GrowsOn(Others(n), h, j) /\ SameBut(n, h, j)
      /\ j.ids = (IF n > h.ids THEN n ELSE h.ids) /\ j.writes = h.writes
      /\ j.len[n] = 0 /\ j.val[n][0] = f.db /\ j.sel[n][0] = NoDb
  BY <1>1, <1>2, <1>3, BeginOK
<1>5. /\ q \in Record
      /\ q.host = r.host /\ q.state = (IF r.host = None THEN "none" ELSE "connect")
      /\ q.id = n /\ q.id2 = NoId /\ q.off = 0 /\ q.backlog = None /\ q.seldb = NoDb /\ q.db = f.db
      /\ q.cached = None /\ q.mid = NoId /\ q.child = None /\ q.file = f
      /\ \A t \in Server : q.slv[t] = NoClient
  <2>1. r.host \in Server \cup {None} /\ n \in Nat /\ f \in File
    BY <1>2, <1>3
  <2> HIDE DEF r
  <2> QED
    BY <2>1, StartedParts
<1> HIDE DEF q, j
<1>6. j.ids = n /\ q.id \in 1..j.ids /\ NoId \in 0..j.ids
  BY <1>1, <1>3, <1>4, <1>5 DEF NoId
<1>7. RecordOK(j, q)
  <2>1. RoleOK(j, q)
    BY <1>4, <1>5, <1>6 DEF RoleOK
  <2>2. SecondOK(j, q)
    BY <1>5 DEF SecondOK
  <2>3. FilesOK(j, q)
    BY <1>4, <1>5, RenewFiles DEF n, f
  <2> QED
    BY <1>4, <1>5, <1>6, <2>1, <2>2, <2>3 DEF RecordOK
<1>8. q.host # s /\ (\A x \in Server : q.slv[x].st = "none") /\ q.state \in {"none", "connect"}
  BY <1>1, <1>5, ClientTypes
<1>9. GroupOK(j, Put(b, s, q))
  BY <1>4, <1>5, <1>7, <1>8, RenewOK DEF n, f
<1>10. Put(b, s, q).srv[s].id = n
  BY <1>1, <1>5, <1>8, PutParts
<1> QED
  BY <1>4, <1>6, <1>9, <1>10 DEF q, n, f

\* ... and of a slave that finds it in its file.
LEMMA RestartBackOK ==
    ASSUME NEW h, NEW b, GroupOK(h, b), NEW s \in Server, b.link[s] = NoLink,
           b.srv[s].host # None, b.srv[s].file.sel # NoDb, NEW n \in Nat
    PROVE  LET f == b.srv[s].file
               new == Started(b.srv[s].host, n, f)
           IN  GroupOK(h, Put(b, s, Resumed(new, f)))
<1> DEFINE r == b.srv[s]
           f == r.file
           e == Started(r.host, n, f)
           c == [id |-> f.id, off |-> f.off, sel |-> f.sel]
           q == [e EXCEPT !.id = f.id, !.off = f.off, !.cached = c]
<1>1. /\ h \in History /\ HistoryOK(h) /\ h.ids \in Nat /\ r \in Record /\ RecordOK(h, r) /\ Typed(b) /\ r.host # s
  BY GroupParts DEF GroupOK
<1>2. /\ f \in File /\ r.host \in Server \cup {None} /\ FileOK(h, f) /\ f.id \in Nat /\ f.off \in Nat /\ f.sel \in Db
      /\ f.id \in 1..h.ids /\ f.off <= h.len[f.id] /\ f.db = h.val[f.id][f.off] /\ SelAt(h, f.id, f.off, f.sel)
  <2>1. FileOK(h, f) /\ f \in File /\ r.host \in Server \cup {None}
    BY <1>1 DEF RecordOK, FilesOK, Record
  <2> HIDE DEF f
  <2>2. f.id \in Nat /\ f.off \in Nat /\ f.sel \in Db \cup {NoDb}
    BY <2>1 DEF File
  <2>3. f.sel # NoDb
    BY DEF f
  <2> QED
    BY <2>1, <2>2, <2>3 DEF FileOK
<1> HIDE DEF f
<1>3. /\ e \in Record
      /\ e.host = r.host /\ e.state = (IF r.host = None THEN "none" ELSE "connect")
      /\ e.id = n /\ e.id2 = NoId /\ e.off = 0 /\ e.backlog = None /\ e.seldb = NoDb /\ e.db = f.db
      /\ e.cached = None /\ e.mid = NoId /\ e.child = None /\ e.file = f
      /\ \A t \in Server : e.slv[t] = NoClient
  BY <1>2, StartedParts
<1>4. c \in [id : Nat, off : Nat, sel : Db] /\ c.id = f.id /\ c.off = f.off /\ c.sel = f.sel
  BY <1>2
<1> HIDE DEF e, c
<1>5. q \in Record
  <2>1. e \in Record /\ c \in [id : Nat, off : Nat, sel : Db] /\ f.id \in Nat /\ f.off \in Nat
    BY <1>2, <1>3, <1>4
  <2> QED
    BY <2>1 DEF Record
<1>6. /\ q.host = e.host /\ q.state = e.state /\ q.id = f.id /\ q.off = f.off /\ q.id2 = e.id2 /\ q.backlog = e.backlog
      /\ q.db = e.db /\ q.cached = c /\ q.mid = e.mid /\ q.child = e.child /\ q.file = e.file /\ q.slv = e.slv
  BY <1>3 DEF Record
<1> HIDE DEF q
<1>7. RecordOK(h, q)
  <2>1. RoleOK(h, q)
    <3>1. NoId \in 0..h.ids
      BY <1>1 DEF NoId
    <3> QED
      BY <1>2, <1>3, <1>4, <1>6, <3>1 DEF RoleOK
  <2>2. SecondOK(h, q) /\ FilesOK(h, q)
    BY <1>2, <1>3, <1>6 DEF SecondOK, FilesOK
  <2> QED
    BY <1>2, <1>3, <1>6, <2>1, <2>2 DEF RecordOK
<1>8. OwnOK(q) /\ ~Alone(q) /\ q.host # None /\ q.host # s /\ q.state \in {"none", "connect"}
      /\ \A x \in Server : q.slv[x].st = "none"
  BY <1>1, <1>3, <1>6, ClientTypes DEF OwnOK, Private, Alone
<1>9. ASSUME NEW x \in Server \ {s}
      PROVE  Apart(q, b.srv[x], b.link[x]) /\ Apart(b.srv[x], q, NoLink)
  <2>1. Apart(b.srv[x], r, NoLink) /\ b.srv[x].id \in 1..h.ids
    BY GroupParts DEF RecordOK
  <2>2. NoId \in Others(b.srv[x].id) /\ NoLink.q = <<>>
    BY <1>1, <2>1, ClientTypes DEF Others, NoId
  <2>3. NamedIn(Others(b.srv[x].id), r, NoLink) => NamedIn(Others(b.srv[x].id), q, NoLink)
    BY <1>3, <1>6, <2>2 DEF NamedIn, FilesIn, f
  <2> QED
    BY <1>8, <2>1, <2>3, ApartTo DEF Apart
<1>10. GrowsOn(Nat, h, h) /\ \A x \in Server : NamedIn(Nat, b.srv[x], b.link[x]) /\ EndKept(h, h, b.srv[x])
  BY <1>1, GrowsSame, GroupParts, NamedNat DEF EndKept
<1>11. Nat \in SUBSET Nat
  OBVIOUS
<1>12. GroupOK(h, Put(b, s, q))
  BY <1>1, <1>5, <1>7, <1>8, <1>9, <1>10, <1>11, ReplaceOK
<1> QED
  BY <1>12 DEF q, e, c, f, Resumed

LEMMA RestartOK ==
    ASSUME NEW h, NEW g, GroupOK(h, g), h.ids = ids, NEW s \in Server
    PROVE  LET r == g.srv[s]
               f == r.file
               new == Started(r.host, ids + 1, f)
               back == Resumed(new, f)
           IN  Reached(h.writes, [DisconnectSlaves(CloseLink(g, s), s) EXCEPT
                                     !.srv[s] = IF r.host # None /\ f.sel # NoDb THEN back ELSE new])
<1> DEFINE r == g.srv[s]
           f == r.file
           d == CloseLink(g, s)
           e == DisconnectSlaves(d, s)
           b == DisconnectSlaves(LoseMaster(g, s), s)
           new == Started(r.host, ids + 1, f)
           back == Resumed(new, f)
<1>1. /\ GroupOK(h, b) /\ b.link[s] = NoLink /\ Twin(Lost(r), b.srv[s])
  BY DetachOK
<1>2. h \in History /\ r \in Record /\ RecordOK(h, r) /\ h.ids \in Nat
  BY GroupParts
<1>3. SameData(r, Lost(r))
  BY <1>2, LostParts
<1>4. b.srv[s].host = r.host /\ b.srv[s].file = f
  BY <1>1, <1>3 DEF Twin, SameData
<1>5. Typed(d) /\ LoseMaster(g, s) = Put(d, s, Lost(r))
  BY CloseLinkParts, LoseMasterIs
<1>6. Typed(e)
  BY <1>5, CloseSlavesParts DEF DisconnectSlaves
<1>7. d.srv = [x \in Server |-> d.srv[x]] /\ e = [srv |-> e.srv, link |-> e.link]
  BY <1>5, <1>6, Shaped
<1> HIDE DEF d
<1>8. \A q : Put(b, s, q) = Put(e, s, q)
  BY <1>5, <1>7, CloseThenPut DEF DisconnectSlaves
<1> HIDE DEF e, b, f
<1>9. \A q : [e EXCEPT !.srv[s] = q] = Put(e, s, q)
  BY <1>7, PutOne
<1>10. CASE r.host # None /\ f.sel # NoDb
  <2>1. GroupOK(h, Put(b, s, back))
    BY <1>1, <1>2, <1>4, <1>10, RestartBackOK
  <2>2. Reached(h.writes, Put(b, s, back))
    BY <1>2, <2>1 DEF Reached
  <2> HIDE DEF back, new
  <2> QED
    BY <1>8, <1>9, <1>10, <2>2 DEF e, d, back, new, f
<1>11. CASE ~(r.host # None /\ f.sel # NoDb)
  <2>1. \E j \in History : /\ j.ids = h.ids + 1 /\ j.writes = h.writes
                           /\ GroupOK(j, Put(b, s, new)) /\ Put(b, s, new).srv[s].id = h.ids + 1
    BY <1>1, <1>4, RestartNewOK
  <2>2. Reached(h.writes, Put(b, s, new))
    BY <2>1 DEF Reached
  <2> HIDE DEF new
  <2> QED
    BY <1>8, <1>9, <1>11, <2>2 DEF e, d, new, f
<1> QED
  BY <1>10, <1>11

LEMMA GrowsTrans ==
    ASSUME NEW I \in SUBSET Nat, NEW J, \A i \in I : i \in J, NEW h \in History, NEW g \in History, NEW k \in History,
           GrowsOn(J, h, g), GrowsOn(I, g, k)
    PROVE  GrowsOn(I, h, k)
<1>1. h.ids \in Nat /\ g.ids \in Nat /\ k.ids \in Nat /\ h.ids <= g.ids /\ g.ids <= k.ids
  BY HistoryIds DEF GrowsOn
<1>2. \A x \in DOMAIN h.writes : x \in DOMAIN k.writes /\ k.writes[x] = h.writes[x]
  BY DEF GrowsOn
<1>3. ASSUME NEW i \in I
      PROVE  /\ h.len[i] <= k.len[i]
             /\ \A m \in Nat : m <= h.len[i] =>
                   /\ k.val[i][m] = h.val[i][m]
                   /\ k.cmd[i][m] = h.cmd[i][m]
                   /\ k.sel[i][m] = h.sel[i][m] \/ (m = h.len[i] /\ k.sel[i][m] = NoDb)
  <2>1. i \in J /\ h.len[i] \in Nat /\ g.len[i] \in Nat /\ k.len[i] \in Nat /\ h.len[i] <= g.len[i] /\ g.len[i] <= k.len[i]
    <3>1. i \in Nat /\ i \in J
      OBVIOUS
    <3>2. h.len[i] \in Nat /\ g.len[i] \in Nat /\ k.len[i] \in Nat
      BY <3>1, HistoryFields
    <3> QED
      BY <3>1, <3>2 DEF GrowsOn
  <2>2. ASSUME NEW m \in Nat, m <= h.len[i]
        PROVE  /\ k.val[i][m] = h.val[i][m]
               /\ k.cmd[i][m] = h.cmd[i][m]
               /\ k.sel[i][m] = h.sel[i][m] \/ (m = h.len[i] /\ k.sel[i][m] = NoDb)
    <3>1. m <= g.len[i] /\ (m = g.len[i] => m = h.len[i])
      BY <2>1, <2>2
    <3>2. /\ g.val[i][m] = h.val[i][m] /\ g.cmd[i][m] = h.cmd[i][m]
          /\ g.sel[i][m] = h.sel[i][m] \/ (m = h.len[i] /\ g.sel[i][m] = NoDb)
      BY <2>1, <2>2 DEF GrowsOn
    <3>3. /\ k.val[i][m] = g.val[i][m] /\ k.cmd[i][m] = g.cmd[i][m]
          /\ k.sel[i][m] = g.sel[i][m] \/ (m = g.len[i] /\ k.sel[i][m] = NoDb)
      BY <3>1 DEF GrowsOn
    <3> QED
      BY <3>1, <3>2, <3>3
  <2> QED
    BY <2>1, <2>2
<1> QED
  BY <1>1, <1>2, <1>3 DEF GrowsOn

\* The record with another entry in its data.
Wrote(r, e) == [r EXCEPT !.db = Append(r.db, e)]

\* A write to a master that nobody follows.
LEMMA WriteAloneOK ==
    ASSUME NEW h, NEW g, GroupOK(h, g), NEW s \in Server, Private(g.srv[s]), NEW d \in Db
    PROVE  \E j \in History :
              /\ j.ids = h.ids /\ j.writes = Append(h.writes, d)
              /\ GroupOK(j, Put(g, s, Wrote(g.srv[s], [w |-> Len(h.writes) + 1, db |-> d])))
<1> DEFINE r == g.srv[s]
           e == [w |-> Len(h.writes) + 1, db |-> d]
           v == Append(r.db, e)
           q == Wrote(r, e)
           h1 == Written(h, d)
           j == Begin(h1, r.id, r.off, v, r.seldb)
<1>1. /\ h \in History /\ HistoryOK(h) /\ h.ids \in Nat /\ r \in Record /\ RecordOK(h, r) /\ OwnOK(r)
      /\ LinkOK(h, r, g.link[s]) /\ Typed(g)
  BY GroupParts DEF GroupOK
<1>2. /\ RoleOK(h, r) /\ r.id \in 1..h.ids /\ r.id \in Nat /\ r.off \in Nat /\ r.db \in Data
      /\ r.seldb \in Db \cup {NoDb} /\ r.backlog = None /\ r.host = None
      /\ r.mid \in 0..h.ids /\ r.cached = None /\ r.state = "none"
  BY <1>1 DEF RecordOK, RoleOK, Record, Private
<1>3. g.link[s] = NoLink
  BY <1>1, <1>2 DEF LinkOK
<1>4. \A t \in Server : r.slv[t].st = "none"
  BY <1>2, NoBacklogNoClients
<1>5. /\ h1 \in History /\ HistoryOK(h1) /\ GrowsOn(Nat, h, h1)
      /\ h1.ids = h.ids /\ h1.writes = Append(h.writes, d) /\ h1.len = h.len /\ h1.sel = h.sel
  BY <1>1, WrittenOK
<1>6. e \in [w : Nat, db : Db] /\ e.w \in DOMAIN h1.writes /\ e.db = h1.writes[e.w] /\ v \in Data
  <2>1. h.writes \in Seq(Db) /\ h1.writes = Append(h.writes, d)
    BY <1>1, <1>5, HistoryType
  <2>2. Len(h.writes) \in Nat /\ Len(h1.writes) = Len(h.writes) + 1 /\ h1.writes[Len(h.writes) + 1] = d
        /\ DOMAIN h1.writes = 1..Len(h1.writes)
    BY <2>1
  <2>3. e \in [w : Nat, db : Db] /\ e.w = Len(h.writes) + 1 /\ e.db = d
    BY <2>2
  <2>4. v \in Data
    BY <1>2, <2>3 DEF Data
  <2> HIDE DEF e, v
  <2> QED
    BY <2>2, <2>3, <2>4
<1> HIDE DEF e, h1
<1>7. Right(h1, v)
  <2>1. Right(h, r.db)
    BY <1>1, RightData
  <2>2. Right(h1, r.db)
    BY <1>5, <2>1, RightKept
  <2> QED
    BY <1>2, <1>6, <2>2, RightAppend
<1>8. IsPrefix(r.db, v)
  BY <1>2, <1>6, PrefixSame, PrefixAppend DEF Data
<1> HIDE DEF v
<1>9. /\ j \in History /\ HistoryOK(j) /\ GrowsOn(Others(r.id), h1, j) /\ SameBut(r.id, h1, j)
      /\ j.ids = (IF r.id > h1.ids THEN r.id ELSE h1.ids) /\ j.writes = h1.writes
      /\ j.len[r.id] = r.off /\ j.val[r.id][r.off] = v /\ j.sel[r.id][r.off] = r.seldb
  <2>1. r.id \in 1..(h1.ids + 1)
    BY <1>1, <1>2, <1>5
  <2>2. r.off \in Nat /\ v \in Data /\ Right(h1, v) /\ r.seldb \in Db \cup {NoDb} /\ h1 \in History /\ HistoryOK(h1)
    BY <1>2, <1>5, <1>6, <1>7
  <2> HIDE DEF r
  <2> QED
    BY <2>1, <2>2, BeginOK
<1> HIDE DEF j
<1>10. j.ids = h.ids /\ SameBut(r.id, h, j) /\ GrowsOn(Others(r.id), h, j) /\ Others(r.id) \in SUBSET Nat
  <2>1. Others(r.id) \in SUBSET Nat /\ \A i \in Others(r.id) : i \in Nat
    BY DEF Others
  <2>2. GrowsOn(Others(r.id), h, j)
    BY <1>1, <1>5, <1>9, <2>1, GrowsTrans
  <2> QED
    BY <1>1, <1>2, <1>5, <1>9, <2>1, <2>2 DEF SameBut
<1>11. q = [r EXCEPT !.db = v]
  BY DEF v, Wrote
<1> HIDE DEF q
<1>12. q \in Record
  BY <1>1, <1>6, <1>11 DEF Record
<1>13. /\ q.id = r.id /\ q.id2 = r.id2 /\ q.off2 = r.off2 /\ q.backlog = r.backlog /\ q.off = r.off /\ q.host = r.host
       /\ q.cached = r.cached /\ q.state = r.state /\ q.seldb = r.seldb
       /\ q.mid = r.mid /\ q.file = r.file /\ q.child = r.child /\ q.slv = r.slv /\ q.db = v
  BY <1>1, <1>11 DEF Record
<1>14. r.id2 # r.id /\ FilesIn(Others(r.id), r) /\ r.id2 \in Nat
  BY <1>1 DEF OwnOK, Record
<1>15. RecordOK(j, q)
  <2>1. RoleOK(j, q)
    BY <1>2, <1>9, <1>10, <1>13 DEF RoleOK
  <2>2. FilesOK(j, q)
    <3>1. FilesOK(h, r)
      BY <1>1 DEF RecordOK
    <3>2. FilesOK(j, r)
      BY <1>1, <1>9, <1>10, <1>14, <3>1, FilesKept
    <3> QED
      BY <1>13, <3>2 DEF FilesOK
  <2>3. SecondOK(j, q)
    <3>1. SUFFICES ASSUME r.id2 # NoId
                   PROVE  /\ r.id2 \in 1..j.ids /\ r.off2 \in 1..(r.off + 1) /\ r.off2 - 1 <= j.len[r.id2]
                          /\ IsPrefix(j.val[r.id2][r.off2 - 1], v)
      BY <1>2, <1>13 DEF SecondOK
    <3>2. /\ r.id2 \in 1..h.ids /\ r.off2 \in 1..(r.off + 1) /\ r.off2 - 1 <= h.len[r.id2]
          /\ IsPrefix(h.val[r.id2][r.off2 - 1], r.db)
      BY <1>1, <3>1 DEF RecordOK, SecondOK
    <3>3. r.id2 \in Others(r.id) /\ r.off2 - 1 \in Nat
      BY <1>2, <1>14, <3>2 DEF Others
    <3>4. h.len[r.id2] = j.len[r.id2] /\ j.val[r.id2][r.off2 - 1] = h.val[r.id2][r.off2 - 1]
      BY <1>10, <3>2, <3>3 DEF GrowsOn, SameBut
    <3>5. h.val[r.id2][r.off2 - 1] \in Data
      BY <1>1, <1>14, <3>3, HistoryType
    <3> HIDE DEF r
    <3>6. IsPrefix(j.val[r.id2][r.off2 - 1], v)
      <4>1. /\ h.val[r.id2][r.off2 - 1] \in Seq([w : Nat, db : Db])
            /\ r.db \in Seq([w : Nat, db : Db]) /\ v \in Seq([w : Nat, db : Db])
        BY <1>2, <1>6, <3>5 DEF Data
      <4>2. IsPrefix(h.val[r.id2][r.off2 - 1], v)
        BY <1>8, <3>2, <4>1, PrefixTrans
      <4> QED
        BY <3>4, <4>2
    <3>7. r.id2 \in 1..j.ids /\ r.off2 - 1 <= j.len[r.id2]
      BY <1>10, <3>2, <3>4
    <3> QED
      BY <3>2, <3>6, <3>7
  <2> QED
    BY <1>2, <1>9, <1>10, <1>13, <2>1, <2>2, <2>3 DEF RecordOK
<1>16. OwnOK(q) /\ Alone(r)
  BY <1>2, <1>13, <1>14 DEF OwnOK, FilesIn, Alone
<1>17. ASSUME NEW x \in Server \ {s}
       PROVE  /\ Apart(q, g.srv[x], g.link[x]) /\ Apart(g.srv[x], q, NoLink)
              /\ NamedIn(Others(r.id), g.srv[x], g.link[x]) /\ EndKept(h, j, g.srv[x])
  <2>1. Apart(r, g.srv[x], g.link[x]) /\ Apart(g.srv[x], r, NoLink)
    BY <1>3, GroupParts
  <2>2. Apart(q, g.srv[x], g.link[x])
    BY <1>13, <1>16, <2>1, ApartFrom
  <2>3. NamedIn(Others(g.srv[x].id), r, NoLink) => NamedIn(Others(g.srv[x].id), q, NoLink)
    BY <1>13 DEF NamedIn, FilesIn
  <2>4. g.srv[x].host = None /\ q.host = None => g.srv[x].id # q.id
    BY <1>13, <2>1 DEF Apart
  <2>5. Apart(g.srv[x], q, NoLink)
    BY <2>1, <2>3, <2>4, ApartTo
  <2>6. NamedIn(Others(r.id), g.srv[x], g.link[x])
    BY <1>16, <2>1 DEF Apart
  <2>7. EndKept(h, j, g.srv[x])
    BY <1>2, <1>10, EndsApart
  <2> QED
    BY <2>2, <2>5, <2>6, <2>7
<1>18. q.host # s /\ q.state \in {"none", "connect"} /\ \A x \in Server : q.slv[x].st = "none"
  BY <1>2, <1>4, <1>13, ReplicationConstants
<1>19. GroupOK(j, Put(g, s, q))
  BY <1>3, <1>9, <1>10, <1>12, <1>15, <1>16, <1>17, <1>18, ReplaceOK
<1> QED
  BY <1>5, <1>9, <1>10, <1>19 DEF q, e

-----------------------------------------------------------------------------
(* Changes that leave the connections alone                                *)

\* The server r, seen over a connection, looks like q.
Alike(r, q) ==
    /\ q.host = r.host /\ q.state = r.state /\ q.id = r.id /\ q.id2 = r.id2 /\ q.off = r.off
    /\ q.cached = r.cached /\ q.mid = r.mid /\ q.moff = r.moff /\ q.slv = r.slv
    /\ (q.backlog = None <=> r.backlog = None)

LEMMA AlikeLink ==
    ASSUME NEW h, NEW r, NEW q, NEW l, Alike(r, q), LinkOK(h, r, l)
    PROVE  LinkOK(h, q, l)
<1>1. Alone(q) <=> Alone(r)
  BY DEF Alike, Alone
<1>2. \A m : ReplyOK(h, r, m) => ReplyOK(h, q, m)
  BY <1>1 DEF Alike, ReplyOK
<1> QED
  BY <1>2 DEF Alike, LinkOK

LEMMA SlaveSeen ==
    ASSUME NEW h, NEW s, NEW r, NEW c, NEW rt, NEW qt, NEW l, ClientOK(h, s, r, c, rt, l),
           qt.state = rt.state, qt.id = rt.id, qt.off = rt.off, qt.mid = rt.mid, qt.moff = rt.moff
    PROVE  ClientOK(h, s, r, c, qt, l)
<1>1. \A i, k : Awaits(rt, l.q, i, k) => Awaits(qt, l.q, i, k)
  BY DEF Awaits
<1>2. \A i, k : Given(rt, l.q, i, k) => Given(qt, l.q, i, k)
  BY DEF Given
<1>3. \A i, k : Leads(rt, l.q, i, k) => Leads(qt, l.q, i, k)
  BY DEF Leads
<1> QED
  BY <1>1, <1>2, <1>3 DEF ClientOK

LEMMA ReviseIn ==
    ASSUME NEW h, NEW j \in History, NEW g, NEW a \in Server, NEW q \in Record,
           GroupOK(h, g), HistoryOK(j), GrowsOn(Nat, h, j), Alike(g.srv[a], q), RecordOK(j, q), OwnOK(q),
           q.child = g.srv[a].child \/ \A t \in Server : g.srv[a].slv[t].st # "end",
           \A i \in 1..h.ids : FilesIn(Others(i), g.srv[a]) /\ g.srv[a].id \in Others(i) => FilesIn(Others(i), q),
           \A x \in Server \ {a} : EndKept(h, j, g.srv[x])
    PROVE  GroupOK(j, Put(g, a, q))
<1> DEFINE k == Put(g, a, q)
           r == g.srv[a]
           l == g.link[a]
<1>1. /\ h \in History /\ r \in Record /\ l \in Link /\ RecordOK(h, r) /\ LinkOK(h, r, l) /\ Typed(g) /\ r.host # a
  BY GroupParts DEF GroupOK
<1>2. q.host # a
  BY <1>1 DEF Alike
<1>3. /\ Typed(k) /\ k.srv[a] = q /\ k.link = g.link
      /\ \A x \in Server \ {a} : k.srv[x] = g.srv[x]
  BY <1>1, <1>2, PutParts
<1> HIDE DEF k
<1>4. \A x \in Server : NamedIn(Nat, g.srv[x], g.link[x])
  BY GroupParts, NamedNat
<1>5. Nat \in SUBSET Nat
  OBVIOUS
<1>6. LinkOK(j, q, l)
  <2>1. LinkOK(j, r, l)
    BY <1>1, <1>4, <1>5, LinkKept
  <2> QED
    BY <2>1, AlikeLink
<1>7. ASSUME NEW x \in Server \ {a}
      PROVE  /\ Apart(q, g.srv[x], g.link[x]) /\ Apart(g.srv[x], q, l)
             /\ ClientOK(j, a, q, q.slv[x], g.srv[x], g.link[x])
             /\ ClientOK(j, x, g.srv[x], g.srv[x].slv[a], q, l)
  <2>1. /\ Apart(r, g.srv[x], g.link[x]) /\ Apart(g.srv[x], r, l) /\ g.srv[x].id \in 1..h.ids
        /\ ClientOK(h, a, r, r.slv[x], g.srv[x], g.link[x]) /\ r.slv[x] \in Client
        /\ ClientOK(h, x, g.srv[x], g.srv[x].slv[a], r, l) /\ g.srv[x].slv[a] \in Client /\ g.srv[x] \in Record
    BY GroupParts DEF RecordOK
  <2>2. Apart(q, g.srv[x], g.link[x])
    BY <2>1, ApartFrom DEF Alike, Alone
  <2>3. Apart(g.srv[x], q, l)
    <3>1. NamedIn(Others(g.srv[x].id), r, l) => NamedIn(Others(g.srv[x].id), q, l)
      BY <2>1 DEF NamedIn, Alike
    <3>2. g.srv[x].host = None /\ q.host = None => g.srv[x].id # q.id
      BY <2>1 DEF Apart, Alike
    <3> QED
      BY <2>1, <3>1, <3>2, ApartTo
  <2>4. r.id \in Nat /\ FilesIn(Nat, r) /\ g.srv[x].id \in Nat /\ FilesIn(Nat, g.srv[x])
    BY <1>4 DEF NamedIn
  <2>5. ClientOK(j, a, r, r.slv[x], g.srv[x], g.link[x])
    BY <1>1, <1>5, <2>1, <2>4, ClientKept
  <2>6. ClientOK(j, a, q, r.slv[x], g.srv[x], g.link[x])
    BY <2>5 DEF ClientOK, Alike
  <2>7. ClientOK(j, x, g.srv[x], g.srv[x].slv[a], r, l)
    BY <1>1, <1>5, <2>1, <2>4, ClientKept
  <2>8. ClientOK(j, x, g.srv[x], g.srv[x].slv[a], q, l)
    BY <2>7, SlaveSeen DEF Alike
  <2>9. q.slv = r.slv
    BY DEF Alike
  <2> QED
    BY <2>2, <2>3, <2>6, <2>8, <2>9
<1>8. q.slv[a].st = "none"
  BY NoSelf DEF Alike
<1>9. ActorOK(j, k, a)
  BY <1>3, <1>6, <1>7, <1>8 DEF ActorOK
<1>10. Beside(g, k, a)
  BY <1>3 DEF Beside, Twin
<1>11. GroupOK(j, k)
  BY <1>3, <1>4, <1>5, <1>9, <1>10, AlterIn
<1> QED
  BY <1>11 DEF k

LEMMA Revise ==
    ASSUME NEW h, NEW g, NEW a \in Server, NEW q \in Record,
           GroupOK(h, g), Alike(g.srv[a], q), RecordOK(h, q), OwnOK(q),
           q.child = g.srv[a].child \/ \A t \in Server : g.srv[a].slv[t].st # "end",
           \A i \in 1..h.ids : FilesIn(Others(i), g.srv[a]) /\ g.srv[a].id \in Others(i) => FilesIn(Others(i), q)
    PROVE  GroupOK(h, Put(g, a, q))
<1>1. h \in History /\ HistoryOK(h)
  BY GroupParts
<1>2. GrowsOn(Nat, h, h) /\ \A x \in Server \ {a} : EndKept(h, h, g.srv[x])
  BY <1>1, GrowsSame DEF EndKept
<1> QED
  BY <1>1, <1>2, ReviseIn

LEMMA CreateBacklogIs ==
    ASSUME NEW g, Typed(g), NEW s \in Server
    PROVE  CreateBacklog(g, s) = Put(g, s, [g.srv[s] EXCEPT !.backlog = <<>>])
<1>1. g.srv = [x \in Server |-> g.srv[x]] /\ g = [srv |-> g.srv, link |-> g.link]
  BY Shaped
<1>2. CreateBacklog(g, s) = [g EXCEPT !.srv = [g.srv EXCEPT ![s] = [g.srv[s] EXCEPT !.backlog = <<>>]]]
  BY <1>1 DEF CreateBacklog
<1> QED
  BY <1>1, <1>2, PutIs

LEMMA ResizeOK ==
    ASSUME NEW h, NEW g, GroupOK(h, g), NEW s \in Server, g.srv[s].backlog # None
    PROVE  GroupOK(h, CreateBacklog(g, s))
<1> DEFINE r == g.srv[s]
           q == [r EXCEPT !.backlog = <<>>]
<1>1. h \in History /\ r \in Record /\ RecordOK(h, r) /\ OwnOK(r) /\ Typed(g)
  BY GroupParts DEF GroupOK
<1>e. <<>> \in Seq(Command)
  OBVIOUS
<1>2. <<>> \in Seq(Command) /\ <<>> # None
  BY <1>e, ReplicationConstants
<1>3. q \in Record
  BY <1>1, <1>2 DEF Record
<1>4. Alike(r, q) /\ q.off2 = r.off2 /\ q.seldb = r.seldb /\ q.db = r.db /\ q.sel = r.sel /\ q.child = r.child
      /\ q.file = r.file /\ q.backlog = <<>>
  BY <1>1, <1>2 DEF Record, Alike
<1> HIDE DEF q
<1>5. r.off \in Nat /\ r.off <= h.len[r.id] /\ RoleOK(h, r) /\ SecondOK(h, r) /\ FilesOK(h, r)
  BY <1>1 DEF RecordOK, Record
<1>6. RecordOK(h, q)
  <2>1. Stream(h, q.id, q.off - Len(q.backlog), q.backlog)
    BY <1>4, <1>5, StreamNone DEF Alike
  <2>2. RoleOK(h, q)
    BY <1>4, <1>5 DEF RoleOK, Alike
  <2>3. SecondOK(h, q)
    BY <1>4, <1>5 DEF SecondOK, Alike
  <2>4. FilesOK(h, q)
    BY <1>4, <1>5 DEF FilesOK
  <2> QED
    BY <1>1, <1>4, <2>1, <2>2, <2>3, <2>4 DEF RecordOK, Alike
<1>7. OwnOK(q)
  BY <1>4, <1>2 DEF OwnOK, Private
<1>8. GroupOK(h, Put(g, s, q))
  <2>1. \A I : FilesIn(I, r) => FilesIn(I, q)
    BY <1>4 DEF FilesIn
  <2> QED
    BY <1>3, <1>4, <1>6, <1>7, <2>1, Revise
<1> QED
  BY <1>1, <1>8, CreateBacklogIs DEF q

-----------------------------------------------------------------------------
(* A server and the sockets of its slaves                                  *)

\* Only server s changes, and what is in the sockets of its slaves.
Serves(h, j, g, k, s) ==
    /\ \A x \in Server \ {s} : /\ k.srv[x] = g.srv[x] /\ EndKept(h, j, g.srv[x])
                               /\ ClientOK(j, x, g.srv[x], g.srv[x].slv[s], k.srv[s], k.link[s])
                               /\ k.link[x] = g.link[x] \/ g.srv[s].slv[x].st # "none"
                               /\ LinkOK(j, g.srv[x], k.link[x])
                               /\ ClientOK(j, s, k.srv[s], k.srv[s].slv[x], g.srv[x], k.link[x])
                               /\ \A i \in 1..h.ids : i # g.srv[s].id /\ QueueIn(Others(i), g.link[x].q)
                                                         => QueueIn(Others(i), k.link[x].q)
    /\ k.srv[s].host = g.srv[s].host /\ k.srv[s].id = g.srv[s].id /\ (Alone(k.srv[s]) => Alone(g.srv[s]))
    /\ \A i \in 1..h.ids : NamedIn(Others(i), g.srv[s], g.link[s]) => NamedIn(Others(i), k.srv[s], k.link[s])
    /\ k.srv[s].slv[s].st = "none"

LEMMA TwinSame ==
    ASSUME NEW r
    PROVE  Twin(r, r)
  BY DEF Twin

LEMMA Serve ==
    ASSUME NEW h, NEW j \in History, NEW g, NEW k, NEW s \in Server,
           GroupOK(h, g), Typed(k), HistoryOK(j), GrowsOn(Nat, h, j), Serves(h, j, g, k, s),
           RecordOK(j, k.srv[s]), OwnOK(k.srv[s]), LinkOK(j, k.srv[s], k.link[s])
    PROVE  GroupOK(j, k)
<1>a. \A x \in Server : g.srv[x] \in Record /\ g.link[x] \in Link /\ RecordOK(h, g.srv[x])
  BY GroupParts, Zenon
<1>1. \A x \in Server : /\ g.srv[x] \in Record /\ g.link[x] \in Link /\ RecordOK(h, g.srv[x])
                        /\ g.srv[x].id \in 1..h.ids
  BY <1>a DEF RecordOK
<1>2. \A x, y \in Server : /\ ClientOK(h, x, g.srv[x], g.srv[x].slv[y], g.srv[y], g.link[y])
                           /\ x # y => Apart(g.srv[x], g.srv[y], g.link[y])
  BY GroupParts
<1>3. Around(Nat, h, j, g, k, s)
  <2>1. \A x \in Server \ {s} : Twin(g.srv[x], k.srv[x]) /\ NamedIn(Nat, g.srv[x], g.link[x])
    BY <1>1, TwinSame, NamedNat DEF Serves
  <2> QED
    BY <2>1 DEF Around, Serves
<1>4. ASSUME NEW x \in Server \ {s}
      PROVE  /\ Apart(k.srv[s], k.srv[x], k.link[x])
             /\ Apart(k.srv[x], k.srv[s], k.link[s])
  <2>1. Apart(g.srv[s], g.srv[x], g.link[x]) /\ Apart(g.srv[x], g.srv[s], g.link[s]) /\ k.srv[x] = g.srv[x]
    BY <1>2, <1>4 DEF Serves
  <2>4. Apart(g.srv[x], k.srv[s], k.link[s])
    <3>1. g.srv[x].host = None /\ k.srv[s].host = None => g.srv[x].id # k.srv[s].id
      BY <2>1 DEF Apart, Serves
    <3>2. NamedIn(Others(g.srv[x].id), g.srv[s], g.link[s]) => NamedIn(Others(g.srv[x].id), k.srv[s], k.link[s])
      BY <1>1, <1>4 DEF Serves
    <3> QED
      BY <2>1, <3>1, <3>2, ApartTo
  <2>2. CASE k.link[x] = g.link[x]
    <3>1. Apart(k.srv[s], k.srv[x], k.link[x])
      BY <2>1, <2>2, ApartFrom DEF Serves
    <3> QED
      BY <3>1, <2>1, <2>4
  <2>3. CASE g.srv[s].slv[x].st # "none"
    <3>1. g.srv[s].backlog # None
      BY <1>2, <1>4, <2>3 DEF ClientOK
    <3>2. ~Alone(k.srv[s])
      BY <3>1 DEF Serves, Alone
    <3>3. Apart(k.srv[s], k.srv[x], k.link[x])
      BY <2>1, <3>2 DEF Apart, Serves
    <3> QED
      BY <3>3, <2>1, <2>4
  <2> QED
    BY <1>4, <2>2, <2>3 DEF Serves
<1>5. ActorOK(j, k, s)
  BY <1>4 DEF ActorOK, Serves
<1>6. SocketsOK(j, g, k, s)
  <2>1. ASSUME NEW t \in Server \ {s}, NEW x \in Server \ {s}
        PROVE  /\ k.srv[x].slv[t] = g.srv[x].slv[t] /\ (k.link[t] = g.link[t] \/ g.srv[x].slv[t].st = "none")
               /\ x # t /\ Alone(g.srv[x]) => QueueIn(Others(g.srv[x].id), k.link[t].q)
    <3>1. k.srv[x] = g.srv[x]
      BY <2>1 DEF Serves
    <3>2. k.link[t] = g.link[t] \/ g.srv[x].slv[t].st = "none"
      <4>1. k.link[t] = g.link[t] \/ g.srv[s].slv[t].st # "none"
        BY <2>1 DEF Serves
      <4>2. \A y \in Server : ClientOK(h, y, g.srv[y], g.srv[y].slv[t], g.srv[t], g.link[t])
        BY <2>1, <1>2
      <4>3. \A y \in Server : g.srv[y].slv[t].st # "none" => g.link[t].to = y
        BY <4>2 DEF ClientOK
      <4> QED
        BY <2>1, <4>1, <4>3
    <3>3. ASSUME x # t, Alone(g.srv[x])
          PROVE  QueueIn(Others(g.srv[x].id), k.link[t].q)
      <4>1. NamedIn(Others(g.srv[x].id), g.srv[t], g.link[t]) /\ NamedIn(Others(g.srv[x].id), g.srv[s], g.link[s])
        BY <1>2, <2>1, <3>3 DEF Apart
      <4>2. g.srv[x].id # g.srv[s].id /\ QueueIn(Others(g.srv[x].id), g.link[t].q)
        BY <4>1 DEF NamedIn, Others
      <4> QED
        BY <1>1, <2>1, <4>2 DEF Serves
    <3> QED
      BY <3>1, <3>2, <3>3
  <2>2. \A t \in Server \ {s} : LinkOK(j, k.srv[t], k.link[t])
    BY DEF Serves
  <2> QED
    BY <2>1, <2>2 DEF SocketsOK
<1> QED
  BY <1>3, <1>5, <1>6, Regroup

LEMMA ConcatParts ==
    ASSUME NEW S, NEW q \in Seq(S), NEW m \in Seq(S), q # <<>>
    PROVE  /\ q \o m \in Seq(S) /\ q \o m # <<>> /\ (q \o m)[1] = q[1] /\ Tail(q \o m) = Tail(q) \o m
           /\ Len(q \o m) = Len(q) + Len(m) /\ Tail(q) \in Seq(S) /\ Len(Tail(q)) = Len(q) - 1 /\ Len(q) \in Nat
           /\ Len(q) >= 1 /\ Len(m) \in Nat
<1>1. /\ Len(q) \in Nat /\ Len(q) >= 1 /\ Tail(q) \in Seq(S) /\ Len(Tail(q)) = Len(q) - 1
      /\ \A x \in 1..Len(Tail(q)) : Tail(q)[x] = q[x + 1]
  BY TailOf
<1>2. q \o m \in Seq(S) /\ Len(q \o m) = Len(q) + Len(m) /\ Len(m) \in Nat
  OBVIOUS
<1>3. q \o m # <<>> /\ (q \o m)[1] = q[1]
  BY <1>1, <1>2
<1>4. /\ Tail(q \o m) \in Seq(S) /\ Len(Tail(q \o m)) = Len(q) + Len(m) - 1
      /\ \A x \in 1..Len(Tail(q \o m)) : Tail(q \o m)[x] = (q \o m)[x + 1]
  BY <1>2, <1>3, TailOf
<1>5. Tail(q) \o m \in Seq(S) /\ Len(Tail(q) \o m) = Len(q) - 1 + Len(m)
  BY <1>1
<1>6. ASSUME NEW x \in 1..(Len(q) + Len(m) - 1)
      PROVE  Tail(q \o m)[x] = (Tail(q) \o m)[x]
  <2>1. Tail(q \o m)[x] = (q \o m)[x + 1]
    BY <1>1, <1>2, <1>4, <1>6
  <2>2. CASE x <= Len(q) - 1
    <3>1. (q \o m)[x + 1] = q[x + 1] /\ (Tail(q) \o m)[x] = Tail(q)[x] /\ Tail(q)[x] = q[x + 1]
      BY <1>1, <1>2, <1>6, <2>2
    <3> QED
      BY <2>1, <3>1
  <2>3. CASE x > Len(q) - 1
    <3>1. (q \o m)[x + 1] = m[x + 1 - Len(q)] /\ (Tail(q) \o m)[x] = m[x - (Len(q) - 1)]
      BY <1>1, <1>2, <1>6, <2>3
    <3> QED
      BY <1>1, <2>1, <3>1
  <2> QED
    BY <1>1, <1>2, <1>6, <2>2, <2>3
<1>7. Tail(q \o m) = Tail(q) \o m
  BY <1>1, <1>2, <1>4, <1>5, <1>6
<1> QED
  BY <1>1, <1>2, <1>3, <1>7

LEMMA ConcatEmpty ==
    ASSUME NEW S, NEW m \in Seq(S)
    PROVE  <<>> \o m = m /\ m \o <<>> = m
  OBVIOUS

LEMMA QueueConcat ==
    ASSUME NEW I, NEW q \in Seq(Message), NEW m \in Seq(Message), QueueIn(I, q), QueueIn(I, m)
    PROVE  QueueIn(I, q \o m)
<1>1. Len(q) \in Nat /\ Len(m) \in Nat /\ Len(q \o m) = Len(q) + Len(m)
  OBVIOUS
<1> SUFFICES ASSUME NEW x \in 1..Len(q \o m)
             PROVE  Names((q \o m)[x]) \in I
  BY DEF QueueIn
<1>2. CASE x <= Len(q)
  <2>1. (q \o m)[x] = q[x] /\ x \in 1..Len(q)
    BY <1>1, <1>2
  <2> QED
    BY <2>1 DEF QueueIn
<1>3. CASE x > Len(q)
  <2>1. (q \o m)[x] = m[x - Len(q)] /\ x - Len(q) \in 1..Len(m)
    BY <1>1, <1>3
  <2> QED
    BY <2>1 DEF QueueIn
<1> QED
  BY <1>1, <1>2, <1>3

LEMMA CommandsIn ==
    ASSUME NEW m \in Seq(Command), NEW I, NoId \in I
    PROVE  m \in Seq(Message) /\ QueueIn(I, m)
<1>1. \A x \in 1..Len(m) : m[x] \in Command
  OBVIOUS
<1>2. \A x \in 1..Len(m) : m[x] \in Message /\ Names(m[x]) = NoId
  BY <1>1, CommandNames
<1>3. m \in Seq(Message)
  BY DEF Message
<1> QED
  BY <1>2, <1>3 DEF QueueIn

LEMMA PayloadJoin ==
    ASSUME NEW h \in History, NEW i \in Nat, NEW k \in Int, NEW q \in Seq(Message), NEW m \in Seq(Message), q # <<>>,
           PayloadOK(h, i, k, q), Stream(h, i, k + Len(q) - 1, m)
    PROVE  PayloadOK(h, i, k, q \o m)
<1>1. q[1].type = "rdb" /\ FileAt(h, q[1].file, i, k) /\ Stream(h, i, k, Tail(q))
  BY DEF PayloadOK
<1>2. /\ (q \o m)[1] = q[1] /\ Tail(q \o m) = Tail(q) \o m /\ Tail(q) \in Seq(Message) /\ Len(Tail(q)) = Len(q) - 1
      /\ Len(q) \in Nat
  BY ConcatParts
<1>3. k + Len(q) - 1 = k + Len(Tail(q))
  BY <1>2
<1>4. Stream(h, i, k + Len(Tail(q)), m)
  BY <1>3
<1>5. Stream(h, i, k, Tail(q) \o m)
  BY <1>1, <1>2, <1>4, StreamJoin
<1> QED
  BY <1>1, <1>2, <1>5 DEF PayloadOK

\* A connection with m in its socket after what it holds.
Longer(l, m) == [l EXCEPT !.q = @ \o m]

LEMMA LongerParts ==
    ASSUME NEW l \in Link, NEW m \in Seq(Message)
    PROVE  /\ Longer(l, m) \in Link /\ Longer(l, m).q = l.q \o m
           /\ Longer(l, m).to = l.to /\ Longer(l, m).open = l.open
<1>1. l.q \o m \in Seq(Message)
  BY DEF Link
<1>2. Longer(l, m) = [l EXCEPT !.q = l.q \o m]
  BY DEF Longer
<1> QED
  BY <1>1, <1>2 DEF Link

LEMMA Shifted ==
    ASSUME NEW a \in Int, NEW b \in Nat, NEW c \in Nat, NEW d \in Nat, NEW e \in Int, e = b + c
    PROVE  /\ a + b - 1 = d => a + e - 1 = d + c
           /\ a + b - 2 = d => a + e - 2 = d + c
           /\ b >= 2 => e >= 2
  OBVIOUS

LEMMA LongTail ==
    ASSUME NEW S, NEW q \in Seq(S), Len(q) >= 2
    PROVE  Tail(q) # <<>>
<1>1. q # <<>>
  OBVIOUS
<1>2. Len(q) \in Nat /\ Len(Tail(q)) = Len(q) - 1
  BY <1>1, TailOf
<1>3. Len(q) - 1 # 0
  <2>1. \A n \in Nat : n >= 2 => n - 1 # 0
    OBVIOUS
  <2> QED
    BY <1>2, <2>1, Zenon
<1>4. Len(<<>>) = 0
  OBVIOUS
<1> QED
  BY <1>2, <1>3, <1>4, Zenon

\* What follows in the socket of a slave that has read so far.
LEMMA LinkGrows ==
    ASSUME NEW h \in History, NEW r \in Record, NEW l \in Link, NEW i \in Nat, NEW k \in Nat, NEW m \in Seq(Message),
           LinkOK(h, r, l), Leads(r, l.q, i, k), Stream(h, i, k, m)
    PROVE  /\ LinkOK(h, r, Longer(l, m)) /\ Leads(r, l.q \o m, i, k + Len(m))
<1> DEFINE q == l.q
           n == Longer(l, m)
<1>1. q \in Seq(Message) /\ n.q = q \o m /\ Len(q) \in Nat /\ Len(m) \in Nat /\ r.off \in Nat /\ r.moff \in Int
      /\ r.mid \in Nat /\ r.id \in Nat
  <2>1. n.q = q \o m
    BY LongerParts
  <2>2. q \in Seq(Message) /\ Len(m) \in Nat
    BY DEF Link
  <2>3. Len(q) \in Nat
    BY <2>2
  <2> QED
    BY <2>1, <2>2, <2>3 DEF Record
<1> HIDE DEF q, n
<1>a. Len(q) \in Nat /\ Len(m) \in Nat /\ r.off \in Nat /\ r.moff \in Int
  BY <1>1
<1>2. CASE r.state = "psync" /\ Len(q) >= 2 /\ q[1].type = "fullresync" /\ q[1].id = i /\ q[1].off + Len(q) - 2 = k
  <2>1. q # <<>>
    BY <1>2
  <2>2. /\ (q \o m)[1] = q[1] /\ Tail(q \o m) = Tail(q) \o m /\ Tail(q) \in Seq(Message) /\ Len(Tail(q)) = Len(q) - 1
        /\ Len(q \o m) = Len(q) + Len(m) /\ q \o m # <<>>
    <3>1. q \in Seq(Message) /\ m \in Seq(Message)
      BY <1>1
    <3> QED
      BY <2>1, <3>1, ConcatParts
  <2>a. q[1] \in Message
    BY <1>1, <2>1, TailOf
  <2>3. q[1].id \in 1..h.ids /\ PayloadOK(h, q[1].id, q[1].off, Tail(q))
    BY <1>2, <2>1 DEF LinkOK, ReplyOK, q
  <2>4. q[1].off \in Nat
    BY <1>2, <2>a DEF Message, Command
  <2>d. Len(Tail(q)) = Len(q) - 1 /\ Len(q) >= 2 /\ Len(q \o m) = Len(q) + Len(m) /\ q[1].off + Len(q) - 2 = k
    BY <1>2, <2>2
  <2>e. q[1].off + Len(q \o m) - 2 = k + Len(m) /\ Len(q \o m) >= 2
    <3>1. Len(q \o m) \in Int
      BY <1>a, <2>d
    <3> QED
      BY <1>a, <2>d, <2>4, <3>1, Shifted
  <2>b. Tail(q) # <<>>
    BY <1>1, <2>d, LongTail
  <2>5. k = q[1].off + Len(Tail(q)) - 1
    BY <1>1, <1>2, <2>2, <2>4
  <2>c. Stream(h, q[1].id, q[1].off + Len(Tail(q)) - 1, m) /\ q[1].id \in Nat
    BY <1>2, <2>5
  <2>6. PayloadOK(h, q[1].id, q[1].off, Tail(q) \o m)
    <3>1. q[1].off \in Int /\ Tail(q) \in Seq(Message)
      BY <2>2, <2>4
    <3> QED
      BY <2>3, <2>b, <2>c, <3>1, PayloadJoin
  <2>7. ReplyOK(h, r, q \o m)
    BY <1>2, <2>2, <2>3, <2>6 DEF ReplyOK
  <2>8. LinkOK(h, r, n)
    BY <1>1, <1>2, <2>7 DEF LinkOK
  <2>9. Leads(r, q \o m, i, k + Len(m))
    BY <1>2, <2>2, <2>e DEF Leads
  <2> QED
    BY <2>8, <2>9 DEF q, n
<1>3. CASE r.state = "psync" /\ q # <<>> /\ q[1].type = "continue" /\ q[1].id = i /\ r.off + Len(q) - 1 = k
  <2>2. /\ (q \o m)[1] = q[1] /\ Tail(q \o m) = Tail(q) \o m /\ Tail(q) \in Seq(Message) /\ Len(Tail(q)) = Len(q) - 1
        /\ Len(q \o m) = Len(q) + Len(m) /\ q \o m # <<>> /\ q[1] \in Message
    <3>1. q # <<>> /\ q \in Seq(Message) /\ m \in Seq(Message)
      BY <1>1, <1>3
    <3>2. q[1] \in Message
      BY <3>1, TailOf
    <3> QED
      BY <3>1, <3>2, ConcatParts
  <2>3. /\ q[1].id \in 1..h.ids /\ r.cached # None /\ ~Alone(r) /\ (q[1].id = r.id \/ Agree(h, r.id, q[1].id, r.off))
        /\ Stream(h, q[1].id, r.off, Tail(q))
    BY <1>3 DEF LinkOK, ReplyOK, q
  <2>4. k = r.off + Len(Tail(q))
    BY <1>1, <1>3, <2>2
  <2>5. Stream(h, q[1].id, r.off, Tail(q) \o m)
    BY <1>3, <2>2, <2>3, <2>4, StreamJoin
  <2>6. ReplyOK(h, r, q \o m)
    BY <1>3, <2>2, <2>3, <2>5 DEF ReplyOK
  <2>7. LinkOK(h, r, n)
    BY <1>1, <1>3, <2>6 DEF LinkOK
  <2>b. r.off + Len(q) - 1 = k /\ Len(q \o m) = Len(q) + Len(m)
    BY <1>3, <2>2
  <2>a. r.off + Len(q \o m) - 1 = k + Len(m)
    <3>1. Len(q \o m) \in Int
      BY <1>a, <2>b
    <3> QED
      BY <1>a, <2>b, <3>1, Shifted
  <2>8. Leads(r, q \o m, i, k + Len(m))
    BY <1>3, <2>2, <2>a DEF Leads
  <2> QED
    BY <2>7, <2>8 DEF q, n
<1>4. CASE r.state = "transfer" /\ q # <<>> /\ r.mid = i /\ r.moff + Len(q) - 1 = k
  <2>2. Len(q \o m) = Len(q) + Len(m) /\ q \o m # <<>>
    BY <1>1, <1>4, ConcatParts
  <2>3. PayloadOK(h, r.mid, r.moff, q)
    BY <1>4 DEF LinkOK, q
  <2>4. PayloadOK(h, r.mid, r.moff, q \o m)
    BY <1>1, <1>4, <2>3, PayloadJoin
  <2>5. LinkOK(h, r, n)
    BY <1>1, <1>4, <2>4 DEF LinkOK
  <2>b. r.moff + Len(q) - 1 = k /\ Len(q \o m) = Len(q) + Len(m)
    BY <1>4, <2>2
  <2>a. r.moff + Len(q \o m) - 1 = k + Len(m)
    <3>1. Len(q \o m) \in Int
      BY <1>a, <2>b
    <3> QED
      BY <1>a, <2>b, <3>1, Shifted
  <2>6. Leads(r, q \o m, i, k + Len(m))
    BY <1>4, <2>2, <2>a DEF Leads
  <2> QED
    BY <2>5, <2>6 DEF q, n
<1>5. CASE r.state = "connected" /\ r.id = i /\ r.off + Len(q) = k
  <2>1. Stream(h, r.id, r.off, q)
    BY <1>5 DEF LinkOK, q
  <2>2. Stream(h, r.id, r.off, q \o m) /\ Len(q \o m) = Len(q) + Len(m)
    BY <1>1, <1>5, <2>1, StreamJoin
  <2>3. LinkOK(h, r, n)
    BY <1>1, <1>5, <2>2 DEF LinkOK
  <2>a. r.off + Len(q \o m) = k + Len(m)
    BY <1>a, <1>5, <2>2
  <2>4. Leads(r, q \o m, i, k + Len(m))
    BY <1>5, <2>a DEF Leads
  <2> QED
    BY <2>3, <2>4 DEF q, n
<1> QED
  BY <1>2, <1>3, <1>4, <1>5 DEF Leads, q

LEMMA SendParts ==
    ASSUME NEW g, Typed(g), NEW T, NEW m \in Seq(Message)
    PROVE  LET k == SendTo(g, T, m) IN
           /\ Typed(k) /\ k.srv = g.srv
           /\ \A t \in Server : k.link[t] = IF t \in T THEN Longer(g.link[t], m) ELSE g.link[t]
           /\ \A t \in Server : k.link[t].to = g.link[t].to /\ k.link[t].open = g.link[t].open
<1> DEFINE f == [t \in Server |-> IF t \in T THEN Longer(g.link[t], m) ELSE g.link[t]]
<1>1. /\ g.srv \in [Server -> Record] /\ g.link \in [Server -> Link] /\ g = [srv |-> g.srv, link |-> g.link]
      /\ \A s \in Server : g.srv[s].host # s /\ g.link[s].to # s
  BY DEF Typed
<1>2. SendTo(g, T, m) = [srv |-> g.srv, link |-> f]
  <2>1. \A z : [g EXCEPT !.link = z] = [srv |-> g.srv, link |-> z]
    BY <1>1
  <2>2. SendTo(g, T, m) = [g EXCEPT !.link = f]
    BY DEF SendTo, Longer
  <2> HIDE DEF f
  <2> QED
    BY <2>1, <2>2
<1>3. ASSUME NEW t \in Server
      PROVE  f[t] \in Link /\ f[t].to = g.link[t].to /\ f[t].open = g.link[t].open
  <2>1. g.link[t] \in Link
    BY <1>1
  <2> QED
    BY <2>1, LongerParts
<1>4. f \in [Server -> Link]
  BY <1>3
<1> HIDE DEF f
<1>5. SendTo(g, T, m).srv = g.srv /\ SendTo(g, T, m).link = f
  BY <1>2
<1>6. Typed(SendTo(g, T, m))
  BY <1>1, <1>2, <1>3, <1>4, <1>5 DEF Typed
<1> QED
  BY <1>3, <1>5, <1>6 DEF f

\* A server that has added msgs to its backlog and to the buffers of its slaves.
FedClients(r, msgs) ==
    [t \in Server |-> IF r.slv[t].st \in {"end", "ack"}
                      THEN [r.slv[t] EXCEPT !.buf = @ \o msgs] ELSE r.slv[t]]
FedBacklog(r, msgs) ==
    LET all == r.backlog \o msgs
    IN  SubSeq(all, IF Len(all) > BacklogSize THEN Len(all) - BacklogSize + 1 ELSE 1, Len(all))
Fed(r, msgs) ==
    [[r EXCEPT !.off = @ + Len(msgs), !.backlog = FedBacklog(r, msgs)] EXCEPT !.slv = FedClients(r, msgs)]

LEMMA FedParts ==
    ASSUME NEW r \in Record, NEW m \in Seq(Command), r.backlog # None
    PROVE  LET q == Fed(r, m) IN
           /\ q \in Record /\ q.off = r.off + Len(m) /\ q.backlog = FedBacklog(r, m) /\ q.slv = FedClients(r, m)
           /\ q.host = r.host /\ q.state = r.state /\ q.id = r.id /\ q.id2 = r.id2 /\ q.off2 = r.off2
           /\ q.seldb = r.seldb /\ q.db = r.db /\ q.cached = r.cached /\ q.mid = r.mid /\ q.moff = r.moff
           /\ q.sel = r.sel /\ q.child = r.child /\ q.file = r.file
           /\ FedBacklog(r, m) \in Seq(Command) /\ FedBacklog(r, m) # None
           /\ \E a \in 1..(Len(r.backlog \o m) + 1) :
                 FedBacklog(r, m) = SubSeq(r.backlog \o m, a, Len(r.backlog \o m))
<1> DEFINE all == r.backlog \o m
           a == IF Len(all) > BacklogSize THEN Len(all) - BacklogSize + 1 ELSE 1
           b == FedBacklog(r, m)
           c == FedClients(r, m)
           n == r.off + Len(m)
<1>1. r.backlog \in Seq(Command) /\ r.off \in Nat /\ r.slv \in [Server -> Client]
  BY DEF Record
<1>2. all \in Seq(Command) /\ Len(all) \in Nat /\ Len(m) \in Nat
  BY <1>1
<1>3. a \in 1..(Len(all) + 1)
  <2>1. BacklogSize \in Nat \ {0}
    BY ReplicationConstants
  <2>2. \A x, y \in Nat : y # 0 => (IF x > y THEN x - y + 1 ELSE 1) \in 1..(x + 1)
    OBVIOUS
  <2> QED
    BY <1>2, <2>1, <2>2
<1>4. b = SubSeq(all, a, Len(all))
  BY DEF FedBacklog
<1>5. b \in Seq(Command)
  <2> HIDE DEF all, a
  <2>1. SubSeq(all, a, Len(all)) \in Seq(Command)
    BY <1>2, <1>3
  <2> QED
    BY <1>4, <2>1
<1>6. b # None
  BY <1>5, ReplicationConstants
<1>7. c \in [Server -> Client]
  <2>1. ASSUME NEW t \in Server
        PROVE  c[t] \in Client
    <3>1. r.slv[t] \in Client /\ c[t] = (IF r.slv[t].st \in {"end", "ack"}
                                         THEN [r.slv[t] EXCEPT !.buf = @ \o m] ELSE r.slv[t])
      BY <1>1 DEF FedClients
    <3>2. r.slv[t].buf \o m \in Seq(Command)
      BY <3>1 DEF Client
    <3>3. [r.slv[t] EXCEPT !.buf = @ \o m] \in Client
      BY <3>1, <3>2 DEF Client
    <3> QED
      BY <3>1, <3>3
  <2>2. c = [t \in Server |-> c[t]]
    BY DEF FedClients
  <2> QED
    BY <2>1, <2>2
<1>8. n \in Nat
  BY <1>1, <1>2
<1>9. Fed(r, m) = [r EXCEPT !.off = n, !.backlog = b, !.slv = c]
  BY DEF Fed, Record
<1> HIDE DEF b, c, n
<1>10. [r EXCEPT !.off = n, !.backlog = b, !.slv = c] \in Record
  BY <1>5, <1>7, <1>8 DEF Record
<1>11. LET q == [r EXCEPT !.off = n, !.backlog = b, !.slv = c] IN
       /\ q.off = n /\ q.backlog = b /\ q.slv = c
       /\ q.host = r.host /\ q.state = r.state /\ q.id = r.id /\ q.id2 = r.id2 /\ q.off2 = r.off2
       /\ q.seldb = r.seldb /\ q.db = r.db /\ q.cached = r.cached /\ q.mid = r.mid /\ q.moff = r.moff
       /\ q.sel = r.sel /\ q.child = r.child /\ q.file = r.file
  BY DEF Record
<1>12. \E x \in 1..(Len(r.backlog \o m) + 1) : FedBacklog(r, m) = SubSeq(r.backlog \o m, x, Len(r.backlog \o m))
  BY <1>3, <1>4 DEF b
<1> QED
  BY <1>5, <1>6, <1>9, <1>10, <1>11, <1>12 DEF b, c, n

LEMMA FeedIs ==
    ASSUME NEW g, Typed(g), NEW s \in Server, g.srv[s].backlog # None, NEW m
    PROVE  Feed(g, s, m) = SendTo(Put(g, s, Fed(g.srv[s], m)), {t \in Server : g.srv[s].slv[t].st = "online"}, m)
<1>1. g = [srv |-> g.srv, link |-> g.link]
  BY Shaped
<1>2. [g EXCEPT !.srv[s] = Fed(g.srv[s], m)] = Put(g, s, Fed(g.srv[s], m))
  BY <1>1, PutOne
<1>3. Feed(g, s, m) = SendTo([g EXCEPT !.srv[s] = Fed(g.srv[s], m)],
                             {t \in Server : g.srv[s].slv[t].st = "online"}, m)
  BY DEF Feed, Fed, FedClients, FedBacklog
<1> QED
  BY <1>2, <1>3

\* Server a gets the record r and the connection l.
PutBoth(g, a, r, l) == [srv |-> [g.srv EXCEPT ![a] = r], link |-> [g.link EXCEPT ![a] = l]]

LEMMA PutBothParts ==
    ASSUME NEW g, Typed(g), NEW a \in Server, NEW r \in Record, r.host # a, NEW l \in Link, l.to # a
    PROVE  /\ Typed(PutBoth(g, a, r, l)) /\ PutBoth(g, a, r, l).srv[a] = r /\ PutBoth(g, a, r, l).link[a] = l
           /\ \A x \in Server \ {a} : /\ PutBoth(g, a, r, l).srv[x] = g.srv[x]
                                      /\ PutBoth(g, a, r, l).link[x] = g.link[x]
           /\ \A q : Put(PutBoth(g, a, r, l), a, q) = PutBoth(g, a, q, l)
<1> DEFINE k == PutBoth(g, a, r, l)
<1>1. /\ g.srv \in [Server -> Record] /\ g.link \in [Server -> Link]
      /\ \A s \in Server : g.srv[s].host # s /\ g.link[s].to # s
  BY DEF Typed
<1>2. k.srv = [g.srv EXCEPT ![a] = r] /\ k.link = [g.link EXCEPT ![a] = l] /\ k = [srv |-> k.srv, link |-> k.link]
  BY DEF PutBoth
<1> HIDE DEF k
<1>3. /\ k.srv \in [Server -> Record] /\ k.link \in [Server -> Link] /\ k.srv[a] = r /\ k.link[a] = l
      /\ \A x \in Server \ {a} : k.srv[x] = g.srv[x] /\ k.link[x] = g.link[x]
  BY <1>1, <1>2
<1>4. Typed(k)
  BY <1>1, <1>2, <1>3 DEF Typed
<1>5. ASSUME NEW q
      PROVE  Put(k, a, q) = PutBoth(g, a, q, l)
  <2>1. [[g.srv EXCEPT ![a] = r] EXCEPT ![a] = q] = [g.srv EXCEPT ![a] = q]
    BY <1>1
  <2> QED
    BY <1>2, <2>1 DEF Put, PutBoth
<1> QED
  BY <1>3, <1>4, <1>5 DEF k

\* The client of a slave when its server goes on by m.
LEMMA ClientFed ==
    ASSUME NEW h, NEW j \in History, NEW g, NEW s \in Server, NEW t \in Server, GroupOK(h, g), GrowsOn(Nat, h, j),
           NEW q \in Record, NEW m \in Seq(Command), NEW f, NEW l,
           q.slv = g.srv[s].slv, f.slv = FedClients(q, m), f.id = g.srv[s].id, f.child = g.srv[s].child,
           f.off = g.srv[s].off + Len(m), f.backlog # None,
           Stream(j, g.srv[s].id, g.srv[s].off, m),
           l = IF g.srv[s].slv[t].st = "online" THEN Longer(g.link[t], m) ELSE g.link[t],
           l.to = g.link[t].to, l.open = g.link[t].open
    PROVE  LinkOK(j, g.srv[t], l) /\ ClientOK(j, s, f, f.slv[t], g.srv[t], l)
<1> DEFINE r == g.srv[s]
           c == r.slv[t]
           rt == g.srv[t]
<1>1. /\ r \in Record /\ rt \in Record /\ c \in Client /\ g.link[t] \in Link /\ RecordOK(h, r) /\ h \in History
      /\ ClientOK(h, s, r, c, rt, g.link[t]) /\ LinkOK(h, rt, g.link[t])
  BY GroupParts
<1>a. NamedIn(Nat, rt, g.link[t]) /\ NamedIn(Nat, r, g.link[t])
  BY <1>1, NamedNat
<1>2. r.id \in Nat /\ r.off \in Nat /\ FilesIn(Nat, r) /\ Len(m) \in Nat
  BY <1>1, <1>a DEF Record, NamedIn
<1>3. LinkOK(j, rt, g.link[t]) /\ ClientOK(j, s, r, c, rt, g.link[t])
  BY <1>1, <1>a, <1>2, LinkKept, ClientKept
<1>4. f.slv[t] = IF c.st \in {"end", "ack"} THEN [c EXCEPT !.buf = @ \o m] ELSE c
  BY DEF FedClients
<1> HIDE DEF r, c, rt
<1>5. CASE c.st = "online"
  <2>1. Leads(rt, g.link[t].q, r.id, r.off)
    BY <1>3, <1>5 DEF ClientOK
  <2>2. m \in Seq(Message) /\ l = Longer(g.link[t], m)
    BY <1>5, CommandsIn DEF c, r, Others
  <2>3. l.q = g.link[t].q \o m
    BY <1>1, <2>2, LongerParts
  <2>a. Stream(j, r.id, r.off, m)
    BY DEF r
  <2>b. /\ LinkOK(j, rt, Longer(g.link[t], m))
        /\ Leads(rt, g.link[t].q \o m, r.id, r.off + Len(m))
    BY <1>1, <1>2, <1>3, <2>1, <2>2, <2>a, LinkGrows
  <2>4. LinkOK(j, rt, l) /\ Leads(rt, l.q, r.id, r.off + Len(m))
    BY <2>2, <2>3, <2>b
  <2>5. f.slv[t] = c
    BY <1>4, <1>5
  <2>6. ClientOK(j, s, f, c, rt, l)
    BY <1>3, <1>5, <2>4 DEF ClientOK, r
  <2> QED
    BY <2>4, <2>5, <2>6 DEF rt
<1>6. CASE c.st # "online"
  <2>1. l = g.link[t]
    BY <1>6 DEF c, r
  <2>2. CASE c.st \in {"end", "ack"}
    <3> DEFINE d == [c EXCEPT !.buf = @ \o m]
    <3>1. /\ f.slv[t] = d /\ d.st = c.st /\ d.init = c.init /\ d.buf = c.buf \o m /\ c.buf \in Seq(Command)
          /\ c.init \in Nat
      BY <1>1, <1>4, <2>2 DEF Client
    <3> HIDE DEF d
    <3>2. Stream(j, r.id, c.init, c.buf) /\ c.init + Len(c.buf) = r.off /\ Stream(j, r.id, r.off, m)
      BY <1>3, <2>2 DEF ClientOK, r
    <3>3. Stream(j, r.id, c.init, d.buf)
      BY <1>2, <3>1, <3>2, StreamJoin
    <3>4. d.init + Len(d.buf) = f.off
      <4>1. Len(d.buf) = Len(c.buf) + Len(m) /\ Len(c.buf) \in Nat
        BY <3>1
      <4>2. \A a, b, e \in Nat : a + (b + e) = (a + b) + e
        OBVIOUS
      <4>3. c.init + (Len(c.buf) + Len(m)) = (c.init + Len(c.buf)) + Len(m)
        BY <1>2, <3>1, <4>1, <4>2
      <4>4. f.off = r.off + Len(m)
        BY DEF r
      <4> QED
        BY <3>1, <3>2, <4>1, <4>3, <4>4, Zenon
    <3>5. ClientOK(j, s, f, d, rt, l)
      BY <1>3, <2>1, <2>2, <3>1, <3>3, <3>4 DEF ClientOK, r
    <3> QED
      BY <1>3, <2>1, <3>1, <3>5 DEF rt
  <2>3. CASE c.st \notin {"end", "ack"}
    <3>1. f.slv[t] = c
      BY <1>4, <2>3
    <3>2. ClientOK(j, s, f, c, rt, l)
      BY <1>3, <1>6, <2>1, <2>3 DEF ClientOK, r
    <3> QED
      BY <1>3, <2>1, <3>1, <3>2 DEF rt
  <2> QED
    BY <2>2, <2>3
<1> QED
  BY <1>5, <1>6

\* The record of a server that goes on by m.
LEMMA FedRecord ==
    ASSUME NEW h \in History, NEW j \in History, HistoryOK(j), GrowsOn(Nat, h, j), NEW r \in Record, RecordOK(h, r),
           r.backlog # None, NEW q \in Record, NEW m \in Seq(Command),
           q.id = r.id /\ q.id2 = r.id2 /\ q.off2 = r.off2 /\ q.off = r.off,
           q.backlog = r.backlog /\ q.child = r.child /\ q.file = r.file,
           Stream(j, r.id, r.off, m), q.db = j.val[r.id][r.off + Len(m)], RoleOK(j, Fed(q, m))
    PROVE  RecordOK(j, Fed(q, m))
<1> DEFINE f == Fed(q, m)
<1>1. /\ f \in Record /\ f.off = q.off + Len(m) /\ f.id = q.id /\ f.id2 = q.id2 /\ f.off2 = q.off2 /\ f.db = q.db
      /\ f.child = q.child /\ f.file = q.file /\ f.backlog = FedBacklog(q, m) /\ f.backlog # None
      /\ FedBacklog(q, m) \in Seq(Command)
  <2>1. q.backlog # None
    OBVIOUS
  <2>2. LET e == Fed(q, m) IN
        /\ e \in Record /\ e.off = q.off + Len(m) /\ e.backlog = FedBacklog(q, m)
        /\ e.id = q.id /\ e.id2 = q.id2 /\ e.off2 = q.off2
        /\ e.db = q.db /\ e.child = q.child /\ e.file = q.file
        /\ FedBacklog(q, m) \in Seq(Command) /\ FedBacklog(q, m) # None
    BY <2>1, FedParts
  <2> QED
    BY <2>2
<1> HIDE DEF f
<1>2. /\ r.id \in 1..h.ids /\ r.off \in Nat /\ r.off <= h.len[r.id] /\ r.db = h.val[r.id][r.off]
      /\ Stream(h, r.id, r.off - Len(r.backlog), r.backlog) /\ SecondOK(h, r) /\ FilesOK(h, r)
      /\ r.backlog \in Seq(Command) /\ r.id2 \in Nat /\ r.id \in Nat
  BY DEF RecordOK, Record
<1>3. NamedIn(Nat, r, NoLink)
  BY NamedNat, ClientTypes
<1>4. FilesOK(j, r)
  BY <1>2, <1>3, FilesKept DEF NamedIn
<1>5. r.off + Len(m) <= j.len[r.id] /\ Len(m) \in Nat /\ j.len[r.id] \in Nat /\ h.len[r.id] \in Nat
      /\ h.len[r.id] <= j.len[r.id]
  BY <1>2, StreamType, HistoryType DEF GrowsOn
<1>6. f.id \in 1..j.ids /\ f.off <= j.len[f.id] /\ f.db = j.val[f.id][f.off]
  <2>1. h.ids <= j.ids /\ h.ids \in Nat /\ j.ids \in Nat
    BY HistoryIds DEF GrowsOn
  <2>2. r.id \in 1..j.ids
    BY <1>2, <2>1
  <2>3. f.id = r.id /\ f.off = r.off + Len(m)
    BY <1>1
  <2> QED
    BY <1>1, <1>5, <2>2, <2>3, Zenon
<1>7. Stream(j, f.id, f.off - Len(f.backlog), f.backlog)
  <2> DEFINE all == r.backlog \o m
             b == r.off - Len(r.backlog)
  <2>1. Stream(j, r.id, b, r.backlog)
    BY <1>2, StreamKept
  <2>2. b \in Nat /\ Len(r.backlog) \in Nat
    BY <1>2, <2>1, StreamType
  <2>3. b + Len(r.backlog) = r.off
    BY <1>2, <2>2
  <2>4. Stream(j, r.id, b + Len(r.backlog), m)
    BY <2>3
  <2>5. Stream(j, r.id, b, all) /\ all \in Seq(Command)
    BY <1>2, <2>1, <2>4, StreamJoin
  <2>6. Len(all) = Len(r.backlog) + Len(m)
    BY <1>2
  <2>7. PICK a \in 1..(Len(q.backlog \o m) + 1) :
             FedBacklog(q, m) = SubSeq(q.backlog \o m, a, Len(q.backlog \o m))
    BY FedParts
  <2>8. a \in 1..(Len(all) + 1) /\ f.backlog = SubSeq(all, a, Len(all))
    BY <1>1, <2>7
  <2> HIDE DEF all, b
  <2>9. Stream(j, r.id, b + a - 1, SubSeq(all, a, Len(all)))
    BY <1>2, <2>5, <2>8, StreamPart
  <2>10. Len(f.backlog) = Len(all) - a + 1
    <3>1. \A y \in Seq(Command) : \A x \in 1..(Len(y) + 1) : Len(SubSeq(y, x, Len(y))) = Len(y) - x + 1
      OBVIOUS
    <3> QED
      BY <2>5, <2>8, <3>1, Zenon
  <2>11. f.off - Len(f.backlog) = b + a - 1
    <3>1. \A u, v, w, x, y, z \in Int : u + v = w /\ x = v + y => (w + y) - (x - z + 1) = u + z - 1
      OBVIOUS
    <3>2. b \in Int /\ Len(r.backlog) \in Int /\ r.off \in Int /\ Len(all) \in Int /\ Len(m) \in Int /\ a \in Int
      BY <1>2, <1>5, <2>2, <2>6, <2>8
    <3>3. (r.off + Len(m)) - (Len(all) - a + 1) = b + a - 1
      BY <2>3, <2>6, <3>1, <3>2 DEF b
    <3> QED
      BY <1>1, <2>10, <3>3
  <2> QED
    BY <1>1, <2>8, <2>9, <2>11
<1>8. SecondOK(j, f)
  <2>0. SUFFICES ASSUME r.id2 # NoId
                 PROVE  /\ r.id2 \in 1..j.ids /\ r.off2 \in 1..(f.off + 1) /\ r.off2 - 1 <= j.len[r.id2]
                        /\ IsPrefix(j.val[r.id2][r.off2 - 1], f.db)
                        /\ Agree(j, r.id2, r.id, r.off2 - 1)
    BY <1>1 DEF SecondOK
  <2>1. SecondOK(j, r)
    BY <1>2, SecondKept
  <2>2. /\ r.id2 \in 1..j.ids /\ r.off2 \in 1..(r.off + 1) /\ r.off2 - 1 <= j.len[r.id2]
        /\ IsPrefix(j.val[r.id2][r.off2 - 1], r.db) /\ Agree(j, r.id2, r.id, r.off2 - 1)
    BY <2>0, <2>1 DEF SecondOK
  <2>3. r.off2 \in 1..(f.off + 1)
    BY <1>1, <1>2, <1>5, <2>2
  <2>4. r.db = j.val[r.id][r.off] /\ f.db = j.val[r.id][r.off + Len(m)]
    BY <1>1, <1>2 DEF GrowsOn
  <2>5. IsPrefix(r.db, f.db)
    <3>1. r.off <= r.off + Len(m) /\ r.off + Len(m) \in Nat /\ r.id \in 1..j.ids
      BY <1>1, <1>2, <1>5, <1>6
    <3> QED
      BY <1>2, <1>5, <2>4, <3>1 DEF HistoryOK
  <2>6. r.off2 - 1 \in Nat
    BY <2>2
  <2>7. j.val[r.id2][r.off2 - 1] \in Data /\ r.db \in Data /\ f.db \in Data
    BY <1>1, <1>2, <2>6, HistoryType DEF Record
  <2>8. IsPrefix(j.val[r.id2][r.off2 - 1], f.db)
    BY <2>2, <2>5, <2>7, PrefixTrans DEF Data
  <2> QED
    BY <2>2, <2>3, <2>8
<1>9. FilesOK(j, f)
  BY <1>1, <1>4 DEF FilesOK
<1> QED
  BY <1>1, <1>6, <1>7, <1>8, <1>9 DEF RecordOK, f

\* What it takes to feed the slaves of s with m, once its record is q and its link l.
Feeds(h, j, g, s, q, l, m) ==
    /\ j \in History /\ s \in Server /\ GroupOK(h, g) /\ HistoryOK(j) /\ GrowsOn(Nat, h, j)
    /\ g.srv[s].backlog # None /\ q \in Record /\ l \in Link /\ m \in Seq(Command)
    /\ q.id = g.srv[s].id /\ q.id2 = g.srv[s].id2 /\ q.off2 = g.srv[s].off2 /\ q.off = g.srv[s].off
    /\ q.backlog = g.srv[s].backlog /\ q.child = g.srv[s].child /\ q.file = g.srv[s].file
    /\ q.host = g.srv[s].host /\ q.mid = g.srv[s].mid /\ q.slv = g.srv[s].slv
    /\ l.to # s /\ \A I : QueueIn(I, g.link[s].q) => QueueIn(I, l.q)
    /\ Stream(j, g.srv[s].id, g.srv[s].off, m) /\ q.db = j.val[g.srv[s].id][g.srv[s].off + Len(m)]
    /\ RoleOK(j, Fed(q, m)) /\ LinkOK(j, Fed(q, m), l)
    /\ \A x \in Server \ {s} : /\ EndKept(h, j, g.srv[x])
                               /\ ClientOK(j, x, g.srv[x], g.srv[x].slv[s], Fed(q, m), l)

LEMMA FeedOK ==
    ASSUME NEW h, NEW j, NEW g, NEW s, NEW q, NEW l, NEW m, Feeds(h, j, g, s, q, l, m)
    PROVE  /\ GroupOK(j, Feed(PutBoth(g, s, q, l), s, m))
           /\ \A x \in Server : Feed(PutBoth(g, s, q, l), s, m).srv[x].id = g.srv[x].id
<1> SUFFICES ASSUME j \in History, s \in Server, GroupOK(h, g), HistoryOK(j), GrowsOn(Nat, h, j),
                    g.srv[s].backlog # None, q \in Record, l \in Link, m \in Seq(Command),
                    q.id = g.srv[s].id /\ q.id2 = g.srv[s].id2 /\ q.off2 = g.srv[s].off2 /\ q.off = g.srv[s].off,
                    q.backlog = g.srv[s].backlog /\ q.child = g.srv[s].child /\ q.file = g.srv[s].file,
                    q.host = g.srv[s].host /\ q.mid = g.srv[s].mid /\ q.slv = g.srv[s].slv,
                    l.to # s, \A I : QueueIn(I, g.link[s].q) => QueueIn(I, l.q),
                    Stream(j, g.srv[s].id, g.srv[s].off, m), q.db = j.val[g.srv[s].id][g.srv[s].off + Len(m)],
                    RoleOK(j, Fed(q, m)), LinkOK(j, Fed(q, m), l),
                    \A x \in Server \ {s} : /\ EndKept(h, j, g.srv[x])
                                            /\ ClientOK(j, x, g.srv[x], g.srv[x].slv[s], Fed(q, m), l)
             PROVE  /\ GroupOK(j, Feed(PutBoth(g, s, q, l), s, m))
                    /\ \A x \in Server : Feed(PutBoth(g, s, q, l), s, m).srv[x].id = g.srv[x].id
  BY Zenon DEF Feeds
<1> DEFINE r == g.srv[s]
           b == PutBoth(g, s, q, l)
           f == Fed(q, m)
           T == {t \in Server : q.slv[t].st = "online"}
           k == Feed(b, s, m)
<1>1. /\ Typed(g) /\ r \in Record /\ RecordOK(h, r) /\ OwnOK(r) /\ h \in History /\ r.host # s /\ q.backlog # None
      /\ q.host # s
  BY GroupParts DEF GroupOK
<1>2. /\ Typed(b) /\ b.srv[s] = q /\ b.link[s] = l
      /\ \A x \in Server \ {s} : b.srv[x] = g.srv[x] /\ b.link[x] = g.link[x]
  BY <1>1, PutBothParts
<1>3. LET e == Fed(q, m) IN
      /\ e \in Record /\ e.off = q.off + Len(m) /\ e.slv = FedClients(q, m)
      /\ e.host = q.host /\ e.id = q.id /\ e.id2 = q.id2 /\ e.mid = q.mid /\ e.child = q.child /\ e.file = q.file
      /\ e.backlog = FedBacklog(q, m) /\ FedBacklog(q, m) # None
  BY <1>1, FedParts
<1>a. \A t \in Server : t \in T <=> r.slv[t].st = "online"
  OBVIOUS
<1>4. k = SendTo(Put(b, s, f), T, m)
  <2> HIDE DEF b
  <2>1. b.srv[s].backlog # None
    BY <1>1, <1>2
  <2>2. k = SendTo(Put(b, s, Fed(b.srv[s], m)), {t \in Server : b.srv[s].slv[t].st = "online"}, m)
    <3>1. Typed(b)
      BY <1>2
    <3> QED
      BY <2>1, <3>1, FeedIs
  <2> QED
    BY <1>2, <2>2
<1>5. /\ f \in Record /\ f.off = r.off + Len(m) /\ f.slv = FedClients(q, m)
      /\ f.host = r.host /\ f.id = r.id /\ f.id2 = r.id2 /\ f.mid = r.mid /\ f.child = r.child /\ f.file = r.file
      /\ f.backlog # None
  BY <1>3
<1>6. RecordOK(j, f)
  BY <1>1, FedRecord
<1> HIDE DEF f, b, k, T
<1>7. /\ Typed(Put(b, s, f)) /\ Put(b, s, f).srv[s] = f /\ Put(b, s, f).link = b.link
      /\ \A x \in Server \ {s} : Put(b, s, f).srv[x] = b.srv[x]
  BY <1>1, <1>2, <1>5, PutParts
<1>8. m \in Seq(Message) /\ \A I : NoId \in I => QueueIn(I, m)
  BY CommandsIn
<1>9. /\ Typed(k) /\ k.srv = Put(b, s, f).srv
      /\ \A t \in Server : k.link[t] = IF t \in T THEN Longer(b.link[t], m) ELSE b.link[t]
      /\ \A t \in Server : k.link[t].to = b.link[t].to /\ k.link[t].open = b.link[t].open
  <2> DEFINE c == Put(b, s, f)
  <2>1. Typed(c) /\ k = SendTo(c, T, m) /\ c.link = b.link
    BY <1>4, <1>7
  <2> HIDE DEF c
  <2>2. /\ Typed(SendTo(c, T, m)) /\ SendTo(c, T, m).srv = c.srv
        /\ \A t \in Server : SendTo(c, T, m).link[t] = IF t \in T THEN Longer(c.link[t], m)
                                                     ELSE c.link[t]
        /\ \A t \in Server : /\ SendTo(c, T, m).link[t].to = c.link[t].to
                              /\ SendTo(c, T, m).link[t].open = c.link[t].open
    <3>1. Typed(c) /\ m \in Seq(Message)
      BY <1>8, <2>1
    <3> QED
      BY <3>1, SendParts
  <2> QED
    BY <2>1, <2>2 DEF c
<1>10. r.slv[s].st = "none" /\ s \notin T
  BY <1>a, NoSelf
<1>11. k.srv[s] = f /\ k.link[s] = l /\ \A x \in Server \ {s} : k.srv[x] = g.srv[x]
  BY <1>2, <1>7, <1>9, <1>10
<1>12. f.slv[s].st = "none"
  <2>1. q.slv[s].st = "none"
    BY <1>10
  <2>2. FedClients(q, m)[s] = q.slv[s]
    BY <2>1 DEF FedClients
  <2> QED
    BY <1>5, <2>1, <2>2
<1>13. ASSUME NEW x \in Server \ {s}
       PROVE  /\ k.link[x] = g.link[x] \/ r.slv[x].st # "none"
              /\ LinkOK(j, g.srv[x], k.link[x])
              /\ ClientOK(j, s, f, f.slv[x], g.srv[x], k.link[x])
              /\ \A i \in 1..h.ids : QueueIn(Others(i), g.link[x].q) => QueueIn(Others(i), k.link[x].q)
  <2>1. /\ k.link[x] = IF r.slv[x].st = "online" THEN Longer(g.link[x], m) ELSE g.link[x]
        /\ k.link[x].to = g.link[x].to /\ k.link[x].open = g.link[x].open
    <3>1. x \in Server /\ b.link[x] = g.link[x] /\ (x \in T <=> r.slv[x].st = "online")
      BY <1>a, <1>2, <1>13
    <3>2. k.link[x] = (IF x \in T THEN Longer(b.link[x], m) ELSE b.link[x])
          /\ k.link[x].to = b.link[x].to /\ k.link[x].open = b.link[x].open
      BY <1>9, <3>1
    <3> QED
      BY <3>1, <3>2
  <2>2. LinkOK(j, g.srv[x], k.link[x]) /\ ClientOK(j, s, f, f.slv[x], g.srv[x], k.link[x])
    BY <1>5, <2>1, ClientFed
  <2>3. ASSUME NEW i \in 1..h.ids, QueueIn(Others(i), g.link[x].q)
        PROVE  QueueIn(Others(i), k.link[x].q)
    <3>1. g.link[x] \in Link /\ g.link[x].q \in Seq(Message)
      BY GroupParts DEF Link
    <3>2. NoId \in Others(i)
      BY DEF Others, NoId
    <3>3. QueueIn(Others(i), g.link[x].q \o m)
      BY <1>8, <2>3, <3>1, <3>2, QueueConcat
    <3>4. Longer(g.link[x], m).q = g.link[x].q \o m
      BY <1>8, <3>1, LongerParts
    <3> QED
      BY <2>1, <2>3, <3>3, <3>4
  <2> QED
    BY <2>1, <2>2, <2>3
<1>14. Serves(h, j, g, k, s)
  <2>1. ~Alone(f)
    BY <1>5 DEF Alone
  <2>2. \A i \in 1..h.ids : NamedIn(Others(i), r, g.link[s]) => NamedIn(Others(i), f, l)
    BY <1>5 DEF NamedIn, FilesIn
  <2>3. \A x \in Server \ {s} : EndKept(h, j, g.srv[x]) /\ ClientOK(j, x, g.srv[x], g.srv[x].slv[s], f, l)
    BY DEF f
  <2> QED
    BY <1>5, <1>11, <1>12, <1>13, <2>1, <2>2, <2>3 DEF Serves
<1>15. OwnOK(f) /\ LinkOK(j, f, l)
  BY <1>5 DEF OwnOK, Private, f
<1>16. GroupOK(j, k)
  BY <1>6, <1>9, <1>11, <1>14, <1>15, Serve
<1>17. \A x \in Server : k.srv[x].id = g.srv[x].id
  BY <1>5, <1>11
<1> QED
  BY <1>16, <1>17 DEF k, b

-----------------------------------------------------------------------------
(* A write of a master                                                     *)

LEMMA StreamOne ==
    ASSUME NEW h \in History, NEW i \in Nat, NEW k \in Nat, k + 1 <= h.len[i], NEW c, c = h.cmd[i][k + 1]
    PROVE  Stream(h, i, k, <<c>>)
<1>1. Len(<<c>>) = 1 /\ <<c>>[1] = c
  OBVIOUS
<1>2. \A x \in 1..1 : x = 1
  OBVIOUS
<1> QED
  BY <1>1, <1>2 DEF Stream

Selecting(h, i, d) == IF h.sel[i][h.len[i]] = d THEN <<>> ELSE <<[type |-> "select", db |-> d]>>

LEMMA HistorySelects ==
    ASSUME NEW h \in History, HistoryOK(h), NEW i \in 1..h.ids, NEW d \in Db
    PROVE  \E j \in History :
              /\ HistoryOK(j) /\ GrowsOn(Nat, h, j) /\ SameBut(i, h, j) /\ j.ids = h.ids /\ j.writes = h.writes
              /\ Stream(j, i, h.len[i], Selecting(h, i, d))
              /\ j.len[i] = h.len[i] + Len(Selecting(h, i, d))
              /\ j.val[i][j.len[i]] = h.val[i][h.len[i]] /\ j.sel[i][j.len[i]] = d
<1>1. h.len[i] \in Nat /\ i \in Nat
  BY HistoryIds
<1>2. CASE h.sel[i][h.len[i]] = d
  <2>1. Selecting(h, i, d) = <<>> /\ Len(<<>>) = 0
    BY <1>2 DEF Selecting
  <2>2. GrowsOn(Nat, h, h) /\ SameBut(i, h, h)
    BY GrowsSame DEF SameBut
  <2>3. Stream(h, i, h.len[i], <<>>)
    BY <1>1, StreamNone
  <2>4. h.len[i] = h.len[i] + 0
    BY <1>1
  <2> QED
    BY <1>2, <2>1, <2>2, <2>3, <2>4
<1>3. CASE h.sel[i][h.len[i]] # d
  <2> DEFINE c == [type |-> "select", db |-> d]
             j == Extend(h, i, c)
  <2>1. Selecting(h, i, d) = <<c>> /\ Len(<<c>>) = 1
    BY <1>3 DEF Selecting
  <2>2. c \in Command /\ c.type = "select" /\ c.db = d /\ c.type # "write"
    BY DEF Command
  <2> HIDE DEF c
  <2>3. /\ j \in History /\ HistoryOK(j) /\ GrowsOn(Nat, h, j) /\ SameBut(i, h, j)
        /\ j.ids = h.ids /\ j.writes = h.writes
        /\ j.len[i] = h.len[i] + 1 /\ j.cmd[i][h.len[i] + 1] = c
        /\ j.val[i][h.len[i] + 1] = h.val[i][h.len[i]]
        /\ j.sel[i][h.len[i] + 1] = c.db
    BY <2>2, ExtendOK
  <2> HIDE DEF j
  <2>4. Stream(j, i, h.len[i], <<c>>)
    BY <1>1, <2>3, StreamOne
  <2> QED
    BY <2>1, <2>2, <2>3, <2>4
<1> QED
  BY <1>2, <1>3

OneWrite(n) == <<[type |-> "write", w |-> n]>>
Entry(n, d) == [w |-> n, db |-> d]

\* From f to j history i goes on from k by the write n to database d.
WentOn(f, j, i, k, n, d) ==
    /\ HistoryOK(j) /\ GrowsOn(Nat, f, j) /\ SameBut(i, f, j) /\ j.ids = f.ids /\ j.writes = f.writes
    /\ Stream(j, i, k, OneWrite(n)) /\ j.len[i] = k + 1
    /\ j.val[i][k + 1] = Append(f.val[i][k], Entry(n, d)) /\ j.sel[i][k + 1] = d

LEMMA HistoryWrite ==
    ASSUME NEW f \in History, HistoryOK(f), NEW i \in 1..f.ids, NEW n \in Nat, n \in DOMAIN f.writes, NEW d \in Db,
           f.writes[n] = d, NEW k \in Nat, k = f.len[i], f.sel[i][k] = d
    PROVE  \E j \in History : WentOn(f, j, i, k, n, d)
<1> DEFINE c == [type |-> "write", w |-> n]
           j == Extend(f, i, c)
<1>1. c \in Command /\ c.type = "write" /\ c.w = n /\ c.type # "select"
  BY DEF Command
<1> HIDE DEF c
<1>2. d # NoDb /\ i \in Nat
  BY DEF Db, NoDb
<1>3. c.type = "write" => /\ f.sel[i][f.len[i]] # NoDb
                          /\ c.w \in DOMAIN f.writes /\ f.writes[c.w] = f.sel[i][f.len[i]]
  BY <1>1, <1>2
<1>4. /\ j \in History /\ HistoryOK(j) /\ GrowsOn(Nat, f, j) /\ SameBut(i, f, j)
      /\ j.ids = f.ids /\ j.writes = f.writes
      /\ j.len[i] = f.len[i] + 1 /\ j.cmd[i][f.len[i] + 1] = c
      /\ j.val[i][f.len[i] + 1] = (IF c.type = "write" THEN Append(f.val[i][f.len[i]], [w |-> c.w, db |-> f.sel[i][f.len[i]]])
                                 ELSE f.val[i][f.len[i]])
      /\ j.sel[i][f.len[i] + 1] = (IF c.type = "select" THEN c.db ELSE f.sel[i][f.len[i]])
  BY <1>1, <1>3, ExtendOK, Zenon
<1> HIDE DEF j
<1>7. Stream(j, i, k, <<c>>)
  BY <1>2, <1>4, StreamOne
<1>8. j.val[i][k + 1] = Append(f.val[i][k], Entry(n, d)) /\ j.sel[i][k + 1] = d /\ j.len[i] = k + 1
  BY <1>1, <1>4, Zenon DEF Entry
<1> QED
  BY <1>4, <1>7, <1>8, Zenon DEF c, OneWrite, WentOn

Writing(h, i, d) == Selecting(h, i, d) \o <<[type |-> "write", w |-> Len(h.writes) + 1]>>

\* From h to j history i goes on by the next write, to database d.
HistoryWrote(h, j, i, d) ==
    /\ HistoryOK(j) /\ GrowsOn(Nat, h, j) /\ SameBut(i, h, j)
    /\ j.ids = h.ids /\ j.writes = Append(h.writes, d)
    /\ Stream(j, i, h.len[i], Writing(h, i, d))
    /\ j.len[i] = h.len[i] + Len(Writing(h, i, d))
    /\ j.val[i][j.len[i]] = Append(h.val[i][h.len[i]], Entry(Len(h.writes) + 1, d))
    /\ j.sel[i][j.len[i]] = d

LEMMA SelectingType ==
    ASSUME NEW h, NEW i, NEW d \in Db
    PROVE  Selecting(h, i, d) \in Seq(Command) /\ Len(Selecting(h, i, d)) \in Nat
<1>1. [type |-> "select", db |-> d] \in Command
  BY DEF Command
<1>2. <<[type |-> "select", db |-> d]>> \in Seq(Command)
  BY <1>1
<1>3. <<>> \in Seq(Command)
  OBVIOUS
<1>4. Selecting(h, i, d) \in Seq(Command)
  BY <1>2, <1>3 DEF Selecting
<1> QED
  BY <1>4

LEMMA HistoryWrites ==
    ASSUME NEW h \in History, HistoryOK(h), NEW i \in 1..h.ids, NEW d \in Db
    PROVE  /\ Writing(h, i, d) \in Seq(Command)
           /\ \E j \in History : HistoryWrote(h, j, i, d)
<1> DEFINE n == Len(h.writes) + 1
           c == <<[type |-> "write", w |-> n]>>
           p == Written(h, d)
           e == Selecting(h, i, d)
<1>1. /\ p \in History /\ HistoryOK(p) /\ GrowsOn(Nat, h, p)
      /\ p.ids = h.ids /\ p.writes = Append(h.writes, d) /\ p.len = h.len /\ p.sel = h.sel /\ p.val = h.val
  BY WrittenOK
<1>2. h.len[i] \in Nat /\ i \in Nat /\ i \in 1..p.ids /\ h.writes \in Seq(Db)
  BY <1>1, HistoryIds DEF History
<1>3. n \in Nat /\ n \in DOMAIN p.writes /\ p.writes[n] = d
  BY <1>1, <1>2
<1>4. c \in Seq(Command) /\ Len(c) = 1
  <2>1. [type |-> "write", w |-> n] \in Command
    BY <1>3 DEF Command
  <2> HIDE DEF n
  <2> QED
    BY <2>1
<1>5. Selecting(p, i, d) = e
  BY <1>1 DEF Selecting
<1>6. e \in Seq(Command) /\ Len(e) \in Nat
  BY SelectingType
<1> HIDE DEF p, c, e, n
<1>7. PICK f \in History :
        /\ HistoryOK(f) /\ GrowsOn(Nat, p, f) /\ SameBut(i, p, f) /\ f.ids = p.ids /\ f.writes = p.writes
        /\ Stream(f, i, p.len[i], Selecting(p, i, d))
        /\ f.len[i] = p.len[i] + Len(Selecting(p, i, d))
        /\ f.val[i][f.len[i]] = p.val[i][p.len[i]] /\ f.sel[i][f.len[i]] = d
  BY <1>1, <1>2, HistorySelects
<1> DEFINE k == h.len[i] + Len(e)
<1>8. k \in Nat /\ k = f.len[i]
  BY <1>1, <1>2, <1>5, <1>6, <1>7
<1>9. f.sel[i][k] = d /\ f.val[i][k] = h.val[i][h.len[i]] /\ Stream(f, i, h.len[i], e)
  BY <1>1, <1>5, <1>7, <1>8, Zenon
<1>10. i \in 1..f.ids /\ n \in DOMAIN f.writes /\ f.writes[n] = d
  BY <1>1, <1>2, <1>3, <1>7
<1>11. GrowsOn(Nat, h, f) /\ SameBut(i, h, f) /\ f.ids = h.ids /\ f.writes = Append(h.writes, d) /\ HistoryOK(f)
  <2>1. GrowsOn(Nat, h, f)
    BY <1>1, <1>7, GrowsTrans
  <2>2. SameBut(i, h, f)
    BY <1>1, <1>7 DEF SameBut
  <2> QED
    BY <1>1, <1>7, <2>1, <2>2, Zenon
<1> HIDE DEF k
<1>x. PICK j \in History : WentOn(f, j, i, k, n, d)
  <2>1. n \in Nat /\ k \in Nat /\ HistoryOK(f) /\ f.sel[i][k] = d
    BY <1>3, <1>8, <1>9, <1>11
  <2> QED
    BY <1>8, <1>10, <2>1, HistoryWrite
<1>12. /\ HistoryOK(j) /\ GrowsOn(Nat, f, j) /\ SameBut(i, f, j) /\ j.ids = f.ids /\ j.writes = f.writes
       /\ Stream(j, i, k, OneWrite(n)) /\ j.len[i] = k + 1
       /\ j.val[i][k + 1] = Append(f.val[i][k], Entry(n, d)) /\ j.sel[i][k + 1] = d
  BY <1>x DEF WentOn
<1>13. GrowsOn(Nat, h, j)
  BY <1>11, <1>12, GrowsTrans
<1>14. SameBut(i, h, j)
  <2>1. SameBut(i, f, j)
    BY <1>12
  <2> QED
    BY <1>11, <2>1 DEF SameBut
<1>15. e \o c \in Seq(Command) /\ Len(e \o c) = Len(e) + 1
  <2>1. \A x, y \in Seq(Command) : x \o y \in Seq(Command) /\ Len(x \o y) = Len(x) + Len(y)
    OBVIOUS
  <2> QED
    BY <1>4, <1>6, <2>1, Zenon
<1>16. Stream(j, i, h.len[i], e \o c)
  <2>1. Stream(j, i, h.len[i], e)
    <3>1. GrowsOn(Nat, f, j)
      BY <1>12
    <3> QED
      BY <1>2, <1>6, <1>9, <3>1, StreamKept
  <2>2. Stream(j, i, h.len[i] + Len(e), c)
    BY <1>12, Zenon DEF k, c, OneWrite
  <2> QED
    BY <1>2, <1>4, <1>6, <2>1, <2>2, StreamJoin
<1>17. j.len[i] = h.len[i] + Len(e \o c) /\ j.len[i] = k + 1
  <2>1. \A a, b \in Nat : (a + b) + 1 = a + (b + 1)
    OBVIOUS
  <2>2. j.len[i] = k + 1
    BY <1>12
  <2> QED
    BY <1>2, <1>6, <1>15, <2>1, <2>2, Zenon DEF k
<1>18. j.val[i][j.len[i]] = Append(h.val[i][h.len[i]], Entry(n, d)) /\ j.sel[i][j.len[i]] = d
  BY <1>9, <1>12, <1>17, Zenon
<1>19. j.ids = h.ids /\ j.writes = Append(h.writes, d) /\ HistoryOK(j)
  BY <1>11, <1>12, Zenon
<1>20. Writing(h, i, d) = e \o c
  BY DEF Writing, e, c, n
<1> QED
  BY <1>13, <1>14, <1>15, <1>16, <1>17, <1>18, <1>19, <1>20, Zenon DEF n, HistoryWrote

LEMMA NoneOK ==
    ASSUME NEW h, NEW s, NEW r, NEW c, NEW rt, NEW l, c.st = "none"
    PROVE  ClientOK(h, s, r, c, rt, l)
  BY DEF ClientOK

\* A master with the write n to database d.
Noted(r, n, d) == [Wrote(r, Entry(n, d)) EXCEPT !.seldb = d]

LEMMA NotedParts ==
    ASSUME NEW r \in Record, NEW n \in Nat, NEW d \in Db
    PROVE  LET q == Noted(r, n, d) IN
           /\ q \in Record /\ q.db = Append(r.db, Entry(n, d)) /\ q.seldb = d
           /\ q.host = r.host /\ q.state = r.state /\ q.id = r.id /\ q.id2 = r.id2 /\ q.off2 = r.off2 /\ q.off = r.off
           /\ q.backlog = r.backlog /\ q.cached = r.cached /\ q.mid = r.mid /\ q.moff = r.moff
           /\ q.sel = r.sel /\ q.child = r.child /\ q.file = r.file /\ q.slv = r.slv
<1> DEFINE v == Append(r.db, Entry(n, d))
<1>1. v \in Data /\ d \in Db \cup {NoDb}
  BY DEF Record, Data, Entry
<1>2. Noted(r, n, d) = [r EXCEPT !.db = v, !.seldb = d]
  BY DEF Noted, Wrote, Record
<1> HIDE DEF v
<1>3. [r EXCEPT !.db = v, !.seldb = d] \in Record
  BY <1>1 DEF Record
<1>4. LET q == [r EXCEPT !.db = v, !.seldb = d] IN
      /\ q.db = v /\ q.seldb = d
      /\ q.host = r.host /\ q.state = r.state /\ q.id = r.id /\ q.id2 = r.id2 /\ q.off2 = r.off2 /\ q.off = r.off
      /\ q.backlog = r.backlog /\ q.cached = r.cached /\ q.mid = r.mid /\ q.moff = r.moff
      /\ q.sel = r.sel /\ q.child = r.child /\ q.file = r.file /\ q.slv = r.slv
  BY DEF Record
<1> QED
  BY <1>2, <1>3, <1>4 DEF v

LEMMA WriteOK ==
    ASSUME NEW h, NEW g, GroupOK(h, g), NEW s \in Server, g.srv[s].host = None, g.srv[s].backlog # None, NEW d \in Db
    PROVE  LET q == Noted(g.srv[s], Len(h.writes) + 1, d)
               k == Feed(PutBoth(g, s, q, g.link[s]), s, Writing(h, g.srv[s].id, d))
           IN  \E j \in History : j.ids = h.ids /\ j.writes = Append(h.writes, d) /\ GroupOK(j, k)
<1> DEFINE r == g.srv[s]
           n == Len(h.writes) + 1
           q == Noted(r, n, d)
           m == Writing(h, r.id, d)
           f == Fed(q, m)
<1>1. /\ Typed(g) /\ r \in Record /\ RecordOK(h, r) /\ h \in History /\ HistoryOK(h) /\ g.link[s] \in Link
      /\ LinkOK(h, r, g.link[s]) /\ g.link[s].to # s /\ h.ids \in Nat
  BY GroupParts DEF GroupOK
<1>2. /\ r.id \in 1..h.ids /\ r.off = h.len[r.id] /\ r.db = h.val[r.id][r.off] /\ r.cached = None /\ r.state = "none"
      /\ r.off \in Nat /\ r.mid \in 0..h.ids /\ r.host = None /\ r.backlog # None
  BY <1>1 DEF RecordOK, RoleOK, Record
<1>3. g.link[s] = NoLink
  BY <1>1, <1>2 DEF LinkOK
<1>4. n \in Nat
  BY <1>1 DEF History
<1>a. \A x \in Server \ {s} : g.srv[x].slv[s].st = "none"
  BY <1>3, NoLinkNoClient
<1>b. \A j : SameBut(r.id, h, j) => \A x \in Server \ {s} : EndKept(h, j, g.srv[x])
  BY <1>2, EndsApart
<1> HIDE DEF n, r
<1>5. LET z == Noted(r, n, d) IN
      /\ z \in Record /\ z.db = Append(r.db, Entry(n, d)) /\ z.seldb = d
      /\ z.host = r.host /\ z.state = r.state /\ z.id = r.id /\ z.id2 = r.id2 /\ z.off2 = r.off2 /\ z.off = r.off
      /\ z.backlog = r.backlog /\ z.cached = r.cached /\ z.mid = r.mid
      /\ z.child = r.child /\ z.file = r.file /\ z.slv = r.slv
  BY <1>1, <1>4, NotedParts
<1>6. /\ q \in Record /\ q.db = Append(r.db, Entry(n, d)) /\ q.seldb = d
      /\ q.host = r.host /\ q.state = r.state /\ q.id = r.id /\ q.id2 = r.id2 /\ q.off2 = r.off2 /\ q.off = r.off
      /\ q.backlog = r.backlog /\ q.cached = r.cached /\ q.mid = r.mid
      /\ q.child = r.child /\ q.file = r.file /\ q.slv = r.slv
  BY <1>5
<1> HIDE DEF q
<1>7. m \in Seq(Command)
  BY <1>1, <1>2, HistoryWrites
<1>c. PICK j \in History : HistoryWrote(h, j, r.id, d)
  BY <1>1, <1>2, HistoryWrites
<1>8. /\ HistoryOK(j) /\ GrowsOn(Nat, h, j) /\ SameBut(r.id, h, j) /\ j.ids = h.ids /\ j.writes = Append(h.writes, d)
  BY <1>c, Zenon DEF HistoryWrote
<1>9. /\ Stream(j, r.id, r.off, m) /\ q.db = j.val[r.id][r.off + Len(m)]
      /\ j.len[r.id] = r.off + Len(m) /\ j.sel[r.id][r.off + Len(m)] = d
  BY <1>2, <1>6, <1>c, Zenon DEF HistoryWrote, n
<1> HIDE DEF m
<1>10. q.backlog # None
  BY <1>2, <1>6
<1>11. LET z == Fed(q, m) IN
       /\ z.off = q.off + Len(m) /\ z.host = q.host /\ z.state = q.state /\ z.id = q.id
       /\ z.seldb = q.seldb /\ z.cached = q.cached /\ z.mid = q.mid
  BY <1>6, <1>7, <1>10, FedParts
<1>d. /\ f.off = r.off + Len(m) /\ f.host = None /\ f.state = "none" /\ f.id = r.id
      /\ f.seldb = d /\ f.cached = None /\ f.mid \in 0..j.ids
  BY <1>2, <1>6, <1>8, <1>11
<1> HIDE DEF f
<1>12. RoleOK(j, f)
  BY <1>9, <1>d DEF RoleOK
<1>13. LinkOK(j, f, g.link[s])
  BY <1>3, <1>d DEF LinkOK
<1>14. \A x \in Server \ {s} : EndKept(h, j, g.srv[x])
  BY <1>8, <1>b
<1>15. \A x \in Server \ {s} : ClientOK(j, x, g.srv[x], g.srv[x].slv[s], f, g.link[s])
  BY <1>a, NoneOK
<1>16. GroupOK(j, Feed(PutBoth(g, s, q, g.link[s]), s, m))
  <2>1. /\ q.id = g.srv[s].id /\ q.id2 = g.srv[s].id2 /\ q.off2 = g.srv[s].off2 /\ q.off = g.srv[s].off
        /\ q.backlog = g.srv[s].backlog /\ q.child = g.srv[s].child /\ q.file = g.srv[s].file
        /\ q.host = g.srv[s].host /\ q.mid = g.srv[s].mid /\ q.slv = g.srv[s].slv
    BY <1>6 DEF r
  <2>2. Stream(j, g.srv[s].id, g.srv[s].off, m) /\ q.db = j.val[g.srv[s].id][g.srv[s].off + Len(m)]
    BY <1>9 DEF r
  <2>3. /\ RoleOK(j, Fed(q, m)) /\ LinkOK(j, Fed(q, m), g.link[s])
        /\ \A x \in Server \ {s} : /\ EndKept(h, j, g.srv[x])
                                   /\ ClientOK(j, x, g.srv[x], g.srv[x].slv[s], Fed(q, m), g.link[s])
    BY <1>12, <1>13, <1>14, <1>15 DEF f
  <2>4. /\ g.link[s] \in Link /\ g.link[s].to # s /\ g.srv[s].backlog # None
        /\ \A I : QueueIn(I, g.link[s].q) => QueueIn(I, g.link[s].q)
    BY <1>1
  <2>5. HistoryOK(j) /\ GrowsOn(Nat, h, j) /\ q \in Record /\ m \in Seq(Command)
    BY <1>6, <1>7, <1>8
  <2> QED
    <3>1. Feeds(h, j, g, s, q, g.link[s], m)
      BY <2>1, <2>2, <2>3, <2>4, <2>5, Zenon DEF Feeds
    <3> QED
      BY <3>1, FeedOK, Zenon
<1> QED
  BY <1>8, <1>16 DEF q, m, n, r

=============================================================================
