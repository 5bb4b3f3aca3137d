----------------------- MODULE RedisReplicationProofs -----------------------
(***************************************************************************)
(* The rest of the proof that RedisReplication keeps its invariant: what a  *)
(* slave reads, the resynchronizations, partial and full, the clients of a  *)
(* master, and the theorems.                                                *)
(***************************************************************************)
EXTENDS RedisHistories

-----------------------------------------------------------------------------
(* What a slave reads                                                      *)

\* A connection after the first thing in its socket was read.
Shorter(l) == [l EXCEPT !.q = Tail(@)]

LEMMA ShorterParts ==
    ASSUME NEW l \in Link, l.q # <<>>
    PROVE  /\ Shorter(l) \in Link /\ Shorter(l).q = Tail(l.q)
           /\ Shorter(l).to = l.to /\ Shorter(l).open = l.open
<1>1. l.q \in Seq(Message)
  BY DEF Link
<1>2. Tail(l.q) \in Seq(Message)
  BY <1>1, TailOf
<1>3. Shorter(l) = [l EXCEPT !.q = Tail(l.q)]
  BY DEF Shorter
<1> QED
  BY <1>2, <1>3 DEF Link

\* A slave that has run the command m of the stream.
Applied(r, m) ==
    [r EXCEPT !.moff = @ + 1,
              !.sel = IF m.type = "select" THEN m.db ELSE @,
              !.db = IF m.type = "write" THEN Append(@, [w |-> m.w, db |-> r.sel]) ELSE @]

LEMMA AppliedParts ==
    ASSUME NEW r \in Record, NEW m \in Command
    PROVE  LET q == Applied(r, m) IN
           /\ q \in Record /\ q.moff = r.moff + 1
           /\ q.sel = (IF m.type = "select" THEN m.db ELSE r.sel)
           /\ q.db = (IF m.type = "write" THEN Append(r.db, Entry(m.w, r.sel)) ELSE r.db)
           /\ q.host = r.host /\ q.state = r.state /\ q.id = r.id /\ q.id2 = r.id2 /\ q.off2 = r.off2 /\ q.off = r.off
           /\ q.backlog = r.backlog /\ q.cached = r.cached /\ q.mid = r.mid /\ q.seldb = r.seldb
           /\ q.child = r.child /\ q.file = r.file /\ q.slv = r.slv
<1> DEFINE v == IF m.type = "write" THEN Append(r.db, Entry(m.w, r.sel)) ELSE r.db
           d == IF m.type = "select" THEN m.db ELSE r.sel
           n == r.moff + 1
<1>1. r.db \in Data /\ r.sel \in Db /\ r.moff \in Int
  BY DEF Record
<1>2. d \in Db /\ n \in Int
  BY <1>1 DEF Command
<1>3. v \in Data
  <2>1. ASSUME m.type = "write"
        PROVE  Append(r.db, Entry(m.w, r.sel)) \in Data
    BY <1>1, <2>1 DEF Command, Data, Entry
  <2> QED
    BY <1>1, <2>1
<1>4. Applied(r, m) = [r EXCEPT !.moff = n, !.sel = d, !.db = v]
  BY DEF Applied, Record, Entry
<1> HIDE DEF v, d, n
<1>5. [r EXCEPT !.moff = n, !.sel = d, !.db = v] \in Record
  <2>1. [r EXCEPT !.moff = n] \in Record
    BY <1>2 DEF Record
  <2>2. \A z \in Record : [z EXCEPT !.sel = d] \in Record
    BY <1>2 DEF Record
  <2>3. \A z \in Record : [z EXCEPT !.db = v] \in Record
    BY <1>3 DEF Record
  <2> QED
    BY <2>1, <2>2, <2>3
<1>6. LET q == [r EXCEPT !.moff = n, !.sel = d, !.db = v] IN
      /\ q.moff = n /\ q.sel = d /\ q.db = v
      /\ q.host = r.host /\ q.state = r.state /\ q.id = r.id /\ q.id2 = r.id2 /\ q.off2 = r.off2 /\ q.off = r.off
      /\ q.backlog = r.backlog /\ q.cached = r.cached /\ q.mid = r.mid /\ q.seldb = r.seldb
      /\ q.child = r.child /\ q.file = r.file /\ q.slv = r.slv
  BY DEF Record
<1> QED
  BY <1>4, <1>5, <1>6 DEF v, d, n

LEMMA CommandReads ==
    ASSUME NEW h \in History, HistoryOK(h), NEW r \in Record, RecordOK(h, r), r.state = "connected",
           NEW q \in Seq(Message), q # <<>>, Stream(h, r.id, r.off, q)
    PROVE  /\ q[1] \in Command /\ q[1] = h.cmd[r.id][r.off + 1] /\ Head(q) = q[1]
           /\ Applied(r, q[1]).db = h.val[r.id][r.off + 1]
           /\ SelAt(h, r.id, r.off + 1, Applied(r, q[1]).sel)
           /\ Stream(h, r.id, r.off + 1, Tail(q))
           /\ Stream(h, r.id, r.off, <<q[1]>>)
<1>1. /\ r.id \in 1..h.ids /\ r.id \in Nat /\ r.off \in Nat /\ r.db = h.val[r.id][r.off] /\ SelAt(h, r.id, r.off, r.sel)
      /\ h.len[r.id] \in Nat
  BY HistoryIds DEF RecordOK, RoleOK, Record
<1>2. q[1] = h.cmd[r.id][r.off + 1] /\ r.off < h.len[r.id] /\ Stream(h, r.id, r.off + 1, Tail(q))
  BY <1>1, StreamNext
<1>3. r.off + 1 \in Nat /\ r.off + 1 <= h.len[r.id]
  BY <1>1, <1>2
<1>4. q[1] \in Command /\ Head(q) = q[1]
  BY <1>1, <1>2, <1>3, HistoryType, TailOf
<1>5. Stream(h, r.id, r.off, <<q[1]>>)
  BY <1>1, <1>2, <1>3, StreamOne
<1>6. Follows(h, r.id, r.off)
  BY <1>1, <1>2 DEF HistoryOK
<1> DEFINE c == h.cmd[r.id][r.off + 1]
           a == Applied(r, c)
<1>7. LET z == Applied(r, c) IN
      /\ z.sel = (IF c.type = "select" THEN c.db ELSE r.sel)
      /\ z.db = (IF c.type = "write" THEN Append(r.db, Entry(c.w, r.sel)) ELSE r.db)
  BY <1>2, <1>4, AppliedParts
<1>8. CASE /\ c.type = "select"
           /\ h.val[r.id][r.off + 1] = h.val[r.id][r.off]
           /\ SelAt(h, r.id, r.off + 1, c.db)
  <2> HIDE DEF c
  <2>1. a.sel = c.db /\ a.db = r.db
    BY <1>7, <1>8
  <2> QED
    BY <1>1, <1>2, <1>4, <1>5, <1>8, <2>1 DEF c
<1>9. CASE /\ c.type = "write"
           /\ h.sel[r.id][r.off] # NoDb
           /\ h.val[r.id][r.off + 1] = Append(h.val[r.id][r.off], [w |-> c.w, db |-> h.sel[r.id][r.off]])
           /\ SelAt(h, r.id, r.off + 1, h.sel[r.id][r.off])
  <2>1. h.sel[r.id][r.off] = r.sel
    BY <1>1, <1>9 DEF SelAt
  <2> HIDE DEF c
  <2>2. a.sel = r.sel /\ a.db = Append(r.db, Entry(c.w, r.sel))
    BY <1>7, <1>9
  <2>3. a.db = h.val[r.id][r.off + 1]
    BY <1>1, <1>9, <2>1, <2>2, Zenon DEF Entry
  <2>4. SelAt(h, r.id, r.off + 1, a.sel)
    BY <1>9, <2>1, <2>2, Zenon
  <2> QED
    BY <1>2, <1>4, <1>5, <2>3, <2>4, Zenon DEF c
<1> QED
  BY <1>6, <1>8, <1>9, Zenon DEF Follows

LEMMA ReaderClient ==
    ASSUME NEW h \in History, NEW x, NEW r \in Record, NEW c, NEW rt \in Record, NEW l \in Link, NEW f, NEW n,
           ClientOK(h, x, r, c, rt, l), rt.state = "connected", l.q # <<>>, n = Shorter(l),
           f.state = "connected", f.id = rt.id, f.off = rt.off + 1
    PROVE  ClientOK(h, x, r, c, f, n)
<1>1. n.to = l.to /\ n.open = l.open /\ n.q = Tail(l.q) /\ l.q \in Seq(Message) /\ rt.off \in Nat
  BY ShorterParts DEF Link, Record
<1>2. Len(l.q) \in Nat /\ Len(n.q) = Len(l.q) - 1
  BY <1>1, TailOf
<1>3. c.st # "start" /\ c.st # "ack"
  BY DEF ClientOK, Given
<1>4. c.st # "end"
  <2>1. r.child # None => r.child.type \in {"disk", "socket"}
    BY DEF Record, Child
  <2> QED
    BY <2>1 DEF ClientOK, Given, Awaits
<1>5. ASSUME c.st = "online"
      PROVE  Leads(f, n.q, r.id, r.off)
  <2>1. rt.id = r.id /\ rt.off + Len(l.q) = r.off
    BY <1>5 DEF ClientOK, Leads
  <2>2. \A a, b, d \in Nat : \A e : e = b - 1 => (a + 1) + e = a + b
    OBVIOUS
  <2>3. (rt.off + 1) + Len(n.q) = rt.off + Len(l.q)
    BY <1>1, <1>2, <2>2, Zenon
  <2>4. f.id = r.id /\ f.off + Len(n.q) = r.off
    BY <2>1, <2>3, Zenon
  <2> QED
    BY <2>4 DEF Leads
<1> QED
  BY <1>1, <1>3, <1>4, <1>5 DEF ClientOK

LEMMA ApplyOK ==
    ASSUME NEW h, NEW g, GroupOK(h, g), NEW t \in Server, g.srv[t].state = "connected", g.link[t].q # <<>>
    PROVE  LET m == Head(g.link[t].q)
               k == Feed(PutBoth(g, t, Applied(g.srv[t], m), Shorter(g.link[t])), t, <<m>>)
           IN  GroupOK(h, k) /\ \A x \in Server : k.srv[x].id = g.srv[x].id
<1> DEFINE r == g.srv[t]
           l == g.link[t]
           m == Head(l.q)
           q == Applied(r, m)
           n == Shorter(l)
           f == Fed(q, <<m>>)
<1>1. /\ h \in History /\ HistoryOK(h) /\ r \in Record /\ RecordOK(h, r) /\ l \in Link /\ LinkOK(h, r, l) /\ l.to # t
      /\ l.q \in Seq(Message)
  BY GroupParts DEF Link
<1>2. /\ Stream(h, r.id, r.off, l.q) /\ r.backlog # None /\ r.mid = r.id /\ r.moff = r.off /\ r.cached = None
      /\ r.host # None /\ r.mid \in 0..h.ids /\ r.off \in Nat
  BY <1>1 DEF LinkOK, RecordOK, RoleOK, Record
<1>3. \A x \in Server : /\ g.srv[x] \in Record /\ g.srv[x].slv[t] \in Client
                        /\ ClientOK(h, x, g.srv[x], g.srv[x].slv[t], r, l)
  BY GroupParts
<1>4. /\ m \in Command /\ Applied(r, m).db = h.val[r.id][r.off + 1] /\ SelAt(h, r.id, r.off + 1, Applied(r, m).sel)
      /\ Stream(h, r.id, r.off + 1, Tail(l.q)) /\ Stream(h, r.id, r.off, <<m>>)
  <2>1. /\ l.q[1] \in Command /\ Head(l.q) = l.q[1]
        /\ Applied(r, l.q[1]).db = h.val[r.id][r.off + 1]
        /\ SelAt(h, r.id, r.off + 1, Applied(r, l.q[1]).sel)
        /\ Stream(h, r.id, r.off + 1, Tail(l.q))
        /\ Stream(h, r.id, r.off, <<l.q[1]>>)
    BY <1>1, <1>2, CommandReads
  <2> QED
    BY <2>1
<1>s. r.state = "connected" /\ l.q # <<>>
  OBVIOUS
<1> HIDE DEF m, r, l
<1>5. LET z == Applied(r, m) IN
      /\ z \in Record /\ z.moff = r.moff + 1
      /\ z.host = r.host /\ z.state = r.state /\ z.id = r.id /\ z.id2 = r.id2 /\ z.off2 = r.off2 /\ z.off = r.off
      /\ z.backlog = r.backlog /\ z.cached = r.cached /\ z.mid = r.mid
      /\ z.child = r.child /\ z.file = r.file /\ z.slv = r.slv
  BY <1>1, <1>4, AppliedParts
<1>6. /\ q \in Record /\ q.moff = r.moff + 1
      /\ q.host = r.host /\ q.state = r.state /\ q.id = r.id /\ q.id2 = r.id2 /\ q.off2 = r.off2 /\ q.off = r.off
      /\ q.backlog = r.backlog /\ q.cached = r.cached /\ q.mid = r.mid
      /\ q.child = r.child /\ q.file = r.file /\ q.slv = r.slv
      /\ q.db = h.val[r.id][r.off + 1] /\ SelAt(h, r.id, r.off + 1, q.sel)
  BY <1>4, <1>5
<1>7. n \in Link /\ n.q = Tail(l.q) /\ n.to = l.to /\ n.open = l.open
  BY <1>1, <1>s, ShorterParts
<1> HIDE DEF q, n
<1>8. <<m>> \in Seq(Command) /\ Len(<<m>>) = 1 /\ q.backlog # None
  BY <1>2, <1>4, <1>6
<1>9. LET z == Fed(q, <<m>>) IN
      /\ z.off = q.off + Len(<<m>>) /\ z.host = q.host /\ z.state = q.state /\ z.id = q.id
      /\ z.cached = q.cached /\ z.mid = q.mid /\ z.moff = q.moff /\ z.sel = q.sel
      /\ z.backlog = FedBacklog(q, <<m>>) /\ FedBacklog(q, <<m>>) # None
  BY <1>6, <1>8, FedParts
<1>10. /\ f.off = r.off + 1 /\ f.host = r.host /\ f.state = "connected" /\ f.id = r.id
       /\ f.cached = None /\ f.mid = r.mid /\ f.moff = r.moff + 1 /\ f.sel = q.sel /\ f.backlog # None
  BY <1>s, <1>2, <1>6, <1>8, <1>9
<1> HIDE DEF f
<1>11. RoleOK(h, f)
  BY <1>2, <1>6, <1>10 DEF RoleOK
<1>12. LinkOK(h, f, n)
  BY <1>4, <1>7, <1>10 DEF LinkOK
<1>13. \A x \in Server \ {t} : ClientOK(h, x, g.srv[x], g.srv[x].slv[t], f, n)
  BY <1>s, <1>1, <1>3, <1>10, ReaderClient DEF n
<1>14. \A x \in Server \ {t} : EndKept(h, h, g.srv[x])
  BY DEF EndKept
<1>15. \A I : QueueIn(I, l.q) => QueueIn(I, n.q)
  BY <1>s, <1>1, <1>7, TailIn
<1>16. GrowsOn(Nat, h, h)
  BY <1>1, GrowsSame
<1>17. /\ GroupOK(h, Feed(PutBoth(g, t, q, n), t, <<m>>))
       /\ \A x \in Server : Feed(PutBoth(g, t, q, n), t, <<m>>).srv[x].id = g.srv[x].id
  <2>1. /\ q.id = g.srv[t].id /\ q.id2 = g.srv[t].id2 /\ q.off2 = g.srv[t].off2 /\ q.off = g.srv[t].off
        /\ q.backlog = g.srv[t].backlog /\ q.child = g.srv[t].child /\ q.file = g.srv[t].file
        /\ q.host = g.srv[t].host /\ q.mid = g.srv[t].mid /\ q.slv = g.srv[t].slv
    BY <1>6 DEF r
  <2>2. Stream(h, g.srv[t].id, g.srv[t].off, <<m>>) /\ q.db = h.val[g.srv[t].id][g.srv[t].off + Len(<<m>>)]
    BY <1>4, <1>6, <1>8 DEF r
  <2>3. /\ RoleOK(h, Fed(q, <<m>>)) /\ LinkOK(h, Fed(q, <<m>>), n)
        /\ \A x \in Server \ {t} : /\ EndKept(h, h, g.srv[x])
                                   /\ ClientOK(h, x, g.srv[x], g.srv[x].slv[t], Fed(q, <<m>>), n)
    BY <1>11, <1>12, <1>13, <1>14 DEF f
  <2>4. /\ n \in Link /\ n.to # t /\ g.srv[t].backlog # None
        /\ \A I : QueueIn(I, g.link[t].q) => QueueIn(I, n.q)
    BY <1>1, <1>2, <1>7, <1>15 DEF r, l
  <2>5. HistoryOK(h) /\ GrowsOn(Nat, h, h) /\ q \in Record /\ <<m>> \in Seq(Command) /\ h \in History
    BY <1>1, <1>6, <1>8, <1>16
  <2> DEFINE e == <<m>>
  <2> HIDE DEF e
  <2>6. /\ GroupOK(h, Feed(PutBoth(g, t, q, n), t, e))
        /\ \A x \in Server : Feed(PutBoth(g, t, q, n), t, e).srv[x].id = g.srv[x].id
    <3>1. /\ Stream(h, g.srv[t].id, g.srv[t].off, e) /\ q.db = h.val[g.srv[t].id][g.srv[t].off + Len(e)]
          /\ RoleOK(h, Fed(q, e)) /\ LinkOK(h, Fed(q, e), n) /\ e \in Seq(Command)
          /\ \A x \in Server \ {t} : /\ EndKept(h, h, g.srv[x])
                                     /\ ClientOK(h, x, g.srv[x], g.srv[x].slv[t], Fed(q, e), n)
      BY <2>2, <2>3, <2>5 DEF e
    <3>2. GroupOK(h, g) /\ t \in Server
      OBVIOUS
    <3> HIDE DEF q, n, m, f, r, l
    <3>3. Feeds(h, h, g, t, q, n, e)
      BY <2>1, <2>4, <2>5, <3>1, <3>2, Zenon DEF Feeds
    <3> QED
      BY <3>3, FeedOK
  <2> QED
    BY <2>6 DEF e
<1> QED
  BY <1>17 DEF q, n, m, r, l

LEMMA ReaderOK ==
    ASSUME NEW h, NEW b, GroupOK(h, b), NEW t \in Server, NEW q \in Record, NEW l \in Link, l.to # t,
           q.host = b.srv[t].host, q.host # None, RecordOK(h, q), LinkOK(h, q, l), ~Alone(q),
           \A i \in 1..h.ids : NamedIn(Others(i), b.srv[t], b.link[t]) => NamedIn(Others(i), q, l),
           \A x \in Server \ {t} : /\ ClientOK(h, t, q, q.slv[x], b.srv[x], b.link[x])
                                   /\ ClientOK(h, x, b.srv[x], b.srv[x].slv[t], q, l),
           q.slv[t].st = "none"
    PROVE  GroupOK(h, PutBoth(b, t, q, l))
<1> DEFINE k == PutBoth(b, t, q, l)
<1>1. Typed(b) /\ b.srv[t].host # t /\ \A x \in Server : RecordOK(h, b.srv[x])
  BY GroupParts DEF GroupOK
<1>2. /\ Typed(k) /\ k.srv[t] = q /\ k.link[t] = l
      /\ \A x \in Server \ {t} : k.srv[x] = b.srv[x] /\ k.link[x] = b.link[x]
  BY <1>1, PutBothParts
<1> HIDE DEF k
<1>3. Beside(b, k, t)
  BY <1>2, TwinSame DEF Beside
<1>4. ASSUME NEW x \in Server \ {t}
      PROVE  Apart(q, b.srv[x], b.link[x]) /\ Apart(b.srv[x], q, l)
  <2>1. Apart(q, b.srv[x], b.link[x])
    BY DEF Apart
  <2>2. Apart(b.srv[x], b.srv[t], b.link[t])
    BY <1>4, GroupParts
  <2>3. b.srv[x].id \in 1..h.ids
    BY <1>1, <1>4 DEF RecordOK
  <2> QED
    BY <2>1, <2>2, <2>3, ApartTo
<1>5. OwnOK(q)
  BY DEF OwnOK, Private
<1>6. ActorOK(h, k, t)
  BY <1>2, <1>4, <1>5 DEF ActorOK
<1> QED
  BY <1>2, <1>3, <1>6, Alter DEF k

\* What a client becomes when its slave has read the answer, or the payload.
LEMMA AnswerClient ==
    ASSUME NEW h, NEW x, NEW r \in Record, NEW c, NEW rt \in Record, NEW l \in Link, NEW f, NEW n,
           ClientOK(h, x, r, c, rt, l), rt.state = "psync", l.q # <<>>, n = Shorter(l),
           \/ l.q[1].type = "fullresync" /\ f.state = "transfer" /\ f.mid = l.q[1].id /\ f.moff = l.q[1].off
           \/ l.q[1].type = "continue" /\ f.state = "connected" /\ f.id = l.q[1].id /\ f.off = rt.off
           \/ l.q[1].type = "error"
    PROVE  ClientOK(h, x, r, c, f, n)
<1>1. n.to = l.to /\ n.open = l.open /\ n.q = Tail(l.q) /\ l.q \in Seq(Message) /\ rt.off \in Nat
  BY ShorterParts DEF Link, Record
<1>2. Len(l.q) \in Nat /\ Len(l.q) >= 1 /\ Len(n.q) = Len(l.q) - 1 /\ l.q[1] \in Message /\ n.q \in Seq(Message)
  BY <1>1, TailOf
<1>3. l.q[1].type = "fullresync" => l.q[1].off \in Nat
  BY <1>2 DEF Message, Command
<1>a. /\ Len(n.q) = 0 => n.q = <<>>
      /\ \A a \in Nat : a >= 1 => (a - 1 = 0 <=> a = 1) /\ (a - 1 = 1 <=> a = 2) /\ (a - 1 >= 1 <=> a >= 2)
      /\ n.q = <<>> => Len(n.q) = 0
  <2>1. \A q \in Seq(Message) : Len(q) = 0 <=> q = <<>>
    OBVIOUS
  <2>2. \A a \in Nat : a >= 1 => (a - 1 = 0 <=> a = 1) /\ (a - 1 = 1 <=> a = 2) /\ (a - 1 >= 1 <=> a >= 2)
    OBVIOUS
  <2> QED
    BY <1>2, <2>1, <2>2, Zenon
<1>4. c.st # "start"
  BY DEF ClientOK
<1>5. \A i, k : Awaits(rt, l.q, i, k) => Awaits(f, n.q, i, k)
  <2> SUFFICES ASSUME NEW i, NEW k, Awaits(rt, l.q, i, k)
               PROVE  Awaits(f, n.q, i, k)
    OBVIOUS
  <2>1. Len(l.q) = 1 /\ l.q[1].type = "fullresync" /\ l.q[1].id = i /\ l.q[1].off = k
    BY DEF Awaits
  <2>2. n.q = <<>>
    BY <1>2, <1>a, <2>1
  <2> QED
    BY <2>1, <2>2 DEF Awaits
<1>6. \A i, k : Given(rt, l.q, i, k) => Given(f, n.q, i, k)
  <2> SUFFICES ASSUME NEW i, NEW k, Given(rt, l.q, i, k)
               PROVE  Given(f, n.q, i, k)
    OBVIOUS
  <2>1. Len(l.q) = 2 /\ l.q[1].type = "fullresync" /\ l.q[1].id = i /\ l.q[1].off = k
    BY DEF Given
  <2>2. Len(n.q) = 1
    BY <1>2, <1>a, <2>1
  <2> QED
    BY <2>1, <2>2 DEF Given
<1>7. \A i, k : Leads(rt, l.q, i, k) => Leads(f, n.q, i, k)
  <2> SUFFICES ASSUME NEW i, NEW k, Leads(rt, l.q, i, k)
               PROVE  Leads(f, n.q, i, k)
    OBVIOUS
  <2>1. CASE Len(l.q) >= 2 /\ l.q[1].type = "fullresync" /\ l.q[1].id = i /\ l.q[1].off + Len(l.q) - 2 = k
    <3>1. \A a, d \in Nat : a + (d - 1) - 1 = a + d - 2
      OBVIOUS
    <3>2. l.q[1].off + Len(n.q) - 1 = k
      BY <1>2, <1>3, <2>1, <3>1, Zenon
    <3>3. n.q # <<>>
      BY <1>2, <1>a, <2>1
    <3> QED
      BY <2>1, <3>2, <3>3 DEF Leads
  <2>2. CASE l.q[1].type = "continue" /\ l.q[1].id = i /\ rt.off + Len(l.q) - 1 = k
    <3>1. \A a, d \in Nat : a + (d - 1) = a + d - 1
      OBVIOUS
    <3>2. rt.off + Len(n.q) = k
      BY <1>1, <1>2, <2>2, <3>1, Zenon
    <3> QED
      BY <2>2, <3>2 DEF Leads
  <2> QED
    BY <2>1, <2>2 DEF Leads
<1> QED
  BY <1>1, <1>4, <1>5, <1>6, <1>7 DEF ClientOK

LEMMA PayloadClient ==
    ASSUME NEW h, NEW x, NEW r \in Record, NEW c, NEW rt \in Record, NEW l \in Link, NEW f, NEW n,
           ClientOK(h, x, r, c, rt, l), rt.state = "transfer", l.q # <<>>, n = Shorter(l),
           f.state = "connected", f.id = rt.mid, f.off = rt.moff
    PROVE  ClientOK(h, x, r, c, f, n)
<1>1. n.to = l.to /\ n.open = l.open /\ n.q = Tail(l.q) /\ l.q \in Seq(Message) /\ rt.moff \in Int
  BY ShorterParts DEF Link, Record
<1>2. Len(l.q) \in Nat /\ Len(l.q) >= 1 /\ Len(n.q) = Len(l.q) - 1 /\ n.q \in Seq(Message)
  BY <1>1, TailOf
<1>3. Len(l.q) = 1 => n.q = <<>>
  BY <1>2
<1>4. c.st # "start"
  BY DEF ClientOK
<1>5. \A i, k : ~Awaits(rt, l.q, i, k)
  BY DEF Awaits
<1>6. \A i, k : Given(rt, l.q, i, k) => Given(f, n.q, i, k)
  BY <1>3 DEF Given
<1>7. \A i, k : Leads(rt, l.q, i, k) => Leads(f, n.q, i, k)
  <2> SUFFICES ASSUME NEW i, NEW k, Leads(rt, l.q, i, k)
               PROVE  Leads(f, n.q, i, k)
    OBVIOUS
  <2>1. rt.mid = i /\ rt.moff + Len(l.q) - 1 = k
    BY DEF Leads
  <2>2. \A a \in Int : \A d \in Nat : a + (d - 1) = a + d - 1
    OBVIOUS
  <2>3. rt.moff + Len(n.q) = k
    BY <1>1, <1>2, <2>1, <2>2, Zenon
  <2> QED
    BY <2>1, <2>3 DEF Leads
<1> QED
  BY <1>1, <1>4, <1>5, <1>6, <1>7 DEF ClientOK

\* A slave that has read +FULLRESYNC.
Begun(r, id, off) ==
    [r EXCEPT !.cached = None, !.backlog = None, !.mid = id, !.moff = off, !.state = "transfer"]

LEMMA BegunParts ==
    ASSUME NEW r \in Record, NEW id \in Nat, NEW off \in Int
    PROVE  LET q == Begun(r, id, off) IN
           /\ q \in Record /\ q.cached = None /\ q.backlog = None /\ q.mid = id /\ q.moff = off /\ q.state = "transfer"
           /\ q.host = r.host /\ q.id = r.id /\ q.id2 = r.id2 /\ q.off2 = r.off2 /\ q.off = r.off
           /\ q.db = r.db /\ q.seldb = r.seldb /\ q.sel = r.sel /\ q.child = r.child /\ q.file = r.file
           /\ q.slv = r.slv
<1>1. /\ \A z \in Record : [z EXCEPT !.cached = None] \in Record
      /\ \A z \in Record : [z EXCEPT !.backlog = None] \in Record
      /\ \A z \in Record : [z EXCEPT !.mid = id] \in Record
      /\ \A z \in Record : [z EXCEPT !.moff = off] \in Record
      /\ \A z \in Record : [z EXCEPT !.state = "transfer"] \in Record
  <2>1. \A z \in Record : [z EXCEPT !.cached = None] \in Record
    BY DEF Record
  <2>2. \A z \in Record : [z EXCEPT !.backlog = None] \in Record
    BY DEF Record
  <2>3. \A z \in Record : [z EXCEPT !.mid = id] \in Record
    BY DEF Record
  <2>4. \A z \in Record : [z EXCEPT !.moff = off] \in Record
    BY DEF Record
  <2>5. \A z \in Record : [z EXCEPT !.state = "transfer"] \in Record
    BY DEF Record
  <2> QED
    BY <2>1, <2>2, <2>3, <2>4, <2>5
<1>2. Begun(r, id, off) \in Record
  BY <1>1 DEF Begun
<1>3. LET q == Begun(r, id, off) IN
      /\ q.cached = None /\ q.backlog = None /\ q.mid = id /\ q.moff = off /\ q.state = "transfer"
      /\ q.host = r.host /\ q.id = r.id /\ q.id2 = r.id2 /\ q.off2 = r.off2 /\ q.off = r.off
      /\ q.db = r.db /\ q.seldb = r.seldb /\ q.sel = r.sel /\ q.child = r.child /\ q.file = r.file
      /\ q.slv = r.slv
  BY DEF Begun, Record
<1> QED
  BY <1>2, <1>3

\* b: a slave that waits for the answer to its PSYNC and has no slaves itself.
LEMMA BegunOK ==
    ASSUME NEW h, NEW b, GroupOK(h, b), NEW t \in Server, b.srv[t].state = "psync", b.link[t].q # <<>>,
           \A x \in Server : b.srv[t].slv[x].st = "none", NEW id \in Nat, NEW off \in Int,
           \/ b.link[t].q[1].type = "fullresync" /\ id = b.link[t].q[1].id /\ off = b.link[t].q[1].off
           \/ b.link[t].q[1].type = "error" /\ id = b.srv[t].mid
    PROVE  GroupOK(h, PutBoth(b, t, Begun(b.srv[t], id, off), Shorter(b.link[t])))
<1> DEFINE r == b.srv[t]
           l == b.link[t]
           q == Begun(r, id, off)
           n == Shorter(l)
<1>1. /\ h \in History /\ HistoryOK(h) /\ r \in Record /\ RecordOK(h, r) /\ l \in Link /\ LinkOK(h, r, l) /\ l.to # t
      /\ l.q \in Seq(Message) /\ h.ids \in Nat
  BY GroupParts DEF Link
<1>2. /\ q \in Record /\ q.cached = None /\ q.backlog = None /\ q.mid = id /\ q.moff = off /\ q.state = "transfer"
      /\ q.host = r.host /\ q.id = r.id /\ q.id2 = r.id2 /\ q.off2 = r.off2 /\ q.off = r.off
      /\ q.db = r.db /\ q.seldb = r.seldb /\ q.sel = r.sel /\ q.child = r.child /\ q.file = r.file
      /\ q.slv = r.slv
  BY <1>1, BegunParts
<1>3. n \in Link /\ n.q = Tail(l.q) /\ n.to = l.to /\ n.open = l.open
  BY <1>1, ShorterParts
<1> HIDE DEF q, n
<1>4. r.host # None /\ r.mid \in 0..h.ids /\ r.off \in Nat
  BY <1>1 DEF RecordOK, RoleOK, Record
<1>5. ReplyOK(h, r, l.q)
  BY <1>1 DEF LinkOK
<1>6. id \in 0..h.ids /\ PayloadOK(h, id, off, n.q)
  <2>1. CASE l.q[1].type = "fullresync" /\ id = l.q[1].id /\ off = l.q[1].off
    BY <1>3, <1>5, <2>1 DEF ReplyOK
  <2>2. CASE l.q[1].type = "error" /\ id = r.mid
    <3>1. Len(l.q) = 1
      BY <1>5, <2>2 DEF ReplyOK
    <3>2. Len(Tail(l.q)) = Len(l.q) - 1 /\ Tail(l.q) \in Seq(Message)
      BY <1>1, TailOf
    <3>a. 1 - 1 = 0 /\ \A z \in Seq(Message) : Len(z) = 0 => z = <<>>
      OBVIOUS
    <3>3. n.q = <<>>
      BY <1>3, <3>1, <3>2, <3>a, Zenon
    <3> QED
      BY <1>4, <2>2, <3>3 DEF PayloadOK
  <2> QED
    BY <2>1, <2>2
<1>7. RecordOK(h, q)
  <2>1. RoleOK(h, q)
    BY <1>2, <1>4, <1>6 DEF RoleOK
  <2>2. SecondOK(h, q)
    BY <1>1, <1>2 DEF RecordOK, SecondOK
  <2>3. FilesOK(h, q)
    BY <1>1, <1>2 DEF RecordOK, FilesOK
  <2> QED
    BY <1>1, <1>2, <2>1, <2>2, <2>3 DEF RecordOK
<1>8. LinkOK(h, q, n)
  BY <1>2, <1>6 DEF LinkOK
<1>9. ~Alone(q)
  BY <1>2, <1>4 DEF Alone
<1>10. ASSUME NEW i \in 1..h.ids, NamedIn(Others(i), r, l)
       PROVE  NamedIn(Others(i), q, n)
  <2>1. QueueIn(Others(i), n.q) /\ Names(l.q[1]) \in Others(i)
    BY <1>1, <1>3, <1>10, TailIn DEF NamedIn
  <2>2. id \in Others(i)
    BY <1>10, <2>1 DEF NamedIn, Names
  <2> QED
    BY <1>2, <1>10, <2>1, <2>2 DEF NamedIn, FilesIn
<1>11. ASSUME NEW x \in Server \ {t}
       PROVE  /\ ClientOK(h, t, q, q.slv[x], b.srv[x], b.link[x])
              /\ ClientOK(h, x, b.srv[x], b.srv[x].slv[t], q, n)
  <2>1. ClientOK(h, t, q, q.slv[x], b.srv[x], b.link[x])
    BY <1>2, <1>11, NoneOK
  <2>2. ClientOK(h, x, b.srv[x], b.srv[x].slv[t], r, l) /\ b.srv[x] \in Record
    BY <1>11, GroupParts
  <2>3. ClientOK(h, x, b.srv[x], b.srv[x].slv[t], q, n)
    BY <1>1, <1>2, <2>2, AnswerClient DEF n
  <2> QED
    BY <2>1, <2>3
<1>12. q.slv[t].st = "none"
  BY <1>2
<1>13. GroupOK(h, PutBoth(b, t, q, n))
  BY <1>1, <1>2, <1>3, <1>4, <1>7, <1>8, <1>9, <1>10, <1>11, <1>12, ReaderOK
<1> QED
  BY <1>13 DEF q, n

\* Server a gets the connection l.
PutLink(g, a, l) == [srv |-> g.srv, link |-> [g.link EXCEPT ![a] = l]]

LEMMA PutLinkParts ==
    ASSUME NEW g, Typed(g), NEW a \in Server, NEW l \in Link, l.to # a
    PROVE  /\ Typed(PutLink(g, a, l)) /\ PutLink(g, a, l).srv = g.srv /\ PutLink(g, a, l).link[a] = l
           /\ \A x \in Server \ {a} : PutLink(g, a, l).link[x] = g.link[x]
           /\ \A q : Put(PutLink(g, a, l), a, q) = PutBoth(g, a, q, l)
           /\ PutLink(g, a, l) = [srv |-> PutLink(g, a, l).srv, link |-> PutLink(g, a, l).link]
<1>1. /\ g.srv \in [Server -> Record] /\ g.link \in [Server -> Link]
      /\ \A s \in Server : g.srv[s].host # s /\ g.link[s].to # s
  BY DEF Typed
<1> DEFINE k == PutLink(g, a, l)
<1>2. k.srv = g.srv /\ k.link = [g.link EXCEPT ![a] = l] /\ k = [srv |-> k.srv, link |-> k.link]
  BY DEF PutLink
<1>3. \A q : Put(k, a, q) = PutBoth(g, a, q, l)
  BY <1>2 DEF Put, PutBoth
<1> HIDE DEF k
<1>4. k.link \in [Server -> Link] /\ k.link[a] = l /\ \A x \in Server \ {a} : k.link[x] = g.link[x]
  BY <1>1, <1>2
<1>5. Typed(k)
  BY <1>1, <1>2, <1>4 DEF Typed
<1> QED
  BY <1>2, <1>3, <1>4, <1>5 DEF k

LEMMA ReadIs ==
    ASSUME NEW g, Typed(g), NEW t \in Server
    PROVE  [g EXCEPT !.link[t].q = Tail(@)] = PutLink(g, t, Shorter(g.link[t]))
<1>1. g = [srv |-> g.srv, link |-> g.link]
  BY DEF Typed
<1>2. \A z : [g EXCEPT !.link = z] = [srv |-> g.srv, link |-> z]
  BY <1>1
<1>3. [g EXCEPT !.link[t].q = Tail(@)] = [g EXCEPT !.link = [g.link EXCEPT ![t] = Shorter(g.link[t])]]
  BY DEF Shorter
<1> QED
  BY <1>2, <1>3 DEF PutLink

\* Reading from a socket and closing the slaves: the order does not matter.
LEMMA CloseAfterRead ==
    ASSUME NEW g, Typed(g), NEW t \in Server, NEW n \in Link, n.to # t, NEW T
    PROVE  /\ CloseSlaves(PutLink(g, t, n), t, T) = PutLink(CloseSlaves(g, t, T), t, n)
           /\ CloseSlaves(g, t, T).link[t] = g.link[t]
<1>1. /\ g.srv \in [Server -> Record] /\ g.link \in [Server -> Link] /\ g.link[t].to # t
  BY DEF Typed
<1> DEFINE e == [g.link EXCEPT ![t] = n]
           cl(l) == IF l.to = t THEN [l EXCEPT !.open = FALSE] ELSE l
           u == [x \in Server |-> IF x \in T /\ e[x].to = t THEN [e[x] EXCEPT !.open = FALSE] ELSE e[x]]
           v == [x \in Server |-> IF x \in T /\ g.link[x].to = t THEN [g.link[x] EXCEPT !.open = FALSE] ELSE g.link[x]]
           s == [g.srv EXCEPT ![t].slv = [x \in Server |-> IF x \in T THEN NoClient ELSE g.srv[t].slv[x]]]
<1>2. CloseSlaves(PutLink(g, t, n), t, T) = [srv |-> s, link |-> u]
  BY DEF CloseSlaves, PutLink
<1>3. CloseSlaves(g, t, T) = [srv |-> s, link |-> v]
  BY DEF CloseSlaves
<1>4. e[t] = n /\ \A x \in Server \ {t} : e[x] = g.link[x]
  BY <1>1
<1> HIDE DEF e, s
<1>5. u[t] = n /\ v[t] = g.link[t]
  BY <1>1, <1>4
<1>6. ASSUME NEW x \in Server \ {t}
      PROVE  u[x] = v[x]
  BY <1>4, <1>6
<1>7. u = [x \in Server |-> u[x]] /\ v = [x \in Server |-> v[x]]
  OBVIOUS
<1> HIDE DEF u, v
<1>8. u = [v EXCEPT ![t] = n]
  BY <1>5, <1>6, <1>7
<1>9. PutLink(CloseSlaves(g, t, T), t, n) = [srv |-> s, link |-> [v EXCEPT ![t] = n]]
  BY <1>3 DEF PutLink
<1> QED
  BY <1>2, <1>3, <1>5, <1>8, <1>9

LEMMA BeginTransferIs ==
    ASSUME NEW h, NEW g, GroupOK(h, g), NEW t \in Server, g.link[t].q # <<>>, NEW id, NEW off
    PROVE  LET d == DisconnectSlaves(g, t) IN
           BeginTransfer([g EXCEPT !.link[t].q = Tail(@)], t, id, off)
              = PutBoth(d, t, Begun(d.srv[t], id, off), Shorter(d.link[t]))
<1> DEFINE d == DisconnectSlaves(g, t)
           n == Shorter(g.link[t])
           e == PutLink(d, t, n)
<1>1. Typed(g) /\ g.link[t] \in Link /\ g.link[t].to # t
  BY GroupParts DEF GroupOK
<1>2. n \in Link /\ n.to # t
  BY <1>1, ShorterParts
<1>3. [g EXCEPT !.link[t].q = Tail(@)] = PutLink(g, t, n)
  BY <1>1, ReadIs
<1> HIDE DEF n
<1>4. DisconnectSlaves(PutLink(g, t, n), t) = e /\ d.link[t] = g.link[t]
  BY <1>1, <1>2, CloseAfterRead DEF DisconnectSlaves
<1>5. Typed(d)
  BY <1>1, CloseSlavesParts DEF DisconnectSlaves
<1> HIDE DEF d
<1>6. /\ e = [srv |-> e.srv, link |-> e.link] /\ e.srv = d.srv
      /\ \A q : Put(e, t, q) = PutBoth(d, t, q, n)
  BY <1>2, <1>5, PutLinkParts
<1> HIDE DEF e
<1>7. BeginTransfer(PutLink(g, t, n), t, id, off) = [e EXCEPT !.srv[t] = Begun(e.srv[t], id, off)]
  BY <1>4 DEF BeginTransfer, Begun
<1>8. [e EXCEPT !.srv[t] = Begun(e.srv[t], id, off)] = Put(e, t, Begun(e.srv[t], id, off))
  BY <1>6, PutOne
<1> QED
  BY <1>3, <1>4, <1>6, <1>7, <1>8 DEF d, n

LEMMA BeginTransferOK ==
    ASSUME NEW h, NEW g, GroupOK(h, g), NEW t \in Server, g.srv[t].state = "psync", g.link[t].q # <<>>,
           NEW id, NEW off \in Int,
           \/ g.link[t].q[1].type = "fullresync" /\ id = g.link[t].q[1].id /\ off = g.link[t].q[1].off
           \/ g.link[t].q[1].type = "error" /\ id = g.srv[t].mid
    PROVE  LET k == BeginTransfer([g EXCEPT !.link[t].q = Tail(@)], t, id, off) IN
           GroupOK(h, k) /\ \A x \in Server : k.srv[x].id = g.srv[x].id
<1> DEFINE d == DisconnectSlaves(g, t)
<1>1. GroupOK(h, d) /\ Typed(g) /\ g.link[t] \in Link /\ g.srv[t] \in Record
  BY CloseSlavesOK, GroupParts DEF DisconnectSlaves, GroupOK
<1>2. /\ \A x \in Server : Twin(g.srv[x], d.srv[x])
      /\ \A x \in Server : d.srv[t].slv[x] = NoClient
      /\ d.link[t].q = g.link[t].q
  BY <1>1, CloseSlavesParts DEF DisconnectSlaves
<1> HIDE DEF d
<1>3. id \in Nat
  <2>1. g.link[t].q[1] \in Message
    BY <1>1, TailOf DEF Link
  <2> QED
    BY <1>1, <2>1 DEF Message, Command, Record
<1>4. d.srv[t].state = "psync" /\ d.srv[t].mid = g.srv[t].mid /\ \A x \in Server : d.srv[t].slv[x].st = "none"
  BY <1>2, ClientTypes DEF Twin
<1>5. GroupOK(h, PutBoth(d, t, Begun(d.srv[t], id, off), Shorter(d.link[t])))
  BY <1>1, <1>2, <1>3, <1>4, BegunOK
<1>6. \A x \in Server : PutBoth(d, t, Begun(d.srv[t], id, off), Shorter(d.link[t])).srv[x].id = g.srv[x].id
  <2>1. Typed(d) /\ d.srv[t] \in Record /\ d.link[t] \in Link /\ d.srv[t].host # t /\ d.link[t].to # t /\ d.link[t].q # <<>>
    BY <1>1, <1>2, GroupParts DEF GroupOK
  <2>2. Begun(d.srv[t], id, off) \in Record /\ Begun(d.srv[t], id, off).host = d.srv[t].host
        /\ Begun(d.srv[t], id, off).id = d.srv[t].id
    BY <1>3, <2>1, BegunParts
  <2>3. Shorter(d.link[t]) \in Link /\ Shorter(d.link[t]).to # t
    BY <2>1, ShorterParts
  <2>4. PutBoth(d, t, Begun(d.srv[t], id, off), Shorter(d.link[t])).srv[t] = Begun(d.srv[t], id, off)
        /\ \A x \in Server \ {t} : PutBoth(d, t, Begun(d.srv[t], id, off), Shorter(d.link[t])).srv[x] = d.srv[x]
    BY <2>1, <2>2, <2>3, PutBothParts
  <2> QED
    BY <1>2, <2>2, <2>4 DEF Twin
<1>7. BeginTransfer([g EXCEPT !.link[t].q = Tail(@)], t, id, off)
         = PutBoth(d, t, Begun(d.srv[t], id, off), Shorter(d.link[t]))
  BY BeginTransferIs DEF d
<1> QED
  BY <1>5, <1>6, <1>7

\* A slave that has read +CONTINUE with id, when c is its cached master and off its offset.
Resynced(z, c, off, id) ==
    [z EXCEPT !.id2 = IF id # c.id THEN c.id ELSE z.id2, !.off2 = IF id # c.id THEN off + 1 ELSE z.off2,
              !.id = IF id # c.id THEN id ELSE z.id,
              !.mid = id, !.moff = c.off, !.sel = c.sel, !.cached = None, !.state = "connected"]

Continued(z, c, off, id) ==
    IF z.backlog = None THEN [Resynced(z, c, off, id) EXCEPT !.backlog = <<>>] ELSE Resynced(z, c, off, id)

\* What that makes of z.
Continues(z, c, off, id, q) ==
    /\ q \in Record
    /\ id # c.id => q.id2 = c.id /\ q.off2 = off + 1 /\ q.id = id
    /\ id = c.id => q.id2 = z.id2 /\ q.off2 = z.off2 /\ q.id = z.id
    /\ q.mid = id /\ q.moff = c.off /\ q.sel = c.sel /\ q.cached = None /\ q.state = "connected"
    /\ q.host = z.host /\ q.off = z.off /\ q.db = z.db /\ q.seldb = z.seldb
    /\ q.child = z.child /\ q.file = z.file /\ q.slv = z.slv

LEMMA ResyncedParts ==
    ASSUME NEW z \in Record, NEW c, c.id \in Nat, c.off \in Nat, c.sel \in Db,
           NEW off \in Nat, NEW id \in Nat
    PROVE  /\ Continues(z, c, off, id, Resynced(z, c, off, id))
           /\ Resynced(z, c, off, id).backlog = z.backlog
<1> DEFINE i2 == IF id # c.id THEN c.id ELSE z.id2
           o2 == IF id # c.id THEN off + 1 ELSE z.off2
           i1 == IF id # c.id THEN id ELSE z.id
           mo == c.off
           se == c.sel
<1>1. i2 \in Nat /\ o2 \in Int /\ i1 \in Nat /\ mo \in Int /\ se \in Db
  BY DEF Record
<1>2. Resynced(z, c, off, id) = [z EXCEPT !.id2 = i2, !.off2 = o2, !.id = i1, !.mid = id, !.moff = mo, !.sel = se,
                                          !.cached = None, !.state = "connected"]
  BY DEF Resynced
<1> DEFINE w == [z EXCEPT !.id2 = i2, !.off2 = o2, !.id = i1, !.mid = id, !.moff = mo, !.sel = se,
                          !.cached = None, !.state = "connected"]
<1> HIDE DEF i2, o2, i1, mo, se
<1>3. w \in Record
  <2>1. \A y \in Record : [y EXCEPT !.id2 = i2] \in Record
    BY <1>1 DEF Record
  <2>2. \A y \in Record : [y EXCEPT !.off2 = o2] \in Record
    BY <1>1 DEF Record
  <2>3. \A y \in Record : [y EXCEPT !.id = i1] \in Record
    BY <1>1 DEF Record
  <2>4. \A y \in Record : [y EXCEPT !.mid = id] \in Record
    BY <1>1 DEF Record
  <2>5. \A y \in Record : [y EXCEPT !.moff = mo] \in Record
    BY <1>1 DEF Record
  <2>6. \A y \in Record : [y EXCEPT !.sel = se] \in Record
    BY <1>1 DEF Record
  <2>7. \A y \in Record : [y EXCEPT !.cached = None] \in Record
    BY <1>1 DEF Record
  <2>8. \A y \in Record : [y EXCEPT !.state = "connected"] \in Record
    BY <1>1 DEF Record
  <2> QED
    BY <2>1, <2>2, <2>3, <2>4, <2>5, <2>6, <2>7, <2>8
<1>4. /\ w.id2 = i2 /\ w.off2 = o2 /\ w.id = i1 /\ w.mid = id /\ w.moff = mo /\ w.sel = se
      /\ w.cached = None /\ w.state = "connected" /\ w.host = z.host /\ w.off = z.off /\ w.backlog = z.backlog
      /\ w.db = z.db /\ w.seldb = z.seldb /\ w.child = z.child /\ w.file = z.file /\ w.slv = z.slv
  BY DEF Record
<1> HIDE DEF w
<1>5. Resynced(z, c, off, id) = w
  BY <1>2 DEF w
<1> QED
  <2>1. Continues(z, c, off, id, w) /\ w.backlog = z.backlog
    BY <1>3, <1>4 DEF i2, o2, i1, mo, se, Continues
  <2> QED
    BY <1>5, <2>1

LEMMA ContinuedParts ==
    ASSUME NEW z \in Record, NEW c, c.id \in Nat, c.off \in Nat, c.sel \in Db,
           NEW off \in Nat, NEW id \in Nat
    PROVE  /\ Continues(z, c, off, id, Continued(z, c, off, id))
           /\ Continued(z, c, off, id).backlog = IF z.backlog = None THEN <<>> ELSE z.backlog
<1> DEFINE e == Resynced(z, c, off, id)
           q == Continued(z, c, off, id)
<1>1. Continues(z, c, off, id, e) /\ e.backlog = z.backlog
  BY ResyncedParts
<1>2. q = IF z.backlog = None THEN [e EXCEPT !.backlog = <<>>] ELSE e
  BY DEF Continued
<1> HIDE DEF e, q
<1>3. <<>> \in Seq(Command)
  OBVIOUS
<1>4. \A y \in Record : [y EXCEPT !.backlog = <<>>] \in Record
  BY <1>3 DEF Record
<1>5. e \in Record
  BY <1>1 DEF Continues
<1>6. q \in Record
  BY <1>2, <1>4, <1>5
<1>7. /\ q.backlog = (IF z.backlog = None THEN <<>> ELSE z.backlog)
      /\ q.id2 = e.id2 /\ q.off2 = e.off2 /\ q.id = e.id /\ q.mid = e.mid /\ q.moff = e.moff /\ q.sel = e.sel
      /\ q.cached = e.cached /\ q.state = e.state /\ q.host = e.host /\ q.off = e.off
      /\ q.db = e.db /\ q.seldb = e.seldb /\ q.child = e.child /\ q.file = e.file /\ q.slv = e.slv
  BY <1>1, <1>2, <1>5 DEF Record
<1>8. Continues(z, c, off, id, q)
  BY <1>1, <1>6, <1>7 DEF Continues
<1> QED
  BY <1>7, <1>8 DEF q

\* Two histories that agree up to k have the same data there.
LEMMA AgreeAt ==
    ASSUME NEW h, NEW i, NEW j, NEW k, Agree(h, i, j, k)
    PROVE  /\ k \in Nat /\ k <= h.len[i] /\ k <= h.len[j] /\ h.val[j][k] = h.val[i][k]
           /\ h.sel[j][k] = NoDb \/ h.sel[j][k] = h.sel[i][k]
<1>1. k \in Nat
  BY DEF Agree
<1>2. k <= k
  BY <1>1
<1> QED
  BY <1>1, <1>2 DEF Agree

LEMMA ContinuedOK ==
    ASSUME NEW h, NEW b, GroupOK(h, b), NEW t \in Server, b.srv[t].state = "psync", b.link[t].q # <<>>,
           b.link[t].q[1].type = "continue", NEW id, id = b.link[t].q[1].id,
           id = b.srv[t].cached.id \/ \A x \in Server : b.srv[t].slv[x].st = "none"
    PROVE  GroupOK(h, PutBoth(b, t, Continued(b.srv[t], b.srv[t].cached, b.srv[t].off, id), Shorter(b.link[t])))
<1> DEFINE r == b.srv[t]
           l == b.link[t]
           c == r.cached
           q == Continued(r, c, r.off, id)
           n == Shorter(l)
<1>1. /\ h \in History /\ HistoryOK(h) /\ r \in Record /\ RecordOK(h, r) /\ l \in Link /\ LinkOK(h, r, l) /\ l.to # t
      /\ l.q \in Seq(Message) /\ h.ids \in Nat
  BY GroupParts DEF Link
<1>2. ReplyOK(h, r, l.q) /\ l.q[1].type = "continue" /\ id = l.q[1].id
  BY <1>1 DEF LinkOK
<1>3. /\ id \in 1..h.ids /\ c # None /\ ~Alone(r)
      /\ id = r.id \/ Agree(h, r.id, id, r.off)
      /\ Stream(h, id, r.off, Tail(l.q))
  BY <1>2 DEF ReplyOK
<1>4. /\ r.host # None /\ r.off \in Nat /\ r.id \in 1..h.ids /\ r.off <= h.len[r.id] /\ r.db = h.val[r.id][r.off]
      /\ c.id = r.id /\ c.off = r.off /\ SelAt(h, r.id, r.off, c.sel) /\ id \in Nat /\ r.id \in Nat
  <2>1. r.id \in 1..h.ids /\ r.off <= h.len[r.id] /\ r.db = h.val[r.id][r.off] /\ RoleOK(h, r)
    BY <1>1 DEF RecordOK
  <2>2. c.id = r.id /\ c.off = r.off /\ SelAt(h, r.id, r.off, c.sel) /\ r.host # None
    BY <1>3, <2>1, Zenon DEF RoleOK
  <2>3. r.off \in Nat /\ r.id \in Nat
    BY <1>1 DEF Record
  <2>4. h.ids \in Nat /\ id \in 1..h.ids
    BY <1>1, <1>3, Zenon
  <2>5. id \in Nat
    BY <2>4
  <2> QED
    BY <2>1, <2>2, <2>3, <2>5, Zenon
<1>5. c.id \in Nat /\ c.off \in Nat /\ c.sel \in Db
  BY <1>1, <1>3 DEF Record
<1>a. id = r.id \/ \A x \in Server : r.slv[x].st = "none"
  BY <1>4
<1>b. l.q # <<>> /\ r.state = "psync" /\ r.slv[t].st = "none"
  BY NoSelf
<1> HIDE DEF r, l, c
<1>6. Continues(r, c, r.off, id, q) /\ q.backlog = IF r.backlog = None THEN <<>> ELSE r.backlog
  BY <1>1, <1>4, <1>5, ContinuedParts
<1>7. n \in Link /\ n.q = Tail(l.q) /\ n.to = l.to /\ n.open = l.open
  BY <1>1, <1>b, ShorterParts
<1> HIDE DEF q, n
<1>8. /\ q \in Record /\ q.mid = id /\ q.moff = r.off /\ q.sel = c.sel /\ q.cached = None /\ q.state = "connected"
      /\ q.host = r.host /\ q.off = r.off /\ q.db = r.db /\ q.seldb = r.seldb
      /\ q.child = r.child /\ q.file = r.file /\ q.slv = r.slv /\ q.id = id
      /\ id # r.id => q.id2 = r.id /\ q.off2 = r.off + 1
      /\ id = r.id => q.id2 = r.id2 /\ q.off2 = r.off2
  BY <1>4, <1>6 DEF Continues
<1>9. q.backlog # None /\ q.backlog \in Seq(Command)
  <2>1. <<>> \in Seq(Command)
    OBVIOUS
  <2>2. <<>> # None
    BY <2>1, ReplicationConstants
  <2> QED
    BY <1>6, <1>8, <2>1, <2>2 DEF Record
<1>10. r.off <= h.len[id] /\ r.db = h.val[id][r.off] /\ SelAt(h, id, r.off, c.sel)
  <2>1. CASE id = r.id
    BY <1>4, <2>1
  <2>2. CASE Agree(h, r.id, id, r.off)
    <3> DEFINE i == r.id
               k == r.off
    <3>a. Agree(h, i, id, k)
      BY <2>2
    <3> HIDE DEF i, k
    <3>1. k <= h.len[id] /\ h.val[id][k] = h.val[i][k] /\ (h.sel[id][k] = NoDb \/ h.sel[id][k] = h.sel[i][k])
      <4>1. k \in Nat /\ k <= h.len[id]
        BY <3>a DEF Agree
      <4>2. k <= k
        BY <4>1
      <4> QED
        BY <3>a, <4>1, <4>2, Zenon DEF Agree
    <3> QED
      BY <1>4, <3>1, Zenon DEF SelAt, i, k
  <2> QED
    BY <1>3, <2>1, <2>2
<1>11. Stream(h, id, r.off - Len(q.backlog), q.backlog)
  <2>1. CASE r.backlog = None
    <3>1. q.backlog = <<>> /\ r.off - Len(<<>>) = r.off
      BY <1>4, <1>6, <2>1
    <3>2. Stream(h, id, r.off, <<>>)
      BY <1>4, <1>10, StreamNone
    <3> QED
      BY <3>1, <3>2
  <2>2. CASE r.backlog # None /\ id = r.id
    BY <1>1, <1>6, <2>2 DEF RecordOK
  <2>3. CASE r.backlog # None /\ Agree(h, r.id, id, r.off)
    <3>1. r.backlog = q.backlog /\ Stream(h, r.id, r.off - Len(q.backlog), q.backlog)
      BY <1>1, <1>6, <2>3 DEF RecordOK
    <3>2. Len(q.backlog) \in Nat
      BY <1>9
    <3>3. (r.off - Len(q.backlog)) + Len(q.backlog) <= r.off
      BY <1>4, <3>2
    <3> QED
      BY <1>1, <1>4, <1>9, <2>3, <3>1, <3>3, StreamAgree
  <2> QED
    BY <1>3, <2>1, <2>2, <2>3
<1>12. RecordOK(h, q)
  <2>1. RoleOK(h, q)
    <3>1. q.mid \in 0..h.ids
      BY <1>1, <1>3, <1>8
    <3>2. SelAt(h, q.id, q.off, q.sel)
      BY <1>8, <1>10, Zenon
    <3> QED
      BY <1>4, <1>8, <1>9, <3>1, <3>2 DEF RoleOK
  <2>2. SecondOK(h, q)
    <3>1. CASE id = r.id
      <4>1. r.backlog = None => r.id2 = NoId
        BY <1>3 DEF Alone, c
      <4>2. SecondOK(h, r)
        BY <1>1 DEF RecordOK
      <4> QED
        BY <1>6, <1>8, <3>1, <4>1, <4>2 DEF SecondOK
    <3>2. CASE id # r.id
      <4>1. Agree(h, r.id, id, r.off)
        BY <1>3, <3>2
      <4>2. q.id2 = r.id /\ q.off2 = r.off + 1 /\ q.off2 \in 1..(r.off + 1) /\ q.off2 - 1 = r.off
        BY <1>4, <1>8, <3>2
      <4>3. IsPrefix(r.db, r.db)
        BY <1>1, PrefixSame DEF Record, Data
      <4> QED
        BY <1>4, <1>8, <4>1, <4>2, <4>3 DEF SecondOK
    <3> QED
      BY <3>1, <3>2
  <2>3. FilesOK(h, q)
    BY <1>1, <1>8 DEF RecordOK, FilesOK
  <2> QED
    <3>1. q.id \in 1..h.ids /\ q.off <= h.len[q.id] /\ q.db = h.val[q.id][q.off]
      BY <1>3, <1>8, <1>10, Zenon
    <3>2. Stream(h, q.id, q.off - Len(q.backlog), q.backlog)
      BY <1>8, <1>11
    <3> QED
      BY <3>1, <3>2, <2>1, <2>2, <2>3, Zenon DEF RecordOK
<1>13. LinkOK(h, q, n)
  BY <1>3, <1>7, <1>8 DEF LinkOK
<1>14. ~Alone(q)
  BY <1>9 DEF Alone
<1>15. ASSUME NEW i \in 1..h.ids, NamedIn(Others(i), r, l)
       PROVE  NamedIn(Others(i), q, n)
  <2>1. QueueIn(Others(i), n.q) /\ Names(l.q[1]) \in Others(i)
    BY <1>1, <1>7, <1>b, <1>15, TailIn DEF NamedIn
  <2>2. id \in Others(i)
    BY <1>2, <2>1 DEF Names
  <2>3. q.id2 \in Others(i)
    BY <1>8, <1>15 DEF NamedIn
  <2> QED
    BY <1>8, <1>15, <2>1, <2>2, <2>3 DEF NamedIn, FilesIn
<1>16. ASSUME NEW x \in Server \ {t}
       PROVE  /\ ClientOK(h, t, q, q.slv[x], b.srv[x], b.link[x])
              /\ ClientOK(h, x, b.srv[x], b.srv[x].slv[t], q, n)
  <2>1. ClientOK(h, t, q, q.slv[x], b.srv[x], b.link[x])
    <3>1. CASE r.slv[x].st = "none"
      BY <1>8, <3>1, NoneOK
    <3>2. CASE r.slv[x].st # "none"
      <4>1. r.backlog # None
        BY <1>16, <3>2, NoBacklogNoClients DEF r
      <4>2. id = r.id
        BY <1>a, <1>16, <3>2
      <4>3. ClientOK(h, t, r, r.slv[x], b.srv[x], b.link[x])
        BY <1>16, GroupParts DEF r
      <4>4. q.id = r.id /\ q.off = r.off /\ q.backlog = r.backlog /\ q.child = r.child /\ q.slv[x] = r.slv[x]
        BY <1>6, <1>8, <4>1, <4>2
      <4> QED
        BY <4>3, <4>4, ClientOwner
    <3> QED
      BY <3>1, <3>2
  <2>2. ClientOK(h, x, b.srv[x], b.srv[x].slv[t], r, l) /\ b.srv[x] \in Record
    BY <1>16, GroupParts DEF r, l
  <2>3. ClientOK(h, x, b.srv[x], b.srv[x].slv[t], q, n)
    BY <1>1, <1>2, <1>b, <1>8, <2>2, AnswerClient DEF n
  <2> QED
    BY <2>1, <2>3
<1>17. q.slv[t].st = "none"
  BY <1>8, <1>b
<1>18. GroupOK(h, PutBoth(b, t, q, n))
  BY <1>1, <1>4, <1>7, <1>8, <1>12, <1>13, <1>14, <1>15, <1>16, <1>17, ReaderOK DEF r, l
<1> QED
  BY <1>18 DEF q, n, r, l, c

LEMMA ContinueWithShape ==
    ASSUME NEW g, NEW t, NEW id
    PROVE  LET e == IF id # g.srv[t].cached.id THEN DisconnectSlaves(g, t) ELSE g
               i == [e EXCEPT !.srv[t] = Resynced(e.srv[t], g.srv[t].cached, g.srv[t].off, id)]
           IN  ContinueWith(g, t, id) = IF g.srv[t].backlog = None THEN CreateBacklog(i, t) ELSE i
  BY DEF ContinueWith, Resynced

LEMMA ContinueWithIs ==
    ASSUME NEW h, NEW g, GroupOK(h, g), NEW t \in Server, g.link[t].q # <<>>, NEW id \in Nat, g.srv[t].cached # None,
           NEW b, id # g.srv[t].cached.id => b = DisconnectSlaves(g, t), id = g.srv[t].cached.id => b = g
    PROVE  ContinueWith([g EXCEPT !.link[t].q = Tail(@)], t, id)
              = PutBoth(b, t, Continued(b.srv[t], g.srv[t].cached, g.srv[t].off, id), Shorter(b.link[t]))
<1> DEFINE n == Shorter(g.link[t])
           e == PutLink(b, t, n)
           c == g.srv[t].cached
           off == g.srv[t].off
           w == Resynced(e.srv[t], c, off, id)
           i == Put(e, t, w)
<1>1. Typed(g) /\ g.link[t] \in Link /\ g.link[t].to # t /\ g.srv[t] \in Record
  BY GroupParts DEF GroupOK
<1>2. n \in Link /\ n.to # t
  BY <1>1, ShorterParts
<1>3. [g EXCEPT !.link[t].q = Tail(@)] = PutLink(g, t, n)
  BY <1>1, ReadIs
<1>a. c.id \in Nat /\ c.off \in Nat /\ c.sel \in Db /\ off \in Nat
  BY <1>1 DEF Record
<1> HIDE DEF n
<1>4. /\ e = IF id # c.id THEN DisconnectSlaves(PutLink(g, t, n), t) ELSE PutLink(g, t, n)
      /\ b.link[t] = g.link[t]
  <2>1. CASE id # c.id
    <3>1. CloseSlaves(PutLink(g, t, n), t, Server) = PutLink(CloseSlaves(g, t, Server), t, n)
          /\ CloseSlaves(g, t, Server).link[t] = g.link[t]
      BY <1>1, <1>2, CloseAfterRead
    <3> QED
      BY <2>1, <3>1 DEF DisconnectSlaves
  <2>2. CASE id = c.id
    BY <2>2
  <2> QED
    BY <2>1, <2>2
<1>5. Typed(b) /\ b.srv[t] \in Record /\ b.srv[t].host # t /\ b.srv[t].backlog = g.srv[t].backlog
  <2>1. CASE id # c.id
    <3>1. Typed(b) /\ Twin(g.srv[t], b.srv[t])
      BY <1>1, <2>1, CloseSlavesParts DEF DisconnectSlaves
    <3> QED
      BY <3>1 DEF Typed, Twin
  <2>2. CASE id = c.id
    BY <1>1, <2>2 DEF Typed
  <2> QED
    BY <2>1, <2>2
<1>6. /\ e = [srv |-> e.srv, link |-> e.link] /\ e.srv = b.srv /\ Typed(e)
      /\ \A q : Put(e, t, q) = PutBoth(b, t, q, n)
  BY <1>2, <1>5, PutLinkParts
<1>b. PutLink(g, t, n).srv = g.srv
  BY <1>1, <1>2, PutLinkParts
<1> HIDE DEF e
<1>7. w \in Record /\ w.host # t
  <2>1. Continues(e.srv[t], c, off, id, w)
    BY <1>a, <1>5, <1>6, ResyncedParts
  <2> QED
    BY <1>5, <1>6, <2>1 DEF Continues
<1>8. ContinueWith(PutLink(g, t, n), t, id)
        = IF g.srv[t].backlog = None THEN CreateBacklog([e EXCEPT !.srv[t] = w], t) ELSE [e EXCEPT !.srv[t] = w]
  BY <1>4, <1>b, ContinueWithShape
<1> HIDE DEF w, c, off
<1>9. [e EXCEPT !.srv[t] = w] = i
  BY <1>6, PutOne
<1>10. Typed(i) /\ i.srv[t] = w /\ \A q : Put(i, t, q) = Put(e, t, q)
  BY <1>6, <1>7, PutParts
<1> HIDE DEF i
<1>11. CreateBacklog(i, t) = Put(e, t, [w EXCEPT !.backlog = <<>>])
  BY <1>10, CreateBacklogIs
<1>12. i = Put(e, t, w)
  BY DEF i
<1>13. ContinueWith(PutLink(g, t, n), t, id)
         = Put(e, t, IF g.srv[t].backlog = None THEN [w EXCEPT !.backlog = <<>>] ELSE w)
  BY <1>8, <1>9, <1>11, <1>12
<1>14. (IF g.srv[t].backlog = None THEN [w EXCEPT !.backlog = <<>>] ELSE w) = Continued(b.srv[t], c, off, id)
  BY <1>5, <1>6 DEF Continued, w
<1> QED
  BY <1>3, <1>4, <1>6, <1>13, <1>14 DEF n, c, off

LEMMA ContinueWithOK ==
    ASSUME NEW h, NEW g, GroupOK(h, g), NEW t \in Server, g.srv[t].state = "psync", g.link[t].q # <<>>,
           g.link[t].q[1].type = "continue"
    PROVE  GroupOK(h, ContinueWith([g EXCEPT !.link[t].q = Tail(@)], t, g.link[t].q[1].id))
<1> DEFINE id == g.link[t].q[1].id
           c == g.srv[t].cached
           b == IF id # c.id THEN DisconnectSlaves(g, t) ELSE g
<1>1. /\ LinkOK(h, g.srv[t], g.link[t]) /\ g.link[t] \in Link /\ Typed(g)
  BY GroupParts DEF GroupOK
<1>2. ReplyOK(h, g.srv[t], g.link[t].q)
  BY <1>1 DEF LinkOK
<1>3. c # None /\ id \in 1..h.ids /\ id \in Nat
  BY <1>2 DEF ReplyOK
<1>4. /\ GroupOK(h, b) /\ b.srv[t].state = "psync" /\ b.link[t].q = g.link[t].q /\ b.srv[t].cached = c
      /\ b.srv[t].off = g.srv[t].off
      /\ id = c.id \/ \A x \in Server : b.srv[t].slv[x].st = "none"
  <2>1. CASE id # c.id
    <3>1. GroupOK(h, b)
      BY <2>1, CloseSlavesOK DEF DisconnectSlaves
    <3>2. /\ Twin(g.srv[t], b.srv[t]) /\ b.link[t].q = g.link[t].q
          /\ \A x \in Server : b.srv[t].slv[x] = NoClient
      BY <1>1, <2>1, CloseSlavesParts DEF DisconnectSlaves
    <3> HIDE DEF b
    <3> QED
      BY <3>1, <3>2, ClientTypes DEF Twin
  <2>2. CASE id = c.id
    BY <2>2
  <2> QED
    BY <2>1, <2>2
<1>a. b = IF id # c.id THEN DisconnectSlaves(g, t) ELSE g
  OBVIOUS
<1>b. id = g.link[t].q[1].id
  OBVIOUS
<1> HIDE DEF b, id
<1>c. id # g.srv[t].cached.id => b = DisconnectSlaves(g, t)
  BY <1>a
<1>d. id = g.srv[t].cached.id => b = g
  BY <1>a
<1>5. ContinueWith([g EXCEPT !.link[t].q = Tail(@)], t, id)
        = PutBoth(b, t, Continued(b.srv[t], g.srv[t].cached, g.srv[t].off, id), Shorter(b.link[t]))
  <2>1. id \in Nat /\ g.srv[t].cached # None /\ g.link[t].q # <<>>
    BY <1>3
  <2> HIDE DEF c
  <2> QED
    BY <1>c, <1>d, <2>1, ContinueWithIs
<1>6. GroupOK(h, PutBoth(b, t, Continued(b.srv[t], b.srv[t].cached, b.srv[t].off, id), Shorter(b.link[t])))
  BY <1>4, <1>b, ContinuedOK
<1> QED
  BY <1>4, <1>5, <1>6 DEF id

\* A slave that has loaded the file of a full resynchronization.
Taken(r, f) ==
    [r EXCEPT !.db = f.db, !.sel = IF f.sel = NoDb THEN 0 ELSE f.sel,
              !.file = f, !.state = "connected", !.id = r.mid, !.off = r.moff]
Cleared(r) == [r EXCEPT !.id2 = NoId, !.off2 = -1]
Loaded(r, f) == [Cleared(Taken(r, f)) EXCEPT !.backlog = <<>>]

LEMMA ClearedParts ==
    ASSUME NEW r \in Record
    PROVE  /\ Cleared(r) \in Record /\ Cleared(r).id2 = NoId
           /\ Cleared(r).host = r.host /\ Cleared(r).state = r.state /\ Cleared(r).id = r.id /\ Cleared(r).off = r.off
           /\ Cleared(r).backlog = r.backlog /\ Cleared(r).seldb = r.seldb /\ Cleared(r).db = r.db
           /\ Cleared(r).cached = r.cached /\ Cleared(r).mid = r.mid /\ Cleared(r).moff = r.moff
           /\ Cleared(r).sel = r.sel /\ Cleared(r).child = r.child /\ Cleared(r).file = r.file /\ Cleared(r).slv = r.slv
<1>1. NoId \in Nat /\ -1 \in Int
  BY DEF NoId
<1>2. \A y \in Record : [y EXCEPT !.id2 = NoId] \in Record
  BY <1>1 DEF Record
<1>3. \A y \in Record : [y EXCEPT !.off2 = -1] \in Record
  BY <1>1 DEF Record
<1>4. Cleared(r) \in Record
  BY <1>2, <1>3 DEF Cleared
<1> QED
  BY <1>4 DEF Cleared, Record

LEMMA LoadedParts ==
    ASSUME NEW r \in Record, NEW f \in File, r.moff \in Nat
    PROVE  LET q == Loaded(r, f) IN
           /\ Taken(r, f) \in Record
           /\ q \in Record /\ q.db = f.db /\ (f.sel # NoDb => q.sel = f.sel) /\ q.file = f
           /\ q.state = "connected" /\ q.id = r.mid /\ q.off = r.moff /\ q.id2 = NoId /\ q.backlog = <<>>
           /\ q.host = r.host /\ q.seldb = r.seldb /\ q.cached = r.cached /\ q.mid = r.mid /\ q.moff = r.moff
           /\ q.child = r.child /\ q.slv = r.slv /\ Taken(r, f).host = r.host /\ Taken(r, f).backlog = r.backlog
<1> DEFINE db == f.db
           sel == IF f.sel = NoDb THEN 0 ELSE f.sel
           mid == r.mid
           moff == r.moff
           e == Taken(r, f)
           c == Cleared(e)
           q == Loaded(r, f)
<1>1. db \in Data /\ sel \in Db /\ mid \in Nat /\ moff \in Nat /\ "connected" \in {"none", "connect", "psync", "transfer", "connected"}
  BY DEF File, Db, Record
<1>2. e = [r EXCEPT !.db = db, !.sel = sel, !.file = f, !.state = "connected", !.id = mid, !.off = moff]
  BY DEF Taken
<1> HIDE DEF db, sel, mid, moff, e
<1>3. e \in Record
  <2>1. \A y \in Record : [y EXCEPT !.db = db] \in Record
    BY <1>1 DEF Record
  <2>2. \A y \in Record : [y EXCEPT !.sel = sel] \in Record
    BY <1>1 DEF Record
  <2>3. \A y \in Record : [y EXCEPT !.file = f] \in Record
    BY <1>1 DEF Record
  <2>4. \A y \in Record : [y EXCEPT !.state = "connected"] \in Record
    BY <1>1 DEF Record
  <2>5. \A y \in Record : [y EXCEPT !.id = mid] \in Record
    BY <1>1 DEF Record
  <2>6. \A y \in Record : [y EXCEPT !.off = moff] \in Record
    BY <1>1 DEF Record
  <2> QED
    BY <1>2, <2>1, <2>2, <2>3, <2>4, <2>5, <2>6
<1>4. /\ e.db = db /\ e.sel = sel /\ e.file = f /\ e.state = "connected" /\ e.id = mid /\ e.off = moff
      /\ e.host = r.host /\ e.seldb = r.seldb /\ e.cached = r.cached /\ e.mid = r.mid /\ e.moff = r.moff
      /\ e.child = r.child /\ e.slv = r.slv /\ e.backlog = r.backlog
  BY <1>2 DEF Record
<1>5. /\ c \in Record /\ c.id2 = NoId /\ c.db = db /\ c.sel = sel /\ c.file = f /\ c.state = "connected"
      /\ c.id = mid /\ c.off = moff /\ c.host = r.host /\ c.seldb = r.seldb /\ c.cached = r.cached
      /\ c.mid = r.mid /\ c.moff = r.moff /\ c.child = r.child /\ c.slv = r.slv
  BY <1>3, <1>4, ClearedParts
<1>6. q = [c EXCEPT !.backlog = <<>>]
  BY DEF Loaded, e
<1> HIDE DEF c, q
<1>7. <<>> \in Seq(Command)
  OBVIOUS
<1>8. \A y \in Record : [y EXCEPT !.backlog = <<>>] \in Record
  BY <1>7 DEF Record
<1>9. q \in Record
  BY <1>5, <1>6, <1>8
<1>10. /\ q.db = c.db /\ q.sel = c.sel /\ q.file = c.file /\ q.state = c.state /\ q.id = c.id /\ q.off = c.off
       /\ q.id2 = c.id2 /\ q.backlog = <<>>
       /\ q.host = c.host /\ q.seldb = c.seldb /\ q.cached = c.cached /\ q.mid = c.mid /\ q.moff = c.moff
       /\ q.child = c.child /\ q.slv = c.slv
  BY <1>5, <1>6 DEF Record
<1> QED
  BY <1>3, <1>4, <1>5, <1>9, <1>10 DEF db, sel, mid, moff, e, q

LEMMA LoadTransferIs ==
    ASSUME NEW h, NEW g, GroupOK(h, g), NEW t \in Server, g.link[t].q # <<>>, NEW f \in File,
           g.srv[t].moff \in Nat, g.srv[t].backlog = None
    PROVE  LoadTransfer([g EXCEPT !.link[t].q = Tail(@)], t, f)
              = PutBoth(g, t, Loaded(g.srv[t], f), Shorter(g.link[t]))
<1> DEFINE n == Shorter(g.link[t])
           r == g.srv[t]
           e == PutLink(g, t, n)
           z == Taken(r, f)
           i == Put(e, t, z)
           k == Put(e, t, Cleared(z))
<1>1. Typed(g) /\ g.link[t] \in Link /\ g.link[t].to # t /\ r \in Record /\ r.host # t
  BY GroupParts DEF GroupOK
<1>2. n \in Link /\ n.to # t
  BY <1>1, ShorterParts
<1>3. [g EXCEPT !.link[t].q = Tail(@)] = e
  BY <1>1, ReadIs
<1> HIDE DEF n
<1>4. /\ e = [srv |-> e.srv, link |-> e.link] /\ e.srv = g.srv /\ Typed(e)
      /\ \A q : Put(e, t, q) = PutBoth(g, t, q, n)
  BY <1>1, <1>2, PutLinkParts
<1> HIDE DEF e
<1>5. z \in Record /\ z.host = r.host /\ Cleared(z) \in Record /\ Cleared(z).host = r.host
  BY <1>1, LoadedParts, ClearedParts
<1>6. LoadTransfer(e, t, f) = CreateBacklog(ClearReplicationId2([e EXCEPT !.srv[t] = z], t), t)
  BY <1>4 DEF LoadTransfer, Taken
<1>a. Loaded(r, f) = [Cleared(z) EXCEPT !.backlog = <<>>]
  BY DEF Loaded
<1> HIDE DEF z
<1>7. [e EXCEPT !.srv[t] = z] = i
  BY <1>4, PutOne
<1>8. Typed(i) /\ i.srv[t] = z /\ \A q : Put(i, t, q) = Put(e, t, q)
  BY <1>1, <1>4, <1>5, PutParts
<1> HIDE DEF i
<1>9. ClearReplicationId2(i, t) = [i EXCEPT !.srv[t] = Cleared(i.srv[t])]
  BY DEF ClearReplicationId2, Cleared
<1>10. [i EXCEPT !.srv[t] = Cleared(i.srv[t])] = Put(i, t, Cleared(i.srv[t]))
  BY <1>8, PutOne DEF Typed
<1>11. ClearReplicationId2(i, t) = k
  BY <1>8, <1>9, <1>10
<1>12. Typed(k) /\ k.srv[t] = Cleared(z) /\ \A q : Put(k, t, q) = Put(e, t, q)
  BY <1>1, <1>4, <1>5, PutParts
<1> HIDE DEF k
<1>13. CreateBacklog(k, t) = Put(k, t, [Cleared(z) EXCEPT !.backlog = <<>>])
  BY <1>12, CreateBacklogIs
<1> QED
  BY <1>3, <1>4, <1>6, <1>7, <1>11, <1>12, <1>13, <1>a DEF n

LEMMA FileAtParts ==
    ASSUME NEW h, NEW f \in File, NEW i, NEW k, FileAt(h, f, i, k)
    PROVE  /\ i \in 1..h.ids /\ k \in Nat /\ k <= h.len[i] /\ f.db = h.val[i][k]
           /\ f.sel # NoDb /\ SelAt(h, i, k, f.sel) /\ FileOK(h, f) /\ f.id = i /\ f.off = k
  BY DEF FileAt, FileOK, File

LEMMA LoadTransferOK ==
    ASSUME NEW h, NEW g, GroupOK(h, g), NEW t \in Server, g.srv[t].state = "transfer", g.link[t].q # <<>>
    PROVE  GroupOK(h, LoadTransfer([g EXCEPT !.link[t].q = Tail(@)], t, Head(g.link[t].q).file))
<1> DEFINE r == g.srv[t]
           l == g.link[t]
           f == Head(l.q).file
           q == Loaded(r, f)
           n == Shorter(l)
<1>1. /\ h \in History /\ HistoryOK(h) /\ r \in Record /\ RecordOK(h, r) /\ l \in Link /\ LinkOK(h, r, l) /\ l.to # t
      /\ l.q \in Seq(Message) /\ h.ids \in Nat
  BY GroupParts DEF Link
<1>2. l.q[1] \in Message /\ Head(l.q) = l.q[1] /\ Tail(l.q) \in Seq(Message)
  BY <1>1, TailOf
<1>3. PayloadOK(h, r.mid, r.moff, l.q)
  BY <1>1 DEF LinkOK
<1>4. l.q[1].type = "rdb" /\ FileAt(h, f, r.mid, r.moff) /\ Stream(h, r.mid, r.moff, Tail(l.q))
  BY <1>2, <1>3 DEF PayloadOK
<1>5. f \in File
  BY <1>2, <1>4 DEF Message, Command
<1>6. /\ r.mid \in 1..h.ids /\ r.moff \in Nat /\ r.moff <= h.len[r.mid] /\ f.db = h.val[r.mid][r.moff]
      /\ f.sel # NoDb /\ SelAt(h, r.mid, r.moff, f.sel) /\ FileOK(h, f) /\ f.id = r.mid
  <2> HIDE DEF r, l, f
  <2> QED
    BY <1>4, <1>5, FileAtParts
<1>7. r.host # None /\ r.backlog = None /\ r.cached = None
  BY <1>1 DEF RecordOK, RoleOK
<1>8. \A x \in Server : r.slv[x].st = "none"
  BY <1>7, NoBacklogNoClients
<1>9. LoadTransfer([g EXCEPT !.link[t].q = Tail(@)], t, f) = PutBoth(g, t, q, n)
  BY <1>5, <1>6, <1>7, LoadTransferIs
<1>a. l.q # <<>> /\ r.state = "transfer"
  OBVIOUS
<1>11. n \in Link /\ n.q = Tail(l.q) /\ n.to = l.to /\ n.open = l.open
  BY <1>1, ShorterParts
<1> HIDE DEF r, l, f
<1>10. /\ q \in Record /\ q.db = f.db /\ (f.sel # NoDb => q.sel = f.sel) /\ q.file = f
       /\ q.state = "connected" /\ q.id = r.mid /\ q.off = r.moff /\ q.id2 = NoId /\ q.backlog = <<>>
       /\ q.host = r.host /\ q.seldb = r.seldb /\ q.cached = r.cached /\ q.mid = r.mid /\ q.moff = r.moff
       /\ q.child = r.child /\ q.slv = r.slv
  BY <1>1, <1>5, <1>6, LoadedParts
<1> HIDE DEF q, n
<1>12. q.backlog # None
  <2>1. <<>> \in Seq(Command)
    OBVIOUS
  <2> QED
    BY <1>10, <2>1, ReplicationConstants
<1>13. RecordOK(h, q)
  <2>1. RoleOK(h, q)
    <3>1. q.mid \in 0..h.ids
      BY <1>1, <1>6, <1>10
    <3>2. SelAt(h, q.id, q.off, q.sel)
      BY <1>6, <1>10
    <3> QED
      BY <1>7, <1>10, <1>12, <3>1, <3>2 DEF RoleOK
  <2>2. SecondOK(h, q)
    BY <1>10 DEF SecondOK
  <2>3. FilesOK(h, q)
    BY <1>1, <1>6, <1>10 DEF RecordOK, FilesOK
  <2>4. Stream(h, q.id, q.off - Len(q.backlog), q.backlog)
    <3>1. r.moff - Len(<<>>) = r.moff
      BY <1>6
    <3>2. Stream(h, r.mid, r.moff, <<>>)
      BY <1>6, StreamNone
    <3> QED
      BY <1>10, <3>1, <3>2
  <2>5. q.id \in 1..h.ids /\ q.off <= h.len[q.id] /\ q.db = h.val[q.id][q.off]
    BY <1>6, <1>10
  <2> QED
    BY <2>1, <2>2, <2>3, <2>4, <2>5, Zenon DEF RecordOK
<1>14. LinkOK(h, q, n)
  BY <1>4, <1>10, <1>11 DEF LinkOK
<1>15. ~Alone(q)
  BY <1>12 DEF Alone
<1>16. ASSUME NEW i \in 1..h.ids, NamedIn(Others(i), r, l)
       PROVE  NamedIn(Others(i), q, n)
  <2>1. QueueIn(Others(i), n.q) /\ Names(l.q[1]) \in Others(i)
    BY <1>1, <1>11, <1>16, <1>a, TailIn DEF NamedIn
  <2>2. q.file.id \in Others(i)
    BY <1>6, <1>10, <1>16 DEF NamedIn
  <2>3. q.id2 \in Others(i)
    BY <1>1, <1>10 DEF Others, NoId
  <2> QED
    BY <1>10, <1>16, <2>1, <2>2, <2>3 DEF NamedIn, FilesIn
<1>17. ASSUME NEW x \in Server \ {t}
       PROVE  /\ ClientOK(h, t, q, q.slv[x], g.srv[x], g.link[x])
              /\ ClientOK(h, x, g.srv[x], g.srv[x].slv[t], q, n)
  <2>1. ClientOK(h, t, q, q.slv[x], g.srv[x], g.link[x])
    BY <1>8, <1>10, <1>17, NoneOK
  <2>2. ClientOK(h, x, g.srv[x], g.srv[x].slv[t], r, l) /\ g.srv[x] \in Record
    BY <1>17, GroupParts DEF r, l
  <2>3. ClientOK(h, x, g.srv[x], g.srv[x].slv[t], q, n)
    BY <1>1, <1>a, <1>10, <2>2, PayloadClient DEF n
  <2> QED
    BY <2>1, <2>3
<1>18. q.slv[t].st = "none"
  BY <1>8, <1>10
<1>19. GroupOK(h, PutBoth(g, t, q, n))
  BY <1>1, <1>7, <1>10, <1>11, <1>13, <1>14, <1>15, <1>16, <1>17, <1>18, ReaderOK DEF r, l
<1> QED
  BY <1>9, <1>19 DEF f, l

-----------------------------------------------------------------------------
(* A slave connects                                                        *)

Asked(r) == [r EXCEPT !.state = "psync"]
Served(r, t, c) == [r EXCEPT !.slv = [@ EXCEPT ![t] = c]]
Socket(s, q) == [to |-> s, open |-> TRUE, q |-> q]

\* The slave t has sent PSYNC to s, where its client is c, and has q to read.
Joined(g, s, t, c, q) == Put(PutBoth(g, t, Asked(g.srv[t]), Socket(s, q)), s, Served(g.srv[s], t, c))

LEMMA AskedParts ==
    ASSUME NEW r \in Record
    PROVE  /\ Asked(r) \in Record /\ Asked(r).state = "psync" /\ SameBody(r, Asked(r))
           /\ Asked(r).host = r.host /\ Asked(r).seldb = r.seldb /\ Asked(r).cached = r.cached
           /\ Asked(r).mid = r.mid /\ Asked(r).slv = r.slv
  BY DEF Asked, Record, SameBody

LEMMA ServedParts ==
    ASSUME NEW r \in Record, NEW t \in Server, NEW c \in Client
    PROVE  /\ Served(r, t, c) \in Record /\ Twin(r, Served(r, t, c)) /\ Served(r, t, c).slv[t] = c
           /\ \A x \in Server \ {t} : Served(r, t, c).slv[x] = r.slv[x]
<1> DEFINE f == [r.slv EXCEPT ![t] = c]
<1>1. f \in [Server -> Client] /\ f[t] = c /\ \A x \in Server \ {t} : f[x] = r.slv[x]
  BY DEF Record
<1>2. Served(r, t, c) = [r EXCEPT !.slv = f]
  BY DEF Served
<1> HIDE DEF f
<1> QED
  BY <1>1, <1>2, ClientsSet

LEMMA SocketParts ==
    ASSUME NEW s \in Server, NEW q \in Seq(Message)
    PROVE  Socket(s, q) \in Link /\ Socket(s, q).to = s /\ Socket(s, q).open /\ Socket(s, q).q = q
  BY DEF Socket, Link

LEMMA JoinedParts ==
    ASSUME NEW g, Typed(g), NEW s \in Server, NEW t \in Server, s # t, NEW c \in Client, NEW q \in Seq(Message)
    PROVE  LET k == Joined(g, s, t, c, q) IN
           /\ Typed(k) /\ k.srv[t] = Asked(g.srv[t]) /\ k.link[t] = Socket(s, q) /\ k.srv[s] = Served(g.srv[s], t, c)
           /\ \A x \in Server \ {t} : k.link[x] = g.link[x] /\ Twin(g.srv[x], k.srv[x])
           /\ \A x \in Server \ {s, t} : k.srv[x] = g.srv[x]
<1> DEFINE l == Socket(s, q)
           a == Asked(g.srv[t])
           b == PutBoth(g, t, a, l)
           d == Served(g.srv[s], t, c)
<1>1. g.srv[s] \in Record /\ g.srv[t] \in Record /\ g.srv[s].host # s /\ g.srv[t].host # t
  BY DEF Typed
<1>2. a \in Record /\ a.host # t
  BY <1>1, AskedParts
<1>3. l \in Link /\ l.to # t
  BY SocketParts
<1>4. d \in Record /\ Twin(g.srv[s], d)
  BY <1>1, ServedParts
<1> HIDE DEF l, a, d
<1>5. /\ Typed(b) /\ b.srv[t] = a /\ b.link[t] = l
      /\ \A x \in Server \ {t} : b.srv[x] = g.srv[x] /\ b.link[x] = g.link[x]
  BY <1>1, <1>2, <1>3, PutBothParts
<1> HIDE DEF b
<1>6. d.host # s
  BY <1>1, <1>4 DEF Twin
<1>7. /\ Typed(Put(b, s, d)) /\ Put(b, s, d).srv[s] = d /\ Put(b, s, d).link = b.link
      /\ \A x \in Server \ {s} : Put(b, s, d).srv[x] = b.srv[x]
  BY <1>4, <1>5, <1>6, PutParts
<1>8. \A x \in Server \ {t} : Twin(g.srv[x], Put(b, s, d).srv[x])
  BY <1>4, <1>5, <1>7, TwinSame
<1> QED
  BY <1>5, <1>7, <1>8 DEF Joined, a, b, d, l

LEMMA JoinedOK ==
    ASSUME NEW h, NEW g, GroupOK(h, g), NEW s \in Server, NEW t \in Server, s # t,
           g.srv[t].state = "connect", g.srv[s].backlog # None, NEW c \in Client, NEW q \in Seq(Message),
           ReplyOK(h, g.srv[t], q), \A I : g.srv[s].id \in I /\ NoId \in I => QueueIn(I, q),
           ClientOK(h, s, g.srv[s], c, Asked(g.srv[t]), Socket(s, q))
    PROVE  GroupOK(h, Joined(g, s, t, c, q)) /\ \A x \in Server : Joined(g, s, t, c, q).srv[x].id = g.srv[x].id
<1> DEFINE k == Joined(g, s, t, c, q)
           r == g.srv[t]
           a == Asked(r)
           l == Socket(s, q)
           d == Served(g.srv[s], t, c)
<1>1. /\ Typed(g) /\ h \in History /\ r \in Record /\ RecordOK(h, r) /\ LinkOK(h, r, g.link[t]) /\ g.srv[s] \in Record
      /\ g.link[t] \in Link
  BY GroupParts DEF GroupOK
<1>2. /\ Typed(k) /\ k.srv[t] = a /\ k.link[t] = l /\ k.srv[s] = d
      /\ \A x \in Server \ {t} : k.link[x] = g.link[x] /\ Twin(g.srv[x], k.srv[x])
      /\ \A x \in Server \ {s, t} : k.srv[x] = g.srv[x]
  BY <1>1, JoinedParts
<1>3. /\ a \in Record /\ a.state = "psync" /\ SameBody(r, a)
      /\ a.host = r.host /\ a.seldb = r.seldb /\ a.cached = r.cached
      /\ a.mid = r.mid /\ a.slv = r.slv
  BY <1>1, AskedParts
<1>4. l \in Link /\ l.to = s /\ l.open /\ l.q = q
  BY SocketParts
<1>5. Twin(g.srv[s], d) /\ d.slv[t] = c /\ \A x \in Server \ {t} : d.slv[x] = g.srv[s].slv[x]
  BY <1>1, ServedParts
<1>6. ReplyOK(h, r, q) /\ ClientOK(h, s, g.srv[s], c, a, l) /\ r.state = "connect"
  OBVIOUS
<1> HIDE DEF k, r, a, l, d
<1>7. g.link[t] = NoLink /\ r.host # None
  BY <1>1, <1>6 DEF RecordOK, RoleOK, LinkOK
<1>8. Beside(g, k, t)
  <2>1. ASSUME NEW x \in Server \ {t}, NEW y \in Server \ {t}
        PROVE  k.srv[x].slv[y] = g.srv[x].slv[y]
    BY <1>2, <1>5, <2>1
  <2> QED
    BY <1>2, <2>1 DEF Beside
<1>9. RecordOK(h, a)
  <2>1. RoleOK(h, a)
    BY <1>1, <1>3, <1>6, <1>7 DEF RecordOK, RoleOK, SameBody
  <2> QED
    BY <1>1, <1>3, <2>1, SameBodyOK
<1>10. OwnOK(a) /\ (Alone(a) <=> Alone(r))
  BY <1>3, <1>7 DEF OwnOK, Private, Alone, SameBody
<1>11. LinkOK(h, a, l)
  <2>1. ReplyOK(h, a, q)
    BY <1>3, <1>6, <1>10 DEF ReplyOK, SameBody
  <2> QED
    BY <1>3, <1>4, <2>1 DEF LinkOK
<1>12. ASSUME NEW x \in Server \ {t}
       PROVE  /\ Apart(a, k.srv[x], k.link[x]) /\ Apart(k.srv[x], a, l)
              /\ ClientOK(h, t, a, a.slv[x], k.srv[x], k.link[x])
              /\ ClientOK(h, x, k.srv[x], k.srv[x].slv[t], a, l)
  <2>1. /\ Apart(r, g.srv[x], g.link[x]) /\ Apart(g.srv[x], r, g.link[t])
        /\ ClientOK(h, t, r, r.slv[x], g.srv[x], g.link[x]) /\ g.srv[x] \in Record /\ g.srv[x].id \in 1..h.ids
    BY <1>12, GroupParts DEF r, RecordOK
  <2>2. Twin(g.srv[x], k.srv[x]) /\ k.link[x] = g.link[x]
    BY <1>2, <1>12
  <2>3. Apart(a, k.srv[x], k.link[x])
    <3>1. Apart(r, k.srv[x], g.link[x])
      BY <2>1, <2>2, TwinApart, TwinSame
    <3> QED
      BY <1>3, <1>10, <2>2, <3>1, ApartFrom DEF SameBody
  <2>4. ClientOK(h, t, a, a.slv[x], k.srv[x], k.link[x])
    <3>1. ClientOK(h, t, a, a.slv[x], g.srv[x], g.link[x])
      BY <1>3, <2>1, ClientOwner DEF SameBody
    <3> QED
      BY <2>2, <3>1, TwinClient, TwinSame
  <2>5. Apart(g.srv[x], a, l)
    <3>1. SUFFICES ASSUME Alone(g.srv[x])
                   PROVE  NamedIn(Others(g.srv[x].id), a, l)
      BY <1>3, <1>7, <2>1 DEF Apart
    <3>2. x # s
      BY <3>1 DEF Alone
    <3>3. g.srv[s].id \in Others(g.srv[x].id)
      BY <1>12, <3>1, <3>2, GroupParts DEF Apart, NamedIn
    <3>4. NoId \in Others(g.srv[x].id)
      BY <1>1, <2>1, HistoryIds DEF Others, NoId
    <3>5. QueueIn(Others(g.srv[x].id), l.q)
      BY <1>4, <3>3, <3>4
    <3>6. NamedIn(Others(g.srv[x].id), r, g.link[t])
      BY <2>1, <3>1 DEF Apart
    <3> QED
      BY <1>3, <3>5, <3>6 DEF NamedIn, FilesIn, SameBody
  <2>6. Apart(k.srv[x], a, l)
    BY <2>2, <2>5, TwinApart, TwinSame
  <2>7. ClientOK(h, x, k.srv[x], k.srv[x].slv[t], a, l)
    <3>1. CASE x = s
      <4>1. ClientOK(h, s, k.srv[s], c, a, l)
        BY <1>2, <1>5, <1>6, TwinClient, TwinSame
      <4> QED
        BY <1>2, <1>5, <3>1, <4>1
    <3>2. CASE x # s
      <4>1. k.srv[x].slv[t].st = "none"
        BY <1>2, <1>7, <1>12, <3>2, NoLinkNoClient
      <4> QED
        BY <4>1, NoneOK
    <3> QED
      BY <3>1, <3>2
  <2> QED
    BY <2>3, <2>4, <2>6, <2>7
<1>13. a.slv[t].st = "none"
  BY <1>3, NoSelf DEF r
<1>14. ActorOK(h, k, t)
  BY <1>2, <1>9, <1>10, <1>11, <1>12, <1>13 DEF ActorOK
<1>15. GroupOK(h, k)
  BY <1>2, <1>8, <1>14, Alter
<1>16. \A x \in Server : k.srv[x].id = g.srv[x].id
  BY <1>2, <1>3 DEF Twin, SameBody, r
<1> QED
  BY <1>15, <1>16 DEF k

LEMMA AgreeLess ==
    ASSUME NEW h \in History, NEW i \in Nat, NEW j \in Nat, NEW k, Agree(h, i, j, k), NEW m \in Nat, m <= k
    PROVE  Agree(h, i, j, m)
<1>1. h.len[i] \in Nat /\ h.len[j] \in Nat
  BY HistoryFields
<1>2. k \in Nat /\ k <= h.len[i] /\ k <= h.len[j]
  BY DEF Agree
<1>3. m <= h.len[i] /\ m <= h.len[j] /\ \A n \in Nat : n <= m => n <= k
  BY <1>1, <1>2
<1> QED
  BY <1>3 DEF Agree

\* The backlog from the command off + 1 of the history of r on.
FromBacklog(r, off) == SubSeq(r.backlog, (off + 1) - BacklogOff(r) + 1, Len(r.backlog))

LEMMA FromBacklogOK ==
    ASSUME NEW h \in History, NEW r \in Record, RecordOK(h, r), r.backlog # None, NEW off \in Nat,
           off + 1 >= BacklogOff(r), off + 1 <= BacklogOff(r) + Len(r.backlog)
    PROVE  /\ FromBacklog(r, off) \in Seq(Command) /\ Stream(h, r.id, off, FromBacklog(r, off))
           /\ Len(FromBacklog(r, off)) = r.off - off
<1> DEFINE b == r.backlog
           n == Len(b)
           o == r.off
           a == (off + 1) - BacklogOff(r) + 1
<1>1. b \in Seq(Command) /\ o \in Nat /\ r.id \in Nat
  BY DEF Record
<1>2. n \in Nat
  BY <1>1
<1>3. Stream(h, r.id, o - n, b)
  BY DEF RecordOK
<1>4. a = off - o + n + 1 /\ a \in 1..(n + 1) /\ (o - n) + a - 1 = off /\ n - a + 1 = o - off /\ o - off >= 0
  <2>1. BacklogOff(r) = o - n + 1 /\ off + 1 >= o - n + 1 /\ off + 1 <= o - n + 1 + n
    BY DEF BacklogOff
  <2>2. a = (off + 1) - (o - n + 1) + 1
    BY <2>1
  <2> HIDE DEF a, o, n, b
  <2> QED
    BY <1>1, <1>2, <2>1, <2>2
<1>5. FromBacklog(r, off) = SubSeq(b, a, n)
  BY DEF FromBacklog
<1> HIDE DEF b, n, o, a
<1>6. SubSeq(b, a, Len(b)) \in Seq(Command) /\ Stream(h, r.id, (o - n) + a - 1, SubSeq(b, a, Len(b)))
  BY <1>1, <1>3, <1>4, StreamPart DEF n
<1>7. Len(SubSeq(b, a, n)) = n - a + 1
  BY <1>1, <1>2, <1>4 DEF n
<1> QED
  BY <1>4, <1>5, <1>6, <1>7 DEF n, o

\* The reply to a PSYNC that s can continue.
Resuming(r, off) == <<[type |-> "continue", id |-> r.id]>> \o FromBacklog(r, off)

LEMMA ResumingParts ==
    ASSUME NEW r \in Record, NEW off, FromBacklog(r, off) \in Seq(Command)
    PROVE  LET q == Resuming(r, off) IN
           /\ q \in Seq(Message) /\ q # <<>> /\ q[1].type = "continue" /\ q[1].id = r.id
           /\ Tail(q) = FromBacklog(r, off) /\ Len(q) = Len(FromBacklog(r, off)) + 1 /\ Len(q) \in Nat
           /\ \A I : r.id \in I /\ NoId \in I => QueueIn(I, q)
<1> DEFINE m == [type |-> "continue", id |-> r.id]
           e == <<m>>
           b == FromBacklog(r, off)
           q == e \o b
<1>1. m \in Message /\ m.type = "continue" /\ m.id = r.id /\ Names(m) = r.id
  BY DEF Message, Names, Record
<1>2. b \in Seq(Message)
  BY CommandsIn
<1> HIDE DEF m, b
<1>3. e \in Seq(Message) /\ e # <<>> /\ e[1] = m /\ Tail(e) = <<>> /\ Len(e) = 1
  BY <1>1
<1>4. /\ q \in Seq(Message) /\ q # <<>> /\ q[1] = m /\ Tail(q) = <<>> \o b /\ Len(q) = 1 + Len(b) /\ Len(b) \in Nat
  BY <1>2, <1>3, ConcatParts
<1>5. Tail(q) = b
  BY <1>2, <1>4, ConcatEmpty
<1>6. ASSUME NEW I, r.id \in I, NoId \in I
      PROVE  QueueIn(I, q)
  <2>1. QueueIn(I, b)
    BY <1>6, CommandsIn DEF b
  <2> HIDE DEF q, e
  <2> QED
    BY <1>1, <1>4, <1>5, <1>6, <2>1, QueueFirst
<1>7. Len(q) = Len(b) + 1 /\ Len(q) \in Nat
  BY <1>4
<1>8. Resuming(r, off) = q
  BY DEF Resuming, m, b
<1> HIDE DEF q
<1> QED
  BY <1>1, <1>4, <1>5, <1>6, <1>7, <1>8 DEF b

OnlineClient == [NoClient EXCEPT !.st = "online"]
StartClient == [NoClient EXCEPT !.st = "start"]

LEMMA NewClients ==
    /\ OnlineClient \in Client /\ OnlineClient.st = "online" /\ OnlineClient.buf = <<>> /\ OnlineClient.init = 0
    /\ StartClient \in Client /\ StartClient.st = "start" /\ StartClient.buf = <<>> /\ StartClient.init = 0
<1>1. <<>> \in Seq(Command)
  OBVIOUS
<1> QED
  BY <1>1 DEF OnlineClient, StartClient, NoClient, Client

\* What a PSYNC that can be continued says about the slave.
LEMMA CanContinueSays ==
    ASSUME NEW h, NEW g, GroupOK(h, g), NEW s \in Server, NEW t \in Server, s # t,
           CanContinue(g.srv[s], PsyncRequest(g.srv[t]))
    PROVE  /\ g.srv[t].cached # None /\ ~Alone(g.srv[t]) /\ g.srv[s].backlog # None
           /\ g.srv[s].id = g.srv[t].id \/ Agree(h, g.srv[t].id, g.srv[s].id, g.srv[t].off)
           /\ g.srv[t].off + 1 >= BacklogOff(g.srv[s])
           /\ g.srv[t].off + 1 <= BacklogOff(g.srv[s]) + Len(g.srv[s].backlog)
           /\ PsyncRequest(g.srv[t]).off = g.srv[t].off + 1
<1> DEFINE r == g.srv[s]
           rt == g.srv[t]
           req == PsyncRequest(rt)
<1>1. /\ h \in History /\ h.ids \in Nat /\ r \in Record /\ rt \in Record /\ RecordOK(h, r) /\ RecordOK(h, rt)
      /\ Apart(rt, r, g.link[s])
  BY GroupParts
<1>2. /\ req.id = r.id \/ (req.id = r.id2 /\ req.off <= r.off2)
      /\ r.backlog # None /\ req.off >= BacklogOff(r) /\ req.off <= BacklogOff(r) + Len(r.backlog)
  BY DEF CanContinue
<1>3. req = IF rt.cached = None THEN [id |-> AskFull, off |-> -1]
            ELSE [id |-> rt.cached.id, off |-> rt.cached.off + 1]
  BY DEF PsyncRequest
<1>4. r.id \in Nat /\ r.id2 \in Nat /\ rt.id \in 1..h.ids /\ rt.off \in Nat /\ rt.id \in Nat /\ r.id \in 1..h.ids
  BY <1>1 DEF Record, RecordOK
<1>5. rt.cached # None => rt.cached.id = rt.id /\ rt.cached.off = rt.off
  BY <1>1 DEF RecordOK, RoleOK
<1> HIDE DEF r, rt, req
<1>6. rt.cached # None
  <2>1. SUFFICES ASSUME rt.cached = None
                 PROVE  FALSE
    OBVIOUS
  <2>2. req.id = -1
    BY <1>3, <2>1 DEF AskFull
  <2> QED
    BY <1>2, <1>4, <2>2
<1>7. req.id = rt.id /\ req.off = rt.off + 1
  BY <1>3, <1>5, <1>6
<1>8. ~Alone(rt)
  <2>1. SUFFICES ASSUME Alone(rt)
                 PROVE  FALSE
    OBVIOUS
  <2>2. r.id \in Others(rt.id) /\ r.id2 \in Others(rt.id)
    BY <1>1, <2>1 DEF Apart, NamedIn
  <2> QED
    BY <1>2, <1>7, <2>2 DEF Others
<1>9. r.id = rt.id \/ Agree(h, rt.id, r.id, rt.off)
  <2>1. SUFFICES ASSUME r.id # rt.id
                 PROVE  Agree(h, rt.id, r.id, rt.off)
    OBVIOUS
  <2>2. r.id2 = rt.id /\ rt.off + 1 <= r.off2
    BY <1>2, <1>7, <2>1
  <2>3. r.id2 # NoId
    BY <1>1, <1>4, <2>2 DEF NoId
  <2>4. Agree(h, rt.id, r.id, r.off2 - 1) /\ r.off2 \in Int
    BY <1>1, <1>2, <2>2, <2>3 DEF RecordOK, SecondOK, Record
  <2>5. rt.off <= r.off2 - 1
    BY <1>4, <2>2, <2>4
  <2> QED
    BY <1>1, <1>4, <2>4, <2>5, AgreeLess
<1>10. rt.off + 1 >= BacklogOff(r) /\ rt.off + 1 <= BacklogOff(r) + Len(r.backlog) /\ r.backlog # None
  BY <1>2, <1>7
<1> QED
  BY <1>6, <1>7, <1>8, <1>9, <1>10 DEF r, rt, req

LEMMA ResumeOK ==
    ASSUME NEW h, NEW g, GroupOK(h, g), NEW s \in Server, NEW t \in Server, s # t, g.srv[t].state = "connect",
           CanContinue(g.srv[s], PsyncRequest(g.srv[t]))
    PROVE  LET k == Joined(g, s, t, OnlineClient, Resuming(g.srv[s], g.srv[t].off)) IN
           GroupOK(h, k) /\ \A x \in Server : k.srv[x].id = g.srv[x].id
<1> DEFINE r == g.srv[s]
           rt == g.srv[t]
           b == FromBacklog(r, rt.off)
           q == Resuming(r, rt.off)
           l == Socket(s, q)
           a == Asked(rt)
<1>1. /\ h \in History /\ h.ids \in Nat /\ r \in Record /\ rt \in Record /\ RecordOK(h, r) /\ RecordOK(h, rt)
  BY GroupParts
<1>2. /\ rt.cached # None /\ ~Alone(rt) /\ r.backlog # None
      /\ r.id = rt.id \/ Agree(h, rt.id, r.id, rt.off)
      /\ rt.off + 1 >= BacklogOff(r)
      /\ rt.off + 1 <= BacklogOff(r) + Len(r.backlog)
  BY CanContinueSays
<1>3. rt.off \in Nat /\ r.off \in Nat /\ r.id \in 1..h.ids
  BY <1>1 DEF Record, RecordOK
<1> HIDE DEF r, rt
<1>4. b \in Seq(Command) /\ Stream(h, r.id, rt.off, b) /\ Len(b) = r.off - rt.off
  BY <1>1, <1>2, <1>3, FromBacklogOK
<1>5. /\ q \in Seq(Message) /\ q # <<>> /\ q[1].type = "continue" /\ q[1].id = r.id
      /\ Tail(q) = b /\ Len(q) = Len(b) + 1 /\ Len(q) \in Nat
      /\ \A I : r.id \in I /\ NoId \in I => QueueIn(I, q)
  BY <1>1, <1>4, ResumingParts
<1>6. l \in Link /\ l.to = s /\ l.open /\ l.q = q
  BY <1>5, SocketParts
<1>7. a.state = "psync" /\ a.off = rt.off
  BY <1>1, AskedParts DEF SameBody
<1> HIDE DEF b, q, l, a
<1>8. ReplyOK(h, rt, q)
  BY <1>2, <1>3, <1>4, <1>5 DEF ReplyOK
<1>9. rt.off + Len(q) - 1 = r.off
  BY <1>3, <1>4, <1>5
<1>10. Leads(a, l.q, r.id, r.off)
  BY <1>5, <1>6, <1>7, <1>9 DEF Leads
<1>11. ClientOK(h, s, r, OnlineClient, a, l)
  BY <1>2, <1>6, <1>10, NewClients DEF ClientOK
<1>12. rt.state = "connect" /\ GroupOK(h, g)
  BY DEF rt
<1>13. GroupOK(h, Joined(g, s, t, OnlineClient, q)) /\ \A x \in Server : Joined(g, s, t, OnlineClient, q).srv[x].id = g.srv[x].id
  BY <1>2, <1>5, <1>8, <1>11, <1>12, NewClients, JoinedOK DEF r, rt, a, l
<1> QED
  BY <1>13 DEF r, rt, q

LEMMA PsyncIs ==
    ASSUME NEW g, Typed(g), NEW s \in Server, NEW t \in Server
    PROVE  [g EXCEPT !.srv[t].state = "psync", !.link[t] = [to |-> s, open |-> TRUE, q |-> <<>>]]
              = PutBoth(g, t, Asked(g.srv[t]), Socket(s, <<>>))
<1>1. g = [srv |-> g.srv, link |-> g.link]
  BY DEF Typed
<1> DEFINE A == [g.srv EXCEPT ![t] = Asked(g.srv[t])]
           L == g.link
           l == Socket(s, <<>>)
           b == [g EXCEPT !.srv = A]
<1>3. [g EXCEPT !.srv[t].state = "psync", !.link[t] = [to |-> s, open |-> TRUE, q |-> <<>>]]
         = [b EXCEPT !.link = [b.link EXCEPT ![t] = l]]
  BY DEF Asked, Socket
<1> HIDE DEF A, l
<1>4. b = [srv |-> A, link |-> L]
  BY <1>1
<1>5. b.link = L
  BY <1>4
<1> HIDE DEF b, L
<1>6. [b EXCEPT !.link = [b.link EXCEPT ![t] = l]] = [srv |-> A, link |-> [L EXCEPT ![t] = l]]
  BY <1>4, <1>5
<1> QED
  BY <1>3, <1>6 DEF PutBoth, A, L, l

LEMMA ServedIs ==
    ASSUME NEW g, Typed(g), NEW s \in Server, NEW t \in Server, NEW c
    PROVE  [g EXCEPT !.srv[s].slv[t] = c] = Put(g, s, Served(g.srv[s], t, c))
<1>1. g = [srv |-> g.srv, link |-> g.link]
  BY DEF Typed
<1> QED
  BY <1>1 DEF Put, Served

LEMMA LinksSame ==
    ASSUME NEW k, NEW j, Typed(k), Typed(j), k.srv = j.srv, \A x \in Server : k.link[x] = j.link[x]
    PROVE  k = j
<1>1. k.link = [x \in Server |-> k.link[x]] /\ j.link = [x \in Server |-> j.link[x]]
  BY DEF Typed
<1>2. k.link = j.link
  BY <1>1
<1>3. k = [srv |-> k.srv, link |-> k.link] /\ j = [srv |-> j.srv, link |-> j.link]
  BY DEF Typed
<1> QED
  BY <1>2, <1>3

LEMMA LinkChange ==
    ASSUME NEW a, NEW b, NEW c, NEW d
    PROVE  [[to |-> a, open |-> b, q |-> c] EXCEPT !.q = d] = [to |-> a, open |-> b, q |-> d]
  OBVIOUS

LEMMA SendFirst ==
    ASSUME NEW g, Typed(g), NEW s \in Server, NEW t \in Server, s # t, NEW c \in Client, NEW m \in Seq(Message)
    PROVE  SendTo(Joined(g, s, t, c, <<>>), {t}, m) = Joined(g, s, t, c, m)
<1> DEFINE z == <<>>
           e == Joined(g, s, t, c, z)
           j == Joined(g, s, t, c, m)
           k == SendTo(e, {t}, m)
<1>1. z \in Seq(Message)
  OBVIOUS
<1>0. z = <<>>
  OBVIOUS
<1> HIDE DEF z
<1>2. Typed(e) /\ e.link[t] = Socket(s, z) /\ \A x \in Server \ {t} : e.link[x] = g.link[x]
  BY <1>1, JoinedParts
<1>3. Typed(j) /\ j.link[t] = Socket(s, m) /\ \A x \in Server \ {t} : j.link[x] = g.link[x]
  BY JoinedParts
<1>4. e.srv = j.srv
  BY DEF Joined, Put, PutBoth
<1> HIDE DEF e, j
<1>5. /\ Typed(k) /\ k.srv = e.srv
      /\ \A x \in Server : k.link[x] = IF x \in {t} THEN Longer(e.link[x], m) ELSE e.link[x]
  BY <1>2, SendParts
<1> HIDE DEF k
<1>6. Longer(Socket(s, z), m) = Socket(s, m)
  <2>1. z \o m = m
    BY <1>0, ConcatEmpty
  <2>a. Longer(Socket(s, z), m) = [Socket(s, z) EXCEPT !.q = Socket(s, z).q \o m] /\ Socket(s, z).q = z
    BY DEF Longer, Socket
  <2>b. ASSUME NEW y
        PROVE  [Socket(s, z) EXCEPT !.q = y] = Socket(s, y)
    BY LinkChange DEF Socket
  <2>2. Longer(Socket(s, z), m) = Socket(s, z \o m)
    BY <2>a, <2>b
  <2> QED
    BY <2>1, <2>2
<1>7. \A x \in Server : k.link[x] = j.link[x]
  BY <1>2, <1>3, <1>5, <1>6
<1> QED
  BY <1>0, <1>3, <1>4, <1>5, <1>7, LinksSame DEF e, j, k

LEMMA ContinueIs ==
    ASSUME NEW g, Typed(g), NEW s \in Server, NEW t \in Server, s # t, NEW req, req.off = g.srv[t].off + 1,
           FromBacklog(g.srv[s], g.srv[t].off) \in Seq(Command)
    PROVE  Continue(PutBoth(g, t, Asked(g.srv[t]), Socket(s, <<>>)), s, t, req)
              = Joined(g, s, t, OnlineClient, Resuming(g.srv[s], g.srv[t].off))
<1> DEFINE a == PutBoth(g, t, Asked(g.srv[t]), Socket(s, <<>>))
           q == Resuming(g.srv[s], g.srv[t].off)
<1>1. g.srv[t] \in Record /\ g.srv[t].host # t /\ g.srv[s] \in Record
  BY DEF Typed
<1>2. Asked(g.srv[t]) \in Record /\ Asked(g.srv[t]).host # t
  BY <1>1, AskedParts
<1>3. Socket(s, <<>>) \in Link /\ Socket(s, <<>>).to # t
  <2>1. <<>> \in Seq(Message)
    OBVIOUS
  <2> QED
    BY <2>1, SocketParts
<1>4. Typed(a) /\ a.srv[s] = g.srv[s]
  BY <1>1, <1>2, <1>3, PutBothParts
<1>5. Put(a, s, Served(g.srv[s], t, OnlineClient)) = Joined(g, s, t, OnlineClient, <<>>)
  BY DEF Joined
<1>6. q \in Seq(Message)
  BY <1>1, ResumingParts
<1> HIDE DEF a
<1>7. [a EXCEPT !.srv[s].slv[t] = OnlineClient] = Put(a, s, Served(a.srv[s], t, OnlineClient))
  BY <1>4, ServedIs
<1>8. Continue(a, s, t, req) = SendTo([a EXCEPT !.srv[s].slv[t] = OnlineClient], {t}, q)
  <2> DEFINE m == <<[type |-> "continue", id |-> a.srv[s].id]>> \o
                  SubSeq(a.srv[s].backlog, req.off - BacklogOff(a.srv[s]) + 1, Len(a.srv[s].backlog))
  <2>1. Continue(a, s, t, req) = SendTo([a EXCEPT !.srv[s].slv[t] = OnlineClient], {t}, m)
    BY DEF Continue, OnlineClient
  <2>2. req.off - BacklogOff(a.srv[s]) + 1 = (g.srv[t].off + 1) - BacklogOff(g.srv[s]) + 1
    <3>1. BacklogOff(a.srv[s]) = BacklogOff(g.srv[s])
      BY <1>4
    <3> DEFINE x == req.off
               y == g.srv[t].off + 1
               b == BacklogOff(a.srv[s])
               c == BacklogOff(g.srv[s])
    <3>2. x = y /\ b = c
      BY <3>1
    <3> HIDE DEF x, y, b, c
    <3>3. x - b + 1 = y - c + 1
      BY <3>2, Zenon
    <3> QED
      BY <3>3 DEF x, y, b, c
  <2>3. m = q
    BY <1>4, <2>2, Zenon DEF Resuming, FromBacklog
  <2> HIDE DEF m, q
  <2> QED
    BY <2>1, <2>3
<1> HIDE DEF q
<1>9. SendTo(Joined(g, s, t, OnlineClient, <<>>), {t}, q) = Joined(g, s, t, OnlineClient, q)
  BY <1>6, NewClients, SendFirst
<1> QED
  BY <1>4, <1>5, <1>7, <1>8, <1>9 DEF a, q

LEMMA AllSame ==
    ASSUME NEW k, NEW j, Typed(k), Typed(j), \A x \in Server : k.srv[x] = j.srv[x] /\ k.link[x] = j.link[x]
    PROVE  k = j
<1>1. k.srv = [x \in Server |-> k.srv[x]] /\ j.srv = [x \in Server |-> j.srv[x]]
  BY DEF Typed
<1>2. k.srv = j.srv
  BY <1>1
<1> QED
  BY <1>2, LinksSame

LEMMA RenewServed ==
    ASSUME NEW r \in Record, NEW t \in Server, NEW c \in Client, NEW n \in Nat, NEW b \in {None, <<>>}
    PROVE  Renewed(Served(r, t, c), n, b) = Served(Renewed(r, n, b), t, c)
<1> DEFINE F == [r.slv EXCEPT ![t] = c]
           R == Renewed(r, n, b)
<1>1. F \in [Server -> Client]
  BY DEF Record
<1>2. R \in Record /\ R.slv = r.slv
  BY RenewedParts
<1>3. Served(r, t, c) = [r EXCEPT !.slv = F]
  BY DEF Served
<1>4. Served(R, t, c) = [R EXCEPT !.slv = F]
  BY <1>2 DEF Served
<1>5. R = [r EXCEPT !.id = n, !.id2 = NoId, !.off2 = -1, !.backlog = b]
  BY DEF Renewed
<1>6. Renewed(Served(r, t, c), n, b) = [Served(r, t, c) EXCEPT !.id = n, !.id2 = NoId, !.off2 = -1, !.backlog = b]
  BY DEF Renewed
<1> HIDE DEF F, R
<1>7. [[r EXCEPT !.slv = F] EXCEPT !.id = n, !.id2 = NoId, !.off2 = -1, !.backlog = b]
         = [[r EXCEPT !.id = n, !.id2 = NoId, !.off2 = -1, !.backlog = b] EXCEPT !.slv = F]
  BY DEF Record
<1> QED
  BY <1>3, <1>4, <1>5, <1>6, <1>7 DEF R

LEMMA JoinStartOK ==
    ASSUME NEW h, NEW g, GroupOK(h, g), NEW s \in Server, NEW t \in Server, s # t,
           g.srv[t].state = "connect", g.srv[s].backlog # None
    PROVE  GroupOK(h, Joined(g, s, t, StartClient, <<>>))
           /\ \A x \in Server : Joined(g, s, t, StartClient, <<>>).srv[x].id = g.srv[x].id
<1> DEFINE z == <<>>
           l == Socket(s, z)
<1>1. z \in Seq(Message) /\ z = <<>>
  OBVIOUS
<1>2. g.srv[t] \in Record
  BY GroupParts
<1> HIDE DEF z
<1>3. l \in Link /\ l.to = s /\ l.open /\ l.q = z
  BY <1>1, SocketParts
<1>4. Asked(g.srv[t]).state = "psync"
  BY <1>2, AskedParts
<1>5. ReplyOK(h, g.srv[t], z)
  BY <1>1 DEF ReplyOK
<1>6. ASSUME NEW I PROVE QueueIn(I, z)
  BY <1>1, <1>3, NoQueue
<1>7. ClientOK(h, s, g.srv[s], StartClient, Asked(g.srv[t]), l)
  <2> HIDE DEF l
  <2> QED
    BY <1>1, <1>3, <1>4, NewClients DEF ClientOK
<1>8. GroupOK(h, Joined(g, s, t, StartClient, z)) /\ \A x \in Server : Joined(g, s, t, StartClient, z).srv[x].id = g.srv[x].id
  <2>1. \A I : g.srv[s].id \in I /\ NoId \in I => QueueIn(I, z)
    BY <1>6
  <2>2. StartClient \in Client
    BY NewClients
  <2>3. z \in Seq(Message)
    BY <1>1
  <2> QED
    BY <1>5, <1>7, <2>1, <2>2, <2>3, JoinedOK
<1> QED
  BY <1>8 DEF z

LEMMA AddSlaveIs ==
    ASSUME NEW g, Typed(g), NEW s \in Server, NEW t \in Server, s # t
    PROVE  LET a == PutBoth(g, t, Asked(g.srv[t]), Socket(s, <<>>))
               k == AddSlave(a, s, t) IN
           /\ k = IF (\A x \in Server : g.srv[s].slv[x].st = "none") /\ g.srv[s].backlog = None
                  THEN CreateBacklog(ClearReplicationId2(ChangeReplicationId(Joined(g, s, t, StartClient, <<>>), s), s), s)
                  ELSE Joined(g, s, t, StartClient, <<>>)
<1> DEFINE l == Socket(s, <<>>)
           a == PutBoth(g, t, Asked(g.srv[t]), l)
           j == Joined(g, s, t, StartClient, <<>>)
<1>1. g.srv[t] \in Record /\ g.srv[t].host # t /\ g.srv[s] \in Record
  BY DEF Typed
<1>2. Asked(g.srv[t]) \in Record /\ Asked(g.srv[t]).host # t
  BY <1>1, AskedParts
<1>3. l \in Link /\ l.to # t
  <2>1. <<>> \in Seq(Message)
    OBVIOUS
  <2> QED
    BY <2>1, SocketParts
<1>4. j = Put(a, s, Served(g.srv[s], t, StartClient))
  BY DEF Joined
<1> HIDE DEF l, j
<1>5. Typed(a) /\ a.srv[s] = g.srv[s]
  BY <1>1, <1>2, <1>3, PutBothParts
<1> HIDE DEF a
<1>6. [a EXCEPT !.srv[s].slv[t] = StartClient] = j
  BY <1>4, <1>5, ServedIs
<1>7. SlavesOf(a, s) = {} <=> \A x \in Server : g.srv[s].slv[x].st = "none"
  BY <1>5 DEF SlavesOf
<1>8. AddSlave(a, s, t) = IF SlavesOf(a, s) = {} /\ a.srv[s].backlog = None
                          THEN CreateBacklog(ClearReplicationId2(ChangeReplicationId(j, s), s), s) ELSE j
  BY <1>6 DEF AddSlave, StartClient
<1> QED
  BY <1>5, <1>7, <1>8 DEF a, j, l

LEMMA RenewedJoin ==
    ASSUME NEW g, Typed(g), NEW s \in Server, NEW t \in Server, s # t, NEW n \in Nat, NEW b \in {None, <<>>}
    PROVE  LET e == Put(g, s, Renewed(g.srv[s], n, b))
               j == Joined(g, s, t, StartClient, <<>>) IN
           Put(j, s, Renewed(j.srv[s], n, b)) = Joined(e, s, t, StartClient, <<>>)
<1> DEFINE z == <<>>
           c == StartClient
           R == Renewed(g.srv[s], n, b)
           e == Put(g, s, R)
           j == Joined(g, s, t, c, z)
           k == Joined(e, s, t, c, z)
           p == Put(j, s, Renewed(j.srv[s], n, b))
<1>1. z \in Seq(Message) /\ c \in Client
  BY NewClients
<1>2. g.srv[s] \in Record /\ g.srv[s].host # s /\ g.srv[t] \in Record
  BY DEF Typed
<1>3. R \in Record /\ R.host # s
  BY <1>2, RenewedParts
<1> HIDE DEF z, c, R
<1>4. Typed(e) /\ e.srv[s] = R /\ e.link = g.link /\ \A x \in Server \ {s} : e.srv[x] = g.srv[x]
  BY <1>2, <1>3, PutParts
<1> HIDE DEF e
<1>5. /\ Typed(j) /\ j.srv[t] = Asked(g.srv[t]) /\ j.link[t] = Socket(s, z) /\ j.srv[s] = Served(g.srv[s], t, c)
      /\ \A x \in Server \ {t} : j.link[x] = g.link[x] /\ Twin(g.srv[x], j.srv[x])
      /\ \A x \in Server \ {s, t} : j.srv[x] = g.srv[x]
  BY <1>1, JoinedParts
<1>6. /\ Typed(k) /\ k.srv[t] = Asked(e.srv[t]) /\ k.link[t] = Socket(s, z) /\ k.srv[s] = Served(e.srv[s], t, c)
      /\ \A x \in Server \ {t} : k.link[x] = e.link[x] /\ Twin(e.srv[x], k.srv[x])
      /\ \A x \in Server \ {s, t} : k.srv[x] = e.srv[x]
  BY <1>1, <1>4, JoinedParts
<1> HIDE DEF j, k
<1>7. Renewed(j.srv[s], n, b) = Served(R, t, c)
  BY <1>1, <1>2, <1>5, RenewServed DEF R
<1>8. Served(R, t, c) \in Record /\ Served(R, t, c).host # s
  BY <1>1, <1>3, ServedParts DEF Twin
<1>9. /\ Typed(p) /\ p.srv[s] = Served(R, t, c) /\ p.link = j.link
      /\ \A x \in Server \ {s} : p.srv[x] = j.srv[x]
  BY <1>5, <1>7, <1>8, PutParts
<1> HIDE DEF p
<1>10. ASSUME NEW x \in Server
       PROVE  p.srv[x] = k.srv[x] /\ p.link[x] = k.link[x]
  BY <1>4, <1>5, <1>6, <1>9
<1>11. p = k
  BY <1>6, <1>9, <1>10, AllSame
<1> QED
  BY <1>11 DEF p, k, j, e, R, c, z

\* What syncCommand has made of the state before it turns to the BGSAVE.
Added(g, s, t) == AddSlave(PutBoth(g, t, Asked(g.srv[t]), Socket(s, <<>>)), s, t)

LEMMA JoinStartParts ==
    ASSUME NEW g, Typed(g), NEW s \in Server, NEW t \in Server, s # t
    PROVE  LET k == Joined(g, s, t, StartClient, <<>>) IN
           Typed(k) /\ k.srv[s].child = g.srv[s].child /\ k.srv[s].slv[t] = StartClient
<1> DEFINE z == <<>>
           c == StartClient
           k == Joined(g, s, t, c, z)
<1>1. z \in Seq(Message) /\ c \in Client /\ g.srv[s] \in Record
  BY NewClients DEF Typed
<1> HIDE DEF z, c
<1>2. Typed(k) /\ k.srv[s] = Served(g.srv[s], t, c)
  BY <1>1, JoinedParts
<1>3. Served(g.srv[s], t, c).child = g.srv[s].child /\ Served(g.srv[s], t, c).slv[t] = c
  BY <1>1, ServedParts DEF Twin
<1> QED
  BY <1>2, <1>3 DEF c, z

LEMMA AddSlaveOK ==
    ASSUME NEW h, NEW g, GroupOK(h, g), h.ids = ids, NEW s \in Server, NEW t \in Server, s # t,
           g.srv[t].state = "connect", g.srv[s].host = None \/ g.srv[s].state = "connected"
    PROVE  /\ Reached(h.writes, Added(g, s, t))
           /\ Added(g, s, t).srv[s].child = g.srv[s].child
           /\ Added(g, s, t).srv[s].slv[t] = StartClient
<1> DEFINE j == Joined(g, s, t, StartClient, <<>>)
           k == Added(g, s, t)
           R == Renewed(g.srv[s], ids + 1, <<>>)
           e == Put(g, s, R)
<1>1. /\ Typed(g) /\ g.srv[s] \in Record /\ RecordOK(h, g.srv[s]) /\ h \in History /\ h.ids \in Nat /\ g.srv[s].host # s
      /\ g.srv[t] \in Record
  BY GroupParts DEF GroupOK
<1>2. <<>> \in {None, <<>>} /\ ids \in Nat /\ ids + 1 \in Nat
  BY <1>1
<1>3. CASE g.srv[s].backlog = None
  <2>1. g.srv[s].host = None
    BY <1>1, <1>3 DEF RecordOK, RoleOK
  <2>2. \A x \in Server : g.srv[s].slv[x].st = "none"
    BY <1>3, NoBacklogNoClients
  <2>3. k = CreateBacklog(ClearReplicationId2(ChangeReplicationId(j, s), s), s)
    BY <1>1, <1>3, <2>2, AddSlaveIs DEF Added
  <2>4. Typed(j)
    BY <1>1, JoinStartParts
  <2>5. k = Put(j, s, Renewed(j.srv[s], ids + 1, <<>>))
    <3> HIDE DEF j, k
    <3>1. j.srv = [x \in Server |-> j.srv[x]] /\ j = [srv |-> j.srv, link |-> j.link]
      BY <2>4, Shaped
    <3> QED
      BY <2>3, <3>1, NewIdIs
  <2>6. k = Joined(e, s, t, StartClient, <<>>)
    BY <1>1, <1>2, <2>5, RenewedJoin
  <2>7. PICK i \in History : i.ids = ids + 1 /\ i.writes = h.writes /\ GroupOK(i, e)
    BY <1>2, <2>1, <2>2, NewIdOK
  <2>8. R \in Record /\ R.host # s /\ R.backlog = <<>> /\ R.id = ids + 1 /\ R.child = g.srv[s].child
    BY <1>1, <1>2, RenewedParts
  <2> HIDE DEF R
  <2>9. e.srv[s] = R /\ e.srv[t] = g.srv[t]
    BY <1>1, <2>8, PutParts
  <2> HIDE DEF e
  <2>10. e.srv[s].backlog # None
    <3>1. <<>> \in Seq(Command)
      OBVIOUS
    <3> QED
      BY <2>8, <2>9, <3>1, ReplicationConstants
  <2>11. GroupOK(i, Joined(e, s, t, StartClient, <<>>))
         /\ \A x \in Server : Joined(e, s, t, StartClient, <<>>).srv[x].id = e.srv[x].id
    BY <2>7, <2>9, <2>10, JoinStartOK
  <2>12. Typed(e)
    BY <2>7 DEF GroupOK
  <2>13. k.srv[s].child = g.srv[s].child /\ k.srv[s].slv[t] = StartClient
    BY <2>6, <2>8, <2>9, <2>12, JoinStartParts
  <2>14. GroupOK(i, k) /\ k.srv[s].id = ids + 1
    BY <2>6, <2>8, <2>9, <2>11
  <2>15. Reached(h.writes, k)
    BY <2>7, <2>14 DEF Reached
  <2> QED
    BY <2>13, <2>15
<1>4. CASE g.srv[s].backlog # None
  <2>1. k = j
    BY <1>1, <1>4, AddSlaveIs DEF Added
  <2>2. GroupOK(h, j)
    BY <1>4, JoinStartOK
  <2>4. j.srv[s].child = g.srv[s].child /\ j.srv[s].slv[t] = StartClient
    BY <1>1, JoinStartParts
  <2>5. Reached(h.writes, j)
    BY <1>1, <2>2 DEF Reached
  <2> QED
    BY <2>1, <2>4, <2>5
<1> QED
  BY <1>3, <1>4

-----------------------------------------------------------------------------
(* The files of a server                                                   *)

LEMMA StreamDbType ==
    ASSUME NEW r \in Record
    PROVE  StreamDb(r) \in Db \cup {NoDb}
<1>1. r.seldb \in Db \cup {NoDb} /\ r.sel \in Db /\ (r.cached # None => r.cached.sel \in Db) /\ 0 \in Db
  BY DEF Record, Db
<1> QED
  BY <1>1 DEF StreamDb

LEMMA SnapshotParts ==
    ASSUME NEW r \in Record
    PROVE  LET f == Snapshot(r) IN
           /\ f \in File /\ f.db = r.db /\ f.sel = StreamDb(r) /\ f.off = r.off
           /\ StreamDb(r) = NoDb => f.id = NoId
           /\ StreamDb(r) # NoDb => f.id = r.id
<1> DEFINE d == StreamDb(r)
           i == IF d = NoDb THEN NoId ELSE r.id
           f == Snapshot(r)
<1>1. d \in Db \cup {NoDb}
  BY StreamDbType
<1>2. f = [db |-> r.db, sel |-> d, id |-> i, off |-> r.off]
  BY DEF Snapshot
<1>3. i \in Nat /\ r.db \in Data /\ r.off \in Nat
  BY DEF Record, NoId
<1>4. (d = NoDb => i = NoId) /\ (d # NoDb => i = r.id)
  OBVIOUS
<1> HIDE DEF d, i, f
<1>5. f \in File /\ f.db = r.db /\ f.sel = d /\ f.off = r.off /\ f.id = i
  BY <1>1, <1>2, <1>3 DEF File
<1> QED
  BY <1>4, <1>5 DEF d, f

LEMMA SnapshotOK ==
    ASSUME NEW h \in History, HistoryOK(h), NEW r \in Record, RecordOK(h, r)
    PROVE  /\ FileOK(h, Snapshot(r))
           /\ StreamDb(r) # NoDb => FileAt(h, Snapshot(r), r.id, r.off)
           /\ Private(r) => StreamDb(r) = NoDb
<1> DEFINE f == Snapshot(r)
           d == StreamDb(r)
<1>1. /\ f \in File /\ f.db = r.db /\ f.sel = d /\ f.off = r.off
      /\ d = NoDb => f.id = NoId
      /\ d # NoDb => f.id = r.id
  BY SnapshotParts
<1>2. Right(h, r.db)
  BY RightData
<1>3. r.id \in 1..h.ids /\ r.off <= h.len[r.id] /\ r.db = h.val[r.id][r.off] /\ h.ids \in Nat
  BY HistoryIds DEF RecordOK
<1>4. d # NoDb => SelAt(h, r.id, r.off, d)
  <2>1. CASE r.host = None /\ r.backlog # None
    <3>1. h.sel[r.id][r.off] = r.seldb
      BY <2>1 DEF RecordOK, RoleOK
    <3>2. d = IF r.seldb = NoDb THEN 0 ELSE r.seldb
      BY <2>1 DEF StreamDb
    <3> QED
      BY <3>1, <3>2 DEF SelAt
  <2>2. CASE ~(r.host = None /\ r.backlog # None) /\ r.state = "connected"
    BY <2>2 DEF StreamDb, RecordOK, RoleOK
  <2>3. CASE ~(r.host = None /\ r.backlog # None) /\ r.state # "connected"
    BY <2>3 DEF StreamDb, RecordOK, RoleOK
  <2> QED
    BY <2>1, <2>2, <2>3
<1>5. Private(r) => d = NoDb
  BY DEF Private, StreamDb, RecordOK, RoleOK
<1>6. f.id \in 0..h.ids
  BY <1>1, <1>3 DEF NoId
<1> HIDE DEF f, d
<1>7. FileOK(h, f)
  BY <1>1, <1>2, <1>3, <1>4, <1>6 DEF FileOK
<1>8. d # NoDb => FileAt(h, f, r.id, r.off)
  BY <1>1, <1>7 DEF FileAt
<1> QED
  BY <1>5, <1>7, <1>8 DEF f, d

\* A server with the stream db d, the child c and the file f.
Saved(r, d, c, f) == [r EXCEPT !.seldb = d, !.child = c, !.file = f]

Savable(d, c, f) == d \in Db \cup {NoDb} /\ c \in Child \cup {None} /\ f \in File

LEMMA SavedParts ==
    ASSUME NEW r \in Record, NEW d, NEW c, NEW f, Savable(d, c, f)
    PROVE  LET q == Saved(r, d, c, f) IN
           /\ q \in Record /\ q.seldb = d /\ q.child = c /\ q.file = f
           /\ q.host = r.host /\ q.state = r.state /\ q.id = r.id /\ q.id2 = r.id2 /\ q.off2 = r.off2 /\ q.off = r.off
           /\ q.backlog = r.backlog /\ q.db = r.db /\ q.cached = r.cached /\ q.mid = r.mid /\ q.moff = r.moff
           /\ q.sel = r.sel /\ q.slv = r.slv
<1> DEFINE q == Saved(r, d, c, f)
<1>1. \A y \in Record : [y EXCEPT !.seldb = d] \in Record
  BY DEF Record, Savable
<1>2. \A y \in Record : [y EXCEPT !.child = c] \in Record
  BY DEF Record, Savable
<1>3. \A y \in Record : [y EXCEPT !.file = f] \in Record
  BY DEF Record, Savable
<1>4. q \in Record
  BY <1>1, <1>2, <1>3 DEF Saved
<1>5. /\ q.seldb = d /\ q.child = c /\ q.file = f
      /\ q.host = r.host /\ q.state = r.state /\ q.id = r.id /\ q.id2 = r.id2 /\ q.off2 = r.off2 /\ q.off = r.off
      /\ q.backlog = r.backlog /\ q.db = r.db /\ q.cached = r.cached /\ q.mid = r.mid /\ q.moff = r.moff
      /\ q.sel = r.sel /\ q.slv = r.slv
  BY DEF Saved, Record
<1> QED
  BY <1>4, <1>5

LEMMA SavedOK ==
    ASSUME NEW h, NEW g, GroupOK(h, g), NEW s \in Server, NEW d \in {NoDb, g.srv[s].seldb},
           NEW c \in Child \cup {None}, NEW f \in File,
           c = g.srv[s].child \/ \A t \in Server : g.srv[s].slv[t].st # "end",
           c # None => FileOK(h, c.file), FileOK(h, f),
           \A I : FilesIn(I, g.srv[s]) /\ g.srv[s].id \in I /\ NoId \in I => f.id \in I /\ (c # None => c.file.id \in I),
           Private(g.srv[s]) => f.id # g.srv[s].id /\ (c # None => c.file.id # g.srv[s].id)
    PROVE  Held(h, Put(g, s, Saved(g.srv[s], d, c, f)))
<1> DEFINE r == g.srv[s]
           q == Saved(r, d, c, f)
<1>1. /\ h \in History /\ HistoryOK(h) /\ h.ids \in Nat /\ r \in Record /\ RecordOK(h, r) /\ OwnOK(r)
      /\ d \in Db \cup {NoDb}
  BY GroupParts DEF Record
<1>a. Savable(d, c, f)
  BY <1>1 DEF Savable
<1>2. /\ q \in Record /\ q.seldb = d /\ q.child = c /\ q.file = f
      /\ q.host = r.host /\ q.state = r.state /\ q.id = r.id /\ q.id2 = r.id2 /\ q.off2 = r.off2 /\ q.off = r.off
      /\ q.backlog = r.backlog /\ q.db = r.db /\ q.cached = r.cached /\ q.mid = r.mid /\ q.moff = r.moff
      /\ q.sel = r.sel /\ q.slv = r.slv
  BY <1>1, <1>a, SavedParts
<1> HIDE DEF q
<1>3. PICK j \in History : /\ HistoryOK(j) /\ GrowsOn(Nat, h, j) /\ j.ids = h.ids /\ j.writes = h.writes
                           /\ \A x \in Server \ {s} : EndKept(h, j, g.srv[x])
                           /\ r.host = None => j.len[r.id] = h.len[r.id] /\ j.sel[r.id][r.off] = d
  <2>1. CASE r.host = None /\ d = NoDb
    <3> DEFINE j == Release(h, r.id)
    <3>1. r.id \in 1..h.ids /\ r.off = h.len[r.id]
      BY <1>1, <2>1 DEF RecordOK, RoleOK
    <3>2. /\ j \in History /\ HistoryOK(j) /\ GrowsOn(Nat, h, j) /\ SameBut(r.id, h, j)
          /\ j.ids = h.ids /\ j.writes = h.writes /\ j.len = h.len
          /\ j.sel[r.id][h.len[r.id]] = NoDb
      BY <1>1, <3>1, ReleaseOK
    <3> HIDE DEF j
    <3>3. \A x \in Server \ {s} : EndKept(h, j, g.srv[x])
      BY <2>1, <3>2, EndsApart
    <3> QED
      BY <2>1, <3>1, <3>2, <3>3
  <2>2. CASE ~(r.host = None /\ d = NoDb)
    <3>1. GrowsOn(Nat, h, h)
      BY <1>1, GrowsSame
    <3>2. \A x \in Server \ {s} : EndKept(h, h, g.srv[x])
      BY DEF EndKept
    <3>3. r.host = None => h.sel[r.id][r.off] = d
      BY <1>1, <2>2 DEF RecordOK, RoleOK
    <3> QED
      BY <1>1, <3>1, <3>2, <3>3
  <2> QED
    BY <2>1, <2>2
<1>4. RoleOK(j, q)
  <2>1. RoleOK(h, r) /\ r.id \in Nat /\ r.off \in Nat /\ r.off <= h.len[r.id]
    BY <1>1 DEF RecordOK, Record
  <2>2. r.cached # None => SelAt(j, r.id, r.off, r.cached.sel)
    BY <1>1, <1>3, <2>1, SelKept DEF RoleOK
  <2>3. r.state = "connected" => SelAt(j, r.id, r.off, r.sel)
    BY <1>1, <1>3, <2>1, SelKept DEF RoleOK
  <2>4. r.host = None => r.cached = None /\ r.off = j.len[r.id] /\ j.sel[r.id][r.off] = d
    BY <1>3, <2>1 DEF RoleOK
  <2> HIDE DEF r
  <2> QED
    BY <1>2, <1>3, <2>1, <2>2, <2>3, <2>4 DEF RoleOK
<1>5. RecordOK(j, q)
  <2> DEFINE e == Saved(r, d, r.child, r.file)
  <2>1. Savable(d, r.child, r.file)
    BY <1>1 DEF Record, Savable
  <2>2. SameBody(r, e)
    <3>1. /\ e.child = r.child /\ e.file = r.file /\ e.id = r.id /\ e.id2 = r.id2 /\ e.off2 = r.off2 /\ e.off = r.off
          /\ e.backlog = r.backlog /\ e.db = r.db
      BY <1>1, <2>1, SavedParts
    <3> QED
      BY <3>1 DEF SameBody
  <2>3. /\ e.seldb = d /\ e.host = r.host /\ e.state = r.state /\ e.cached = r.cached /\ e.mid = r.mid /\ e.moff = r.moff
        /\ e.sel = r.sel
    BY <1>1, <2>1, SavedParts
  <2> HIDE DEF e, r
  <2>4. RoleOK(j, e)
    BY <1>2, <1>4, <2>2, <2>3 DEF RoleOK, SameBody
  <2>5. r.id \in Nat /\ r.id2 \in Nat /\ FilesIn(Nat, r)
    BY <1>1 DEF Record, FilesIn, File, Child
  <2>6. RecordOK(j, e)
    BY <1>1, <1>3, <2>2, <2>4, <2>5, BodyKept
  <2>7. FileOK(j, f) /\ (c # None => FileOK(j, c.file))
    <3>1. f.id \in Nat /\ (c # None => c.file \in File /\ c.file.id \in Nat)
      BY DEF File, Child
    <3> QED
      BY <1>1, <1>3, <3>1, FileKept
  <2>8. FilesOK(j, q)
    BY <1>2, <2>7 DEF FilesOK
  <2>9. SecondOK(j, q)
    BY <1>2, <2>2, <2>6 DEF RecordOK, SecondOK, SameBody
  <2> QED
    BY <1>2, <1>4, <2>2, <2>6, <2>8, <2>9 DEF RecordOK, SameBody
<1>6. OwnOK(q)
  <2>1. Private(q) <=> Private(r)
    BY <1>2 DEF Private
  <2>2. r.id \in Nat /\ f.id \in Nat /\ (c # None => c.file.id \in Nat)
    BY <1>1 DEF Record, File, Child
  <2> QED
    BY <1>1, <1>2, <2>1, <2>2 DEF OwnOK, FilesIn, Others
<1>7. Alike(r, q)
  BY <1>2 DEF Alike
<1>8. ASSUME NEW i \in 1..h.ids, FilesIn(Others(i), r), r.id \in Others(i)
      PROVE  FilesIn(Others(i), q)
  <2>1. NoId \in Others(i)
    BY <1>1 DEF NoId, Others
  <2> QED
    BY <1>2, <1>8, <2>1 DEF FilesIn
<1>9. q.child = r.child \/ \A t \in Server : r.slv[t].st # "end"
  BY <1>2
<1>10. GroupOK(j, Put(g, s, q))
  BY <1>2, <1>3, <1>5, <1>6, <1>7, <1>8, <1>9, ReviseIn
<1> QED
  BY <1>3, <1>10 DEF Held, q

-----------------------------------------------------------------------------
(* Full resynchronizations                                                 *)

\* What the slaves T of s that waited for a BGSAVE get when it has started.
Enlists(g, k, s, T, init, buf, m) ==
    /\ \A x \in Server \ {s} : k.srv[x] = g.srv[x]
    /\ Twin(g.srv[s], k.srv[s])
    /\ \A t \in Server : t \in T =>
          /\ g.srv[s].slv[t].st = "start"
          /\ k.srv[s].slv[t].st = "end" /\ k.srv[s].slv[t].init = init /\ k.srv[s].slv[t].buf = buf
          /\ k.link[t].q = m /\ k.link[t].to = g.link[t].to /\ k.link[t].open = g.link[t].open
    /\ \A t \in Server : t \notin T => k.srv[s].slv[t] = g.srv[s].slv[t] /\ k.link[t] = g.link[t]

\* The messages that announce the history i from k on, and with a socket the file f.
Announces(m, i, k, type, f) ==
    /\ m \in Seq(Message) /\ m # <<>> /\ m[1].type = "fullresync" /\ m[1].id = i /\ m[1].off = k
    /\ type = "disk" => Len(m) = 1 /\ Tail(m) = <<>>
    /\ type = "socket" => Len(m) = 2 /\ Tail(m) # <<>> /\ Tail(Tail(m)) = <<>> /\ Tail(m)[1].type = "rdb" /\ Tail(m)[1].file = f

LEMMA QueueNone ==
    ASSUME NEW I
    PROVE  QueueIn(I, <<>>)
<1>1. \A j \in 1..Len(<<>>) : FALSE
  OBVIOUS
<1> QED
  BY <1>1 DEF QueueIn

LEMMA AnnouncesOK ==
    ASSUME NEW h \in History, NEW m, NEW i, NEW k, NEW type, NEW f \in File, Announces(m, i, k, type, f),
           type \in {"disk", "socket"}, FileAt(h, f, i, k), NEW r, r.state = "psync"
    PROVE  /\ ReplyOK(h, r, m)
           /\ type = "disk" => Awaits(r, m, i, k)
           /\ type = "socket" => Given(r, m, i, k)
           /\ \A I : i \in I => QueueIn(I, m)
<1>1. i \in 1..h.ids /\ k \in Nat /\ k <= h.len[i] /\ f.id = i
  BY FileAtParts
<1>2. m \in Seq(Message) /\ m # <<>> /\ m[1].type = "fullresync" /\ m[1].id = i /\ m[1].off = k
  BY DEF Announces
<1>3. Tail(m) \in Seq(Message)
  BY <1>2, TailOf
<1>4. CASE type = "disk"
  <2>1. Len(m) = 1 /\ Tail(m) = <<>>
    BY <1>4 DEF Announces
  <2>2. PayloadOK(h, i, k, Tail(m))
    BY <2>1 DEF PayloadOK
  <2>3. ReplyOK(h, r, m)
    BY <1>1, <1>2, <2>2 DEF ReplyOK
  <2>4. Awaits(r, m, i, k)
    BY <1>2, <2>1 DEF Awaits
  <2>5. ASSUME NEW I, i \in I
        PROVE  QueueIn(I, m)
    <3>1. QueueIn(I, Tail(m))
      BY <2>1, QueueNone
    <3>2. Names(m[1]) = i
      BY <1>2 DEF Names
    <3> QED
      BY <1>2, <2>5, <3>1, <3>2, QueueFirst
  <2> QED
    BY <1>4, <2>3, <2>4, <2>5
<1>5. CASE type = "socket"
  <2> DEFINE e == Tail(m)
  <2>1. Len(m) = 2 /\ e # <<>> /\ Tail(e) = <<>> /\ e[1].type = "rdb" /\ e[1].file = f /\ e \in Seq(Message)
    BY <1>3, <1>5 DEF Announces
  <2> HIDE DEF e
  <2>2. Stream(h, i, k, <<>>)
    BY <1>1, StreamNone
  <2>3. PayloadOK(h, i, k, e)
    BY <2>1, <2>2 DEF PayloadOK
  <2>4. ReplyOK(h, r, m)
    BY <1>1, <1>2, <2>3 DEF ReplyOK, e
  <2>5. Given(r, m, i, k)
    BY <1>2, <2>1 DEF Given
  <2>6. ASSUME NEW I, i \in I
        PROVE  QueueIn(I, m)
    <3>1. QueueIn(I, Tail(e))
      BY <2>1, QueueNone
    <3>2. Names(e[1]) = i
      BY <1>1, <2>1 DEF Names
    <3>3. QueueIn(I, e)
      BY <2>1, <2>6, <3>1, <3>2, QueueFirst
    <3>4. Names(m[1]) = i
      BY <1>2 DEF Names
    <3> QED
      BY <1>2, <2>6, <3>3, <3>4, QueueFirst DEF e
  <2> QED
    BY <1>5, <2>4, <2>5, <2>6
<1> QED
  BY <1>4, <1>5

LEMMA EnlistOK ==
    ASSUME NEW h, NEW g, GroupOK(h, g), NEW k, Typed(k), NEW s \in Server, NEW T, NEW init \in Nat,
           NEW buf \in Seq(Command), NEW m, Enlists(g, k, s, T, init, buf, m),
           g.srv[s].child # None, FileAt(h, g.srv[s].child.file, g.srv[s].id, init),
           Stream(h, g.srv[s].id, init, buf), init + Len(buf) = g.srv[s].off,
           Announces(m, g.srv[s].id, init, g.srv[s].child.type, g.srv[s].child.file)
    PROVE  GroupOK(h, k)
<1> DEFINE r == g.srv[s]
           q == k.srv[s]
           f == r.child.file
<1>1. /\ h \in History /\ HistoryOK(h) /\ r \in Record /\ RecordOK(h, r) /\ OwnOK(r) /\ LinkOK(h, r, g.link[s])
  BY GroupParts
<1>2. f \in File /\ r.child.type \in {"disk", "socket"}
  BY <1>1 DEF Record, Child
<1>3. Twin(r, q) /\ \A x \in Server \ {s} : k.srv[x] = g.srv[x]
  BY DEF Enlists
<1>4. s \notin T /\ r.slv[s].st = "none"
  <2>1. r.slv[s].st = "none"
    BY NoSelf
  <2> QED
    BY <2>1 DEF Enlists
<1>5. k.link[s] = g.link[s] /\ q.slv[s] = r.slv[s]
  BY <1>4 DEF Enlists
<1>6. ASSUME NEW x \in Server \ {s}
      PROVE  /\ k.srv[x] = g.srv[x] /\ EndKept(h, h, g.srv[x])
             /\ ClientOK(h, x, g.srv[x], g.srv[x].slv[s], q, k.link[s])
             /\ k.link[x] = g.link[x] \/ r.slv[x].st # "none"
             /\ LinkOK(h, g.srv[x], k.link[x])
             /\ ClientOK(h, s, q, q.slv[x], g.srv[x], k.link[x])
             /\ \A i \in 1..h.ids : i # r.id /\ QueueIn(Others(i), g.link[x].q) => QueueIn(Others(i), k.link[x].q)
  <2>1. ClientOK(h, x, g.srv[x], g.srv[x].slv[s], r, g.link[s]) /\ ClientOK(h, s, r, r.slv[x], g.srv[x], g.link[x])
        /\ LinkOK(h, g.srv[x], g.link[x]) /\ k.link[x] \in Link
    BY <1>6, GroupParts DEF Typed
  <2>2. ClientOK(h, x, g.srv[x], g.srv[x].slv[s], q, k.link[s])
    BY <1>3, <1>5, <2>1, TwinClient, TwinSame
  <2>3. CASE x \notin T
    <3>1. q.slv[x] = r.slv[x] /\ k.link[x] = g.link[x]
      BY <1>6, <2>3 DEF Enlists
    <3>2. ClientOK(h, s, q, q.slv[x], g.srv[x], k.link[x])
      BY <1>3, <2>1, <3>1, TwinClient, TwinSame
    <3> QED
      BY <1>3, <1>6, <2>1, <2>2, <3>1, <3>2 DEF EndKept
  <2>4. CASE x \in T
    <3>1. /\ r.slv[x].st = "start" /\ q.slv[x].st = "end" /\ q.slv[x].init = init /\ q.slv[x].buf = buf
          /\ k.link[x].q = m /\ k.link[x].to = g.link[x].to /\ k.link[x].open = g.link[x].open
      BY <1>6, <2>4 DEF Enlists
    <3>2. g.srv[x].state = "psync" /\ g.link[x].to = s /\ g.link[x].open /\ r.backlog # None
      BY <2>1, <3>1 DEF ClientOK
    <3>3. /\ ReplyOK(h, g.srv[x], m)
          /\ r.child.type = "disk" => Awaits(g.srv[x], m, r.id, init)
          /\ r.child.type = "socket" => Given(g.srv[x], m, r.id, init)
          /\ \A I : r.id \in I => QueueIn(I, m)
      BY <1>1, <1>2, <3>2, AnnouncesOK
    <3>4. LinkOK(h, g.srv[x], k.link[x])
      BY <3>1, <3>2, <3>3 DEF LinkOK
    <3>5. ClientOK(h, s, r, q.slv[x], g.srv[x], k.link[x])
      BY <3>1, <3>2, <3>3 DEF ClientOK
    <3>6. ClientOK(h, s, q, q.slv[x], g.srv[x], k.link[x])
      BY <1>3, <3>5, TwinClient, TwinSame
    <3>7. ASSUME NEW i \in 1..h.ids, i # r.id
          PROVE  QueueIn(Others(i), k.link[x].q)
      <4>1. r.id \in Others(i)
        BY <1>1, <3>7 DEF Others, Record
      <4> QED
        BY <3>1, <3>3, <4>1
    <3> QED
      BY <1>3, <1>6, <2>2, <3>1, <3>4, <3>6, <3>7 DEF EndKept
  <2> QED
    BY <2>3, <2>4
<1>7. q.host = r.host /\ q.id = r.id /\ (Alone(q) => Alone(r))
  BY <1>3 DEF Twin, Alone
<1>8. \A i \in 1..h.ids : NamedIn(Others(i), r, g.link[s]) => NamedIn(Others(i), q, k.link[s])
  BY <1>3, <1>5, TwinNamed
<1>9. Serves(h, h, g, k, s)
  BY <1>4, <1>5, <1>6, <1>7, <1>8 DEF Serves
<1>10. RecordOK(h, q) /\ OwnOK(q) /\ LinkOK(h, q, k.link[s])
  BY <1>1, <1>3, <1>5, TwinRecord, TwinOwn, TwinLink
<1>11. GrowsOn(Nat, h, h)
  BY <1>1, GrowsSame
<1> QED
  BY <1>1, <1>9, <1>10, <1>11, Serve

FullResync(i, k) == [type |-> "fullresync", id |-> i, off |-> k]
Ending(c, init) == [c EXCEPT !.st = "end", !.init = init]
Endings(r, T, init) == [t \in Server |-> IF t \in T THEN Ending(r.slv[t], init) ELSE r.slv[t]]
Enlisted(r, T, init) == [r EXCEPT !.slv = Endings(r, T, init), !.seldb = NoDb]

LEMMA EndingParts ==
    ASSUME NEW c \in Client, NEW init \in Nat
    PROVE  Ending(c, init) \in Client /\ Ending(c, init).st = "end" /\ Ending(c, init).init = init
           /\ Ending(c, init).buf = c.buf
  BY DEF Ending, Client

LEMMA EnlistedParts ==
    ASSUME NEW r \in Record, NEW T, NEW init \in Nat
    PROVE  /\ Enlisted(r, T, init) \in Record
           /\ Twin(Saved(r, NoDb, r.child, r.file), Enlisted(r, T, init))
           /\ Enlisted(r, T, init).slv = Endings(r, T, init)
<1> DEFINE C == Endings(r, T, init)
           q == Enlisted(r, T, init)
<1>1. C \in [Server -> Client]
  <2>1. \A t \in Server : r.slv[t] \in Client
    BY DEF Record
  <2>2. \A t \in Server : Ending(r.slv[t], init) \in Client
    BY <2>1, EndingParts
  <2> QED
    BY <2>1, <2>2 DEF Endings
<1>2. q = [r EXCEPT !.slv = C, !.seldb = NoDb]
  BY DEF Enlisted
<1> HIDE DEF C, q
<1>3. \A y \in Record : [y EXCEPT !.slv = C] \in Record
  BY <1>1 DEF Record
<1>4. \A y \in Record : [y EXCEPT !.seldb = NoDb] \in Record
  BY DEF Record
<1>5. q \in Record
  BY <1>2, <1>3, <1>4
<1>6. /\ q.host = r.host /\ q.state = r.state /\ q.id = r.id /\ q.id2 = r.id2 /\ q.off2 = r.off2
      /\ q.off = r.off /\ q.backlog = r.backlog /\ q.seldb = NoDb /\ q.db = r.db
      /\ q.cached = r.cached /\ q.mid = r.mid /\ q.moff = r.moff /\ q.sel = r.sel
      /\ q.child = r.child /\ q.file = r.file /\ q.slv = C
  BY <1>2 DEF Record
<1>7. Savable(NoDb, r.child, r.file)
  BY DEF Savable, Record
<1> DEFINE e == Saved(r, NoDb, r.child, r.file)
<1>8. /\ e.seldb = NoDb /\ e.child = r.child /\ e.file = r.file
      /\ e.host = r.host /\ e.state = r.state /\ e.id = r.id /\ e.id2 = r.id2 /\ e.off2 = r.off2 /\ e.off = r.off
      /\ e.backlog = r.backlog /\ e.db = r.db /\ e.cached = r.cached /\ e.mid = r.mid /\ e.moff = r.moff
      /\ e.sel = r.sel
  BY <1>7, SavedParts
<1> HIDE DEF e
<1>9. Twin(e, q)
  BY <1>6, <1>8 DEF Twin
<1> QED
  BY <1>5, <1>6, <1>9 DEF C, q, e

LEMMA SetupIs ==
    ASSUME NEW g, Typed(g), NEW s \in Server, NEW T, NEW init
    PROVE  SetupForFullResync(g, s, T, init)
              = SendTo(Put(g, s, Enlisted(g.srv[s], T, init)), T, <<FullResync(g.srv[s].id, init)>>)
<1> DEFINE C == Endings(g.srv[s], T, init)
           e == [g.srv[s] EXCEPT !.slv = C]
           b == [g EXCEPT !.srv[s].slv = C]
           m == <<FullResync(g.srv[s].id, init)>>
<1>1. SetupForFullResync(g, s, T, init) = SendTo([g EXCEPT !.srv[s].slv = C, !.srv[s].seldb = NoDb], T, m)
  BY DEF SetupForFullResync, Endings, Ending, FullResync
<1>2. [g EXCEPT !.srv[s].slv = C, !.srv[s].seldb = NoDb] = [b EXCEPT !.srv[s].seldb = NoDb]
  OBVIOUS
<1>3. Enlisted(g.srv[s], T, init) = [e EXCEPT !.seldb = NoDb]
  BY DEF Enlisted
<1> HIDE DEF C, m
<1>4. g.srv = [x \in Server |-> g.srv[x]] /\ g = [srv |-> g.srv, link |-> g.link]
  BY Shaped
<1>5. b = [g EXCEPT !.srv = [g.srv EXCEPT ![s] = e]]
  OBVIOUS
<1>6. b = Put(g, s, e)
  BY <1>4, <1>5, PutIs
<1> HIDE DEF e, b
<1>11. g.srv = [x \in Server |-> g.srv[x]]
  BY <1>4
<1>7. /\ b = [srv |-> b.srv, link |-> b.link] /\ b.srv[s] = e
      /\ \A q : Put(b, s, q) = Put(g, s, q)
  <2>1. /\ Put(g, s, e) = [srv |-> Put(g, s, e).srv, link |-> Put(g, s, e).link]
        /\ Put(g, s, e).srv[s] = e /\ Put(g, s, e).srv = [x \in Server |-> Put(g, s, e).srv[x]]
        /\ \A q : Put(Put(g, s, e), s, q) = Put(g, s, q)
    BY <1>11, PutAgain
  <2> QED
    BY <1>6, <2>1
<1>8. [b EXCEPT !.srv[s].seldb = NoDb] = [b EXCEPT !.srv = [b.srv EXCEPT ![s] = [b.srv[s] EXCEPT !.seldb = NoDb]]]
  OBVIOUS
<1>9. [b EXCEPT !.srv = [b.srv EXCEPT ![s] = [b.srv[s] EXCEPT !.seldb = NoDb]]]
         = Put(b, s, [b.srv[s] EXCEPT !.seldb = NoDb])
  BY <1>7, PutIs
<1>10. Put(b, s, [b.srv[s] EXCEPT !.seldb = NoDb]) = Put(g, s, Enlisted(g.srv[s], T, init))
  BY <1>3, <1>7
<1> QED
  BY <1>1, <1>2, <1>8, <1>9, <1>10 DEF m

LEMMA SetupParts ==
    ASSUME NEW g, Typed(g), NEW s \in Server, NEW T, NEW init \in Nat
    PROVE  LET k == SetupForFullResync(g, s, T, init) IN
           /\ Typed(k) /\ \A x \in Server \ {s} : k.srv[x] = g.srv[x]
           /\ Twin(Saved(g.srv[s], NoDb, g.srv[s].child, g.srv[s].file), k.srv[s])
           /\ \A t \in Server : t \in T =>
                 /\ k.srv[s].slv[t] = Ending(g.srv[s].slv[t], init)
                 /\ k.link[t] = Longer(g.link[t], <<FullResync(g.srv[s].id, init)>>)
           /\ \A t \in Server : t \notin T => k.srv[s].slv[t] = g.srv[s].slv[t] /\ k.link[t] = g.link[t]
<1> DEFINE r == g.srv[s]
           q == Enlisted(r, T, init)
           m == <<FullResync(r.id, init)>>
           b == Put(g, s, q)
           k == SetupForFullResync(g, s, T, init)
<1>1. r \in Record /\ r.host # s
  BY DEF Typed
<1>2. q \in Record /\ Twin(Saved(r, NoDb, r.child, r.file), q) /\ q.slv = Endings(r, T, init)
  BY <1>1, EnlistedParts
<1>3. q.host = r.host
  BY <1>1, Zenon DEF Enlisted, Record
<1>4. m \in Seq(Message)
  <2>1. FullResync(r.id, init) \in Message
    BY <1>1 DEF FullResync, Message, Record
  <2> QED
    BY <2>1
<1>5. k = SendTo(b, T, m)
  BY SetupIs
<1> HIDE DEF r, q, m, k
<1>6. Typed(b) /\ b.srv[s] = q /\ b.link = g.link /\ \A x \in Server \ {s} : b.srv[x] = g.srv[x]
  BY <1>1, <1>2, <1>3, PutParts
<1> HIDE DEF b
<1>7. /\ Typed(k) /\ k.srv = b.srv
      /\ \A t \in Server : k.link[t] = IF t \in T THEN Longer(b.link[t], m) ELSE b.link[t]
  BY <1>4, <1>5, <1>6, SendParts
<1>8. \A t \in Server : k.srv[s].slv[t] = IF t \in T THEN Ending(r.slv[t], init) ELSE r.slv[t]
  BY <1>2, <1>6, <1>7 DEF Endings
<1> QED
  BY <1>2, <1>6, <1>7, <1>8 DEF r, q, m, k

WithChild(r, c) == [r EXCEPT !.child = c]
Payload(f) == [type |-> "rdb", file |-> f]
Job(type, f) == [type |-> type, file |-> f]

LEMMA WithChildIs ==
    ASSUME NEW g, Typed(g), NEW s \in Server, NEW c
    PROVE  [g EXCEPT !.srv[s].child = c] = Put(g, s, WithChild(g.srv[s], c))
<1> DEFINE e == [g.srv[s] EXCEPT !.child = c]
<1>1. g = [srv |-> g.srv, link |-> g.link]
  BY Shaped
<1>2. [g EXCEPT !.srv[s].child = c] = [g EXCEPT !.srv = [g.srv EXCEPT ![s] = e]]
  OBVIOUS
<1>3. WithChild(g.srv[s], c) = e
  BY DEF WithChild
<1> HIDE DEF e
<1>4. [g EXCEPT !.srv = [g.srv EXCEPT ![s] = e]] = Put(g, s, e)
  BY <1>1, PutIs
<1> QED
  BY <1>2, <1>3, <1>4

LEMMA WithChildParts ==
    ASSUME NEW r \in Record, NEW c \in Child, NEW e, Twin(Saved(e, NoDb, e.child, e.file), r), NEW f, e \in Record,
           f = Saved(e, NoDb, c, e.file)
    PROVE  /\ WithChild(r, c) \in Record /\ WithChild(r, c).host = r.host /\ WithChild(r, c).slv = r.slv
           /\ Twin(f, WithChild(r, c))
<1> DEFINE q == WithChild(r, c)
           z == Saved(e, NoDb, e.child, e.file)
<1>1. q \in Record
  BY DEF WithChild, Record
<1>2. /\ q.host = r.host /\ q.state = r.state /\ q.id = r.id /\ q.id2 = r.id2 /\ q.off2 = r.off2
      /\ q.off = r.off /\ q.backlog = r.backlog /\ q.seldb = r.seldb /\ q.db = r.db
      /\ q.cached = r.cached /\ q.mid = r.mid /\ q.moff = r.moff /\ q.sel = r.sel
      /\ q.child = c /\ q.file = r.file /\ q.slv = r.slv
  BY DEF WithChild, Record
<1>3. Savable(NoDb, e.child, e.file) /\ Savable(NoDb, c, e.file)
  BY DEF Savable, Record
<1>4. /\ z.seldb = NoDb /\ z.file = e.file
      /\ z.host = e.host /\ z.state = e.state /\ z.id = e.id /\ z.id2 = e.id2 /\ z.off2 = e.off2 /\ z.off = e.off
      /\ z.backlog = e.backlog /\ z.db = e.db /\ z.cached = e.cached /\ z.mid = e.mid /\ z.moff = e.moff
      /\ z.sel = e.sel
  BY <1>3, SavedParts
<1>5. /\ f.seldb = NoDb /\ f.file = e.file /\ f.child = c
      /\ f.host = e.host /\ f.state = e.state /\ f.id = e.id /\ f.id2 = e.id2 /\ f.off2 = e.off2 /\ f.off = e.off
      /\ f.backlog = e.backlog /\ f.db = e.db /\ f.cached = e.cached /\ f.mid = e.mid /\ f.moff = e.moff
      /\ f.sel = e.sel
  BY <1>3, SavedParts
<1>6. Twin(z, r)
  OBVIOUS
<1> HIDE DEF q, z
<1>7. Twin(f, q)
  BY <1>2, <1>4, <1>5, <1>6 DEF Twin
<1> QED
  BY <1>1, <1>2, <1>7 DEF q

LEMMA StartBgsaveParts ==
    ASSUME NEW g, Typed(g), NEW s \in Server, NEW type \in {"disk", "socket"}
    PROVE  LET k == StartBgsave(g, s, type)
               r == g.srv[s]
               fr == <<FullResync(r.id, r.off)>> IN
           /\ Typed(k) /\ \A x \in Server \ {s} : k.srv[x] = g.srv[x]
           /\ Twin(Saved(r, NoDb, Job(type, Snapshot(r)), r.file), k.srv[s])
           /\ \A t \in Server : t \in Waiting(g, s) =>
                 /\ k.srv[s].slv[t] = Ending(r.slv[t], r.off)
                 /\ type = "disk" => k.link[t] = Longer(g.link[t], fr)
                 /\ type = "socket" => k.link[t] = Longer(Longer(g.link[t], fr), <<Payload(Snapshot(r))>>)
           /\ \A t \in Server : t \notin Waiting(g, s) => k.srv[s].slv[t] = r.slv[t] /\ k.link[t] = g.link[t]
<1> DEFINE r == g.srv[s]
           W == Waiting(g, s)
           f == Snapshot(r)
           c == Job(type, f)
           b == SetupForFullResync(g, s, W, r.off)
           m == <<Payload(f)>>
           n == IF type = "socket" THEN SendTo(b, W, m) ELSE b
           k == StartBgsave(g, s, type)
           fr == <<FullResync(r.id, r.off)>>
<1>1. r \in Record /\ r.off \in Nat
  BY DEF Typed, Record
<1>2. f \in File
  BY <1>1, SnapshotParts
<1>3. c \in Child
  BY <1>2 DEF Child, Job
<1>4. m \in Seq(Message)
  <2>1. Payload(f) \in Message
    BY <1>2 DEF Message, Payload
  <2> QED
    BY <2>1
<1>5. /\ Typed(b) /\ \A x \in Server \ {s} : b.srv[x] = g.srv[x]
      /\ Twin(Saved(r, NoDb, r.child, r.file), b.srv[s])
      /\ \A t \in Server : t \in W => b.srv[s].slv[t] = Ending(r.slv[t], r.off) /\ b.link[t] = Longer(g.link[t], fr)
      /\ \A t \in Server : t \notin W => b.srv[s].slv[t] = r.slv[t] /\ b.link[t] = g.link[t]
  <2> HIDE DEF W
  <2> QED
    BY <1>1, SetupParts
<1>6. k = [n EXCEPT !.srv[s].child = c]
  BY DEF StartBgsave, Payload, Job
<1> HIDE DEF W, b, m, k, f, c, fr
<1>7. /\ Typed(n) /\ n.srv = b.srv
      /\ \A t \in Server : t \notin W => n.link[t] = b.link[t]
      /\ \A t \in Server : t \in W /\ type = "disk" => n.link[t] = b.link[t]
      /\ \A t \in Server : t \in W /\ type = "socket" => n.link[t] = Longer(b.link[t], m)
  <2>1. CASE type = "socket"
    <3>1. n = SendTo(b, W, m)
      BY <2>1
    <3>2. /\ Typed(SendTo(b, W, m)) /\ SendTo(b, W, m).srv = b.srv
          /\ \A t \in Server : SendTo(b, W, m).link[t] = IF t \in W THEN Longer(b.link[t], m) ELSE b.link[t]
      BY <1>4, <1>5, SendParts
    <3> QED
      BY <2>1, <3>1, <3>2
  <2>2. CASE type = "disk"
    BY <1>5, <2>2
  <2> QED
    BY <2>1, <2>2
<1> HIDE DEF n
<1> DEFINE q == WithChild(n.srv[s], c)
<1>8. k = Put(n, s, q)
  BY <1>6, <1>7, WithChildIs
<1>9. n.srv[s] \in Record /\ n.srv[s].host # s
  BY <1>7 DEF Typed
<1>10. Twin(Saved(r, NoDb, r.child, r.file), n.srv[s])
  BY <1>5, <1>7
<1>11. /\ q \in Record /\ q.host = n.srv[s].host /\ q.slv = n.srv[s].slv
       /\ Twin(Saved(r, NoDb, c, r.file), q)
  <2> HIDE DEF r
  <2> DEFINE e == Saved(r, NoDb, c, r.file)
  <2>1. e = Saved(r, NoDb, c, r.file)
    OBVIOUS
  <2> HIDE DEF e
  <2>2. /\ q \in Record /\ q.host = n.srv[s].host /\ q.slv = n.srv[s].slv /\ Twin(e, q)
    BY <1>1, <1>3, <1>9, <1>10, <2>1, WithChildParts
  <2> QED
    BY <2>1, <2>2
<1> HIDE DEF q
<1>12. Typed(k) /\ k.srv[s] = q /\ k.link = n.link /\ \A x \in Server \ {s} : k.srv[x] = n.srv[x]
  BY <1>7, <1>8, <1>9, <1>11, PutParts
<1>13. /\ Typed(k) /\ \A x \in Server \ {s} : k.srv[x] = g.srv[x]
       /\ Twin(Saved(r, NoDb, c, r.file), k.srv[s])
  BY <1>5, <1>7, <1>11, <1>12
<1>14. \A t \in Server : t \in W =>
                 /\ k.srv[s].slv[t] = Ending(r.slv[t], r.off)
                 /\ type = "disk" => k.link[t] = Longer(g.link[t], fr)
                 /\ type = "socket" => k.link[t] = Longer(Longer(g.link[t], fr), m)
  BY <1>5, <1>7, <1>11, <1>12
<1>15. \A t \in Server : t \notin W => k.srv[s].slv[t] = r.slv[t] /\ k.link[t] = g.link[t]
  BY <1>5, <1>7, <1>11, <1>12
<1> QED
  BY <1>13, <1>14, <1>15 DEF W, k, f, c, fr, m

LEMMA AnnounceDisk ==
    ASSUME NEW i \in Nat, NEW k \in Nat, NEW f, NEW l \in Link, l.q = <<>>
    PROVE  /\ Announces(<<FullResync(i, k)>>, i, k, "disk", f)
           /\ Longer(l, <<FullResync(i, k)>>).q = <<FullResync(i, k)>>
<1> DEFINE x == FullResync(i, k)
           m == <<x>>
<1>1. x \in Message /\ x.type = "fullresync" /\ x.id = i /\ x.off = k
  BY DEF FullResync, Message
<1> HIDE DEF x
<1>2. m \in Seq(Message) /\ m # <<>> /\ m[1] = x /\ Len(m) = 1 /\ Tail(m) = <<>>
  BY <1>1
<1> HIDE DEF m
<1>3. Announces(m, i, k, "disk", f)
  BY <1>1, <1>2 DEF Announces
<1>4. Longer(l, m).q = l.q \o m
  BY <1>2, LongerParts
<1>5. <<>> \o m = m
  BY <1>2, ConcatEmpty
<1>6. Longer(l, m).q = m
  BY <1>4, <1>5
<1> QED
  BY <1>3, <1>6 DEF m, x

LEMMA AnnounceSocket ==
    ASSUME NEW i \in Nat, NEW k \in Nat, NEW f \in File, NEW l \in Link, l.q = <<>>
    PROVE  LET n == Longer(Longer(l, <<FullResync(i, k)>>), <<Payload(f)>>) IN
           /\ Announces(n.q, i, k, "socket", f)
           /\ n.q = <<FullResync(i, k)>> \o <<Payload(f)>>
           /\ n.to = l.to /\ n.open = l.open
<1> DEFINE x == FullResync(i, k)
           y == Payload(f)
           m == <<x>>
           p == <<y>>
           z == Longer(l, m)
           n == Longer(z, p)
<1>1. /\ x \in Message /\ x.type = "fullresync" /\ x.id = i /\ x.off = k
      /\ y \in Message /\ y.type = "rdb" /\ y.file = f
  BY DEF FullResync, Message, Payload
<1> HIDE DEF x, y
<1>2. /\ m \in Seq(Message) /\ m # <<>> /\ m[1] = x /\ Len(m) = 1 /\ Tail(m) = <<>>
      /\ p \in Seq(Message) /\ p # <<>> /\ p[1] = y /\ Len(p) = 1 /\ Tail(p) = <<>>
  BY <1>1
<1> HIDE DEF m, p
<1>3. z \in Link /\ z.q = l.q \o m /\ z.to = l.to /\ z.open = l.open
  BY <1>2, LongerParts
<1>4. <<>> \o m = m /\ <<>> \o p = p
  BY <1>2, ConcatEmpty
<1>5. z.q = m
  BY <1>3, <1>4
<1> HIDE DEF z
<1>6. n.q = z.q \o p /\ n.to = z.to /\ n.open = z.open
  BY <1>2, <1>3, LongerParts
<1>7. /\ m \o p \in Seq(Message) /\ m \o p # <<>> /\ (m \o p)[1] = m[1] /\ Tail(m \o p) = Tail(m) \o p
      /\ Len(m \o p) = Len(m) + Len(p)
  <2>1. m \in Seq(Message) /\ p \in Seq(Message) /\ m # <<>>
    BY <1>2
  <2> QED
    BY <2>1, ConcatParts
<1>8. n.q = m \o p
  BY <1>5, <1>6
<1>9. Tail(m \o p) = p
  BY <1>2, <1>4, <1>7
<1>10. Len(m \o p) = 2
  BY <1>2, <1>7
<1> HIDE DEF n
<1>11. Announces(n.q, i, k, "socket", f)
  BY <1>1, <1>2, <1>7, <1>8, <1>9, <1>10 DEF Announces
<1> QED
  BY <1>3, <1>6, <1>8, <1>11 DEF n, z, m, p, x, y

LEMMA StartBgsaveOK ==
    ASSUME NEW h, NEW g, GroupOK(h, g), NEW s \in Server, NEW type \in {"disk", "socket"},
           g.srv[s].child = None, CanBgsave(g, s)
    PROVE  /\ Held(h, StartBgsave(g, s, type))
           /\ \A x \in Server : StartBgsave(g, s, type).srv[x].id = g.srv[x].id
<1> DEFINE r == g.srv[s]
           W == Waiting(g, s)
           f == Snapshot(r)
           c == Job(type, f)
           e == Saved(r, NoDb, c, r.file)
           b == Put(g, s, e)
           k == StartBgsave(g, s, type)
           fr == <<FullResync(r.id, r.off)>>
           rdb == <<Payload(f)>>
           m == IF type = "socket" THEN fr \o rdb ELSE fr
<1>1. /\ h \in History /\ HistoryOK(h) /\ r \in Record /\ r.host # s /\ RecordOK(h, r) /\ OwnOK(r) /\ Typed(g)
      /\ \A t \in Server : r.slv[t] \in Client /\ g.link[t] \in Link /\ ClientOK(h, s, r, r.slv[t], g.srv[t], g.link[t])
  BY GroupParts DEF GroupOK
<1>2. StreamDb(r) # NoDb /\ r.child = None
  BY DEF CanBgsave
<1>3. f \in File /\ f.sel # NoDb /\ f.id = r.id /\ f.off = r.off /\ FileOK(h, f) /\ ~Private(r)
  BY <1>1, <1>2, SnapshotParts, SnapshotOK
<1>4. c \in Child /\ c.type = type /\ c.file = f /\ c # None
  BY <1>3, ReplicationConstants DEF Child, Job
<1>5. \A t \in Server : t \in W <=> r.slv[t].st = "start"
  BY DEF Waiting
<1>6. /\ Typed(k) /\ \A x \in Server \ {s} : k.srv[x] = g.srv[x]
      /\ Twin(e, k.srv[s])
      /\ \A t \in Server : t \in W =>
            /\ k.srv[s].slv[t] = Ending(r.slv[t], r.off)
            /\ type = "disk" => k.link[t] = Longer(g.link[t], fr)
            /\ type = "socket" => k.link[t] = Longer(Longer(g.link[t], fr), rdb)
      /\ \A t \in Server : t \notin W => k.srv[s].slv[t] = r.slv[t] /\ k.link[t] = g.link[t]
  BY <1>1, StartBgsaveParts
<1> HIDE DEF f, c, W, k
<1>7. Held(h, b)
  <2>1. \A t \in Server : r.slv[t].st # "end"
    BY <1>1, <1>2 DEF ClientOK
  <2>2. r.file \in File /\ FileOK(h, r.file)
    BY <1>1 DEF Record, RecordOK, FilesOK
  <2>3. \A I : FilesIn(I, r) /\ r.id \in I /\ NoId \in I => r.file.id \in I /\ (c # None => c.file.id \in I)
    BY <1>3, <1>4 DEF FilesIn
  <2>4. c \in Child \cup {None} /\ NoDb \in {NoDb, g.srv[s].seldb} /\ (c # None => FileOK(h, c.file))
    BY <1>3, <1>4
  <2>5. Private(r) => r.file.id # r.id /\ (c # None => c.file.id # r.id)
    BY <1>3
  <2> QED
    BY <2>1, <2>2, <2>3, <2>4, <2>5, SavedOK
<1>8. PICK j \in History : j.ids = h.ids /\ j.writes = h.writes /\ GroupOK(j, b)
  BY <1>7 DEF Held
<1>9. Savable(NoDb, c, r.file)
  BY <1>1, <1>4 DEF Savable, Record
<1>10. /\ e \in Record /\ e.child = c /\ e.id = r.id /\ e.off = r.off /\ e.host = r.host /\ e.slv = r.slv
  BY <1>1, <1>9, SavedParts
<1> HIDE DEF e
<1>11. b.srv[s] = e /\ b.link = g.link /\ \A x \in Server \ {s} : b.srv[x] = g.srv[x]
  BY <1>1, <1>10, PutParts
<1> HIDE DEF b
<1>12. r.off \in Nat /\ r.id \in Nat
  BY <1>1 DEF Record
<1>13. RecordOK(j, e)
  BY <1>8, <1>11, GroupParts
<1>14. FileAt(j, f, r.id, r.off)
  BY <1>3, <1>4, <1>10, <1>13 DEF RecordOK, FilesOK, FileAt
<1>15. Stream(j, r.id, r.off, <<>>)
  <2>1. r.off <= j.len[r.id]
    BY <1>10, <1>13 DEF RecordOK
  <2> QED
    BY <1>12, <2>1, StreamNone
<1>16. ASSUME NEW t \in Server, t \in W
       PROVE  /\ r.slv[t].st = "start"
              /\ k.srv[s].slv[t].st = "end" /\ k.srv[s].slv[t].init = r.off /\ k.srv[s].slv[t].buf = <<>>
              /\ k.link[t].q = m /\ k.link[t].to = g.link[t].to /\ k.link[t].open = g.link[t].open
  <2>1. r.slv[t].st = "start" /\ g.link[t].q = <<>> /\ r.slv[t].buf = <<>>
    BY <1>1, <1>5, <1>16 DEF ClientOK
  <2>2. k.srv[s].slv[t].st = "end" /\ k.srv[s].slv[t].init = r.off /\ k.srv[s].slv[t].buf = r.slv[t].buf
    <3>1. r.slv[t] \in Client /\ r.off \in Nat
      BY <1>1, <1>12
    <3>2. LET c1 == Ending(r.slv[t], r.off) IN c1.st = "end" /\ c1.init = r.off /\ c1.buf = r.slv[t].buf
      BY <3>1, EndingParts
    <3>3. k.srv[s].slv[t] = Ending(r.slv[t], r.off)
      BY <1>6, <1>16
    <3> QED
      BY <3>2, <3>3
  <2>3. CASE type = "disk"
    <3>1. Longer(g.link[t], fr).q = fr
      BY <1>1, <1>12, <2>1, AnnounceDisk
    <3>2. fr \in Seq(Message)
      BY <1>12 DEF FullResync, Message
    <3>3. Longer(g.link[t], fr).to = g.link[t].to /\ Longer(g.link[t], fr).open = g.link[t].open
      BY <1>1, <3>2, LongerParts
    <3>4. m = fr
      BY <2>3
    <3> HIDE DEF m, fr
    <3> QED
      BY <1>6, <1>16, <2>1, <2>2, <2>3, <3>1, <3>3, <3>4
  <2>4. CASE type = "socket"
    <3> DEFINE n == Longer(Longer(g.link[t], fr), rdb)
    <3>1. n.q = fr \o rdb /\ n.to = g.link[t].to /\ n.open = g.link[t].open
      BY <1>1, <1>3, <1>12, <2>1, AnnounceSocket
    <3>2. m = fr \o rdb
      BY <2>4
    <3>3. k.link[t] = n
      BY <1>6, <1>16, <2>4
    <3> HIDE DEF m, fr, rdb, n
    <3> QED
      BY <2>1, <2>2, <3>1, <3>2, <3>3
  <2> QED
    BY <2>3, <2>4
<1>17. Announces(m, r.id, r.off, type, f)
  <2>1. NoLink \in Link /\ NoLink.q = <<>>
    BY ClientTypes
  <2>2. CASE type = "disk"
    <3>1. Announces(fr, r.id, r.off, "disk", f)
      BY <1>12, <2>1, AnnounceDisk
    <3>2. m = fr
      BY <2>2
    <3> HIDE DEF m, fr
    <3> QED
      BY <2>2, <3>1, <3>2
  <2>3. CASE type = "socket"
    <3> DEFINE n == Longer(Longer(NoLink, fr), rdb)
    <3>1. Announces(n.q, r.id, r.off, "socket", f) /\ n.q = fr \o rdb
      BY <1>3, <1>12, <2>1, AnnounceSocket
    <3>2. m = fr \o rdb
      BY <2>3
    <3> HIDE DEF m, fr, rdb, n
    <3> QED
      BY <2>3, <3>1, <3>2
  <2> QED
    BY <2>2, <2>3
<1> HIDE DEF m, fr, rdb
<1> DEFINE z == <<>>
<1>18. z \in Seq(Command) /\ r.off + Len(z) = r.off /\ Stream(j, r.id, r.off, z)
  BY <1>12, <1>15
<1>19. \A t \in Server : t \in W => k.srv[s].slv[t].buf = z
  BY <1>16
<1> HIDE DEF z
<1>20. Enlists(b, k, s, W, r.off, z, m)
  <2>1. \A x \in Server \ {s} : k.srv[x] = b.srv[x]
    BY <1>6, <1>11
  <2>2. Twin(b.srv[s], k.srv[s])
    BY <1>6, <1>11
  <2>3. \A t \in Server : t \in W =>
          /\ b.srv[s].slv[t].st = "start"
          /\ k.srv[s].slv[t].st = "end" /\ k.srv[s].slv[t].init = r.off /\ k.srv[s].slv[t].buf = z
          /\ k.link[t].q = m /\ k.link[t].to = b.link[t].to /\ k.link[t].open = b.link[t].open
    BY <1>10, <1>11, <1>16, <1>19
  <2>4. \A t \in Server : t \notin W => k.srv[s].slv[t] = b.srv[s].slv[t] /\ k.link[t] = b.link[t]
    BY <1>6, <1>10, <1>11
  <2> QED
    BY <2>1, <2>2, <2>3, <2>4 DEF Enlists
<1>21. /\ b.srv[s].child # None /\ FileAt(j, b.srv[s].child.file, b.srv[s].id, r.off)
       /\ Stream(j, b.srv[s].id, r.off, z) /\ r.off + Len(z) = b.srv[s].off
       /\ Announces(m, b.srv[s].id, r.off, b.srv[s].child.type, b.srv[s].child.file)
  BY <1>4, <1>10, <1>11, <1>14, <1>17, <1>18
<1>22. GroupOK(j, k)
  BY <1>6, <1>8, <1>12, <1>18, <1>20, <1>21, EnlistOK
<1>23. \A x \in Server : k.srv[x].id = g.srv[x].id
  BY <1>6, <1>10 DEF Twin
<1> QED
  BY <1>8, <1>22, <1>23 DEF Held, k

LEMMA WithChildType ==
    ASSUME NEW r \in Record, NEW c \in Child
    PROVE  WithChild(r, c) \in Record /\ WithChild(r, c).file = r.file
  BY DEF WithChild, Record

LEMMA BgsaveOK ==
    ASSUME NEW h, NEW g, GroupOK(h, g), NEW s \in Server, g.srv[s].child = None
    PROVE  LET k == [g EXCEPT !.srv[s].child = Job("disk", Snapshot(g.srv[s]))] IN
           Held(h, k) /\ \A x \in Server : k.srv[x].id = g.srv[x].id
<1> DEFINE r == g.srv[s]
           f == Snapshot(r)
           c == Job("disk", f)
           e == Saved(r, r.seldb, c, r.file)
           k == [g EXCEPT !.srv[s].child = c]
<1>1. /\ h \in History /\ HistoryOK(h) /\ r \in Record /\ r.host # s /\ RecordOK(h, r) /\ OwnOK(r) /\ Typed(g)
      /\ \A t \in Server : ClientOK(h, s, r, r.slv[t], g.srv[t], g.link[t])
  BY GroupParts DEF GroupOK
<1>2. /\ f \in File /\ FileOK(h, f) /\ f.id \in {NoId, r.id} /\ (Private(r) => f.id = NoId)
  BY <1>1, SnapshotParts, SnapshotOK
<1>3. c \in Child /\ c.file = f
  BY <1>2 DEF Child, Job
<1>4. k = Put(g, s, WithChild(r, c))
  BY <1>1, WithChildIs
<1> HIDE DEF f, c, k
<1>5. WithChild(r, c) = e
  <2> DEFINE y == [r EXCEPT !.seldb = r.seldb]
             z == [y EXCEPT !.child = c]
  <2>1. y = r
    BY <1>1 DEF Record
  <2>2. e = [z EXCEPT !.file = r.file]
    BY DEF Saved
  <2> HIDE DEF y
  <2>4. z = WithChild(r, c)
    BY <2>1 DEF WithChild
  <2> HIDE DEF z
  <2>6. WithChild(r, c) \in Record /\ WithChild(r, c).file = r.file
    BY <1>1, <1>3, WithChildType
  <2>3. z \in Record /\ z.file = r.file
    BY <2>4, <2>6
  <2>5. [z EXCEPT !.file = z.file] = z
    BY <2>3 DEF Record
  <2> QED
    BY <2>2, <2>3, <2>4, <2>5
<1>6. Held(h, Put(g, s, e))
  <2>1. \A t \in Server : r.slv[t].st # "end"
    BY <1>1 DEF ClientOK
  <2>2. r.file \in File /\ FileOK(h, r.file) /\ r.id \in 1..h.ids /\ r.id \in Nat
    BY <1>1 DEF Record, RecordOK, FilesOK
  <2>3. \A I : FilesIn(I, r) /\ r.id \in I /\ NoId \in I => r.file.id \in I /\ (c # None => c.file.id \in I)
    BY <1>2, <1>3 DEF FilesIn
  <2>4. c \in Child \cup {None} /\ (c # None => FileOK(h, c.file))
    BY <1>2, <1>3
  <2>5. Private(r) => r.file.id # r.id /\ (c # None => c.file.id # r.id)
    <3>1. r.id # NoId
      BY <2>2 DEF NoId
    <3>2. Private(r) => r.file.id # r.id
      BY <1>1, <2>2 DEF OwnOK, FilesIn, Others
    <3> QED
      BY <1>2, <1>3, <3>1, <3>2
  <2>6. r.seldb \in {NoDb, g.srv[s].seldb}
    OBVIOUS
  <2> QED
    BY <2>1, <2>2, <2>3, <2>4, <2>5, <2>6, SavedOK
<1>7. Savable(r.seldb, c, r.file)
  BY <1>1, <1>3 DEF Savable, Record
<1>8. e \in Record /\ e.host = r.host /\ e.id = r.id
  BY <1>1, <1>7, SavedParts
<1> HIDE DEF e
<1>9. Put(g, s, e).srv[s] = e /\ \A x \in Server \ {s} : Put(g, s, e).srv[x] = g.srv[x]
  BY <1>1, <1>8, PutParts
<1> QED
  BY <1>4, <1>5, <1>6, <1>8, <1>9 DEF k, c, f

LEMMA BgsaveFailedParts ==
    ASSUME NEW h, NEW g, GroupOK(h, g), NEW s \in Server
    PROVE  LET k == BgsaveFailed(g, s) IN
           /\ Typed(k) /\ \A x \in Server \ {s} : k.srv[x] = g.srv[x]
           /\ \A x \in Server : Twin(g.srv[x], k.srv[x])
           /\ \A t \in Server : t \notin Waiting(g, s) => k.srv[s].slv[t] = g.srv[s].slv[t] /\ k.link[t] = g.link[t]
           /\ \A t \in Server : t \in Waiting(g, s) =>
                 /\ k.srv[s].slv[t] = NoClient
                 /\ Len(k.link[t].q) = 1 /\ k.link[t].q # <<>> /\ k.link[t].q[1].type = "error"
<1> DEFINE r == g.srv[s]
           W == Waiting(g, s)
           y == [type |-> "error"]
           m == <<y>>
           b == SendTo(g, W, m)
           k == BgsaveFailed(g, s)
<1>1. /\ Typed(g) /\ \A t \in Server : r.slv[t] \in Client /\ g.link[t] \in Link
      /\ \A t \in Server : ClientOK(h, s, r, r.slv[t], g.srv[t], g.link[t])
  BY GroupParts DEF GroupOK
<1>2. y \in Message /\ y.type = "error"
  BY DEF Message
<1> HIDE DEF y
<1>3. m \in Seq(Message) /\ Len(m) = 1 /\ m # <<>> /\ m[1].type = "error"
  BY <1>2
<1>4. k = CloseSlaves(b, s, W)
  BY DEF BgsaveFailed, y
<1>5. \A t \in Server : t \in W <=> r.slv[t].st = "start"
  BY DEF Waiting
<1> HIDE DEF m, W, k
<1>6. /\ Typed(b) /\ b.srv = g.srv
      /\ \A t \in Server : b.link[t] = IF t \in W THEN Longer(g.link[t], m) ELSE g.link[t]
  BY <1>1, <1>3, SendParts
<1> HIDE DEF b
<1>7. /\ Typed(k)
      /\ \A x \in Server : Twin(b.srv[x], k.srv[x])
      /\ \A x \in Server \ {s} : k.srv[x] = b.srv[x]
      /\ \A t \in Server : k.srv[s].slv[t] = IF t \in W THEN NoClient ELSE b.srv[s].slv[t]
      /\ \A t \in Server : k.link[t] = IF t \in W /\ b.link[t].to = s
                                       THEN [b.link[t] EXCEPT !.open = FALSE] ELSE b.link[t]
      /\ \A t \in Server : k.link[t].q = b.link[t].q /\ k.link[t].to = b.link[t].to
  BY <1>4, <1>6, CloseSlavesParts
<1>8. ASSUME NEW t \in Server, t \in W
      PROVE  Len(k.link[t].q) = 1 /\ k.link[t].q # <<>> /\ k.link[t].q[1].type = "error"
  <2>1. g.link[t].q = <<>> /\ g.link[t] \in Link
    BY <1>1, <1>5, <1>8 DEF ClientOK
  <2>2. Longer(g.link[t], m).q = g.link[t].q \o m
    BY <1>3, <2>1, LongerParts
  <2>3. <<>> \o m = m
    BY <1>3, ConcatEmpty
  <2>4. k.link[t].q = m
    BY <1>6, <1>7, <1>8, <2>1, <2>2, <2>3
  <2> QED
    BY <1>3, <2>4
<1>9. \A t \in Server : t \notin W => k.srv[s].slv[t] = g.srv[s].slv[t] /\ k.link[t] = g.link[t]
  BY <1>6, <1>7
<1>10. \A t \in Server : t \in W => k.srv[s].slv[t] = NoClient
  BY <1>7
<1> QED
  BY <1>6, <1>7, <1>8, <1>9, <1>10 DEF W, k

LEMMA BgsaveFailedOK ==
    ASSUME NEW h, NEW g, GroupOK(h, g), NEW s \in Server
    PROVE  GroupOK(h, BgsaveFailed(g, s)) /\ \A x \in Server : BgsaveFailed(g, s).srv[x].id = g.srv[x].id
<1> DEFINE r == g.srv[s]
           W == Waiting(g, s)
           k == BgsaveFailed(g, s)
           q == k.srv[s]
<1>1. /\ h \in History /\ HistoryOK(h) /\ r \in Record /\ RecordOK(h, r) /\ OwnOK(r) /\ LinkOK(h, r, g.link[s])
  BY GroupParts
<1>2. /\ Typed(k) /\ \A x \in Server \ {s} : k.srv[x] = g.srv[x]
      /\ \A x \in Server : Twin(g.srv[x], k.srv[x])
      /\ \A t \in Server : t \notin W => k.srv[s].slv[t] = g.srv[s].slv[t] /\ k.link[t] = g.link[t]
      /\ \A t \in Server : t \in W =>
            /\ k.srv[s].slv[t] = NoClient
            /\ Len(k.link[t].q) = 1 /\ k.link[t].q # <<>> /\ k.link[t].q[1].type = "error"
  BY BgsaveFailedParts
<1>3. \A t \in Server : t \in W <=> r.slv[t].st = "start"
  BY DEF Waiting
<1> HIDE DEF k, W
<1>4. s \notin W /\ r.slv[s].st = "none"
  <2>1. r.slv[s].st = "none"
    BY NoSelf
  <2> QED
    BY <1>3, <2>1
<1>5. k.link[s] = g.link[s] /\ q.slv[s] = r.slv[s] /\ Twin(r, q)
  BY <1>2, <1>4
<1>6. ASSUME NEW x \in Server \ {s}
      PROVE  /\ k.srv[x] = g.srv[x] /\ EndKept(h, h, g.srv[x])
             /\ ClientOK(h, x, g.srv[x], g.srv[x].slv[s], q, k.link[s])
             /\ k.link[x] = g.link[x] \/ r.slv[x].st # "none"
             /\ LinkOK(h, g.srv[x], k.link[x])
             /\ ClientOK(h, s, q, q.slv[x], g.srv[x], k.link[x])
             /\ \A i \in 1..h.ids : i # r.id /\ QueueIn(Others(i), g.link[x].q) => QueueIn(Others(i), k.link[x].q)
  <2>1. ClientOK(h, x, g.srv[x], g.srv[x].slv[s], r, g.link[s]) /\ ClientOK(h, s, r, r.slv[x], g.srv[x], g.link[x])
        /\ LinkOK(h, g.srv[x], g.link[x])
    BY <1>6, GroupParts
  <2>2. ClientOK(h, x, g.srv[x], g.srv[x].slv[s], q, k.link[s])
    BY <1>5, <2>1, TwinClient, TwinSame
  <2>3. CASE x \notin W
    <3>1. q.slv[x] = r.slv[x] /\ k.link[x] = g.link[x]
      BY <1>2, <1>6, <2>3
    <3>2. ClientOK(h, s, q, q.slv[x], g.srv[x], k.link[x])
      BY <1>5, <2>1, <3>1, TwinClient, TwinSame
    <3> QED
      BY <1>2, <1>6, <2>1, <2>2, <3>1, <3>2 DEF EndKept
  <2>4. CASE x \in W
    <3>1. /\ r.slv[x].st = "start" /\ q.slv[x] = NoClient
          /\ Len(k.link[x].q) = 1 /\ k.link[x].q # <<>> /\ k.link[x].q[1].type = "error"
      BY <1>2, <1>3, <1>6, <2>4
    <3>2. g.srv[x].state = "psync"
      BY <2>1, <3>1 DEF ClientOK
    <3>3. LinkOK(h, g.srv[x], k.link[x])
      BY <3>1, <3>2 DEF LinkOK, ReplyOK
    <3>4. ClientOK(h, s, q, q.slv[x], g.srv[x], k.link[x])
      BY <3>1, ClientTypes, NoneOK
    <3>5. ASSUME NEW i \in 1..h.ids
          PROVE  QueueIn(Others(i), k.link[x].q)
      <4>1. NoId \in Others(i)
        BY <1>1, HistoryIds DEF NoId, Others
      <4>2. Names(k.link[x].q[1]) = NoId
        BY <3>1 DEF Names
      <4> QED
        BY <3>1, <4>1, <4>2 DEF QueueIn
    <3> QED
      BY <1>2, <1>6, <2>2, <3>1, <3>3, <3>4, <3>5 DEF EndKept
  <2> QED
    BY <2>3, <2>4
<1>7. q.host = r.host /\ q.id = r.id /\ (Alone(q) => Alone(r))
  BY <1>5 DEF Twin, Alone
<1>8. \A i \in 1..h.ids : NamedIn(Others(i), r, g.link[s]) => NamedIn(Others(i), q, k.link[s])
  BY <1>5, TwinNamed
<1>9. Serves(h, h, g, k, s)
  BY <1>4, <1>5, <1>6, <1>7, <1>8 DEF Serves
<1>10. RecordOK(h, q) /\ OwnOK(q) /\ LinkOK(h, q, k.link[s])
  BY <1>1, <1>5, TwinRecord, TwinOwn, TwinLink
<1>11. GrowsOn(Nat, h, h)
  BY <1>1, GrowsSame
<1>12. GroupOK(h, k)
  BY <1>1, <1>2, <1>9, <1>10, <1>11, Serve
<1> QED
  BY <1>2, <1>12 DEF k, Twin

\* A client with the output that another one has accumulated.
Copied(c, buf) == [c EXCEPT !.buf = buf]

LEMMA CopiedIs ==
    ASSUME NEW g, Typed(g), NEW s \in Server, NEW t \in Server, NEW buf
    PROVE  [g EXCEPT !.srv[s].slv[t].buf = buf] = Put(g, s, Served(g.srv[s], t, Copied(g.srv[s].slv[t], buf)))
<1> DEFINE c == Copied(g.srv[s].slv[t], buf)
<1>1. [g EXCEPT !.srv[s].slv[t].buf = buf] = [g EXCEPT !.srv[s].slv[t] = c]
  BY DEF Copied
<1> HIDE DEF c
<1>2. [g EXCEPT !.srv[s].slv[t] = c] = Put(g, s, Served(g.srv[s], t, c))
  BY ServedIs
<1> QED
  BY <1>1, <1>2 DEF c

LEMMA SavedTwin ==
    ASSUME NEW r \in Record, NEW q \in Record, Twin(r, q), NEW k, Twin(Saved(q, NoDb, q.child, q.file), k)
    PROVE  Twin(Saved(r, NoDb, r.child, r.file), k)
<1> DEFINE e == Saved(r, NoDb, r.child, r.file)
           f == Saved(q, NoDb, q.child, q.file)
<1>1. Savable(NoDb, r.child, r.file) /\ Savable(NoDb, q.child, q.file)
  BY DEF Savable, Record
<1>2. /\ e.seldb = NoDb /\ e.child = r.child /\ e.file = r.file
      /\ e.host = r.host /\ e.state = r.state /\ e.id = r.id /\ e.id2 = r.id2 /\ e.off2 = r.off2 /\ e.off = r.off
      /\ e.backlog = r.backlog /\ e.db = r.db /\ e.cached = r.cached /\ e.mid = r.mid /\ e.moff = r.moff
      /\ e.sel = r.sel
  BY <1>1, SavedParts
<1>3. /\ f.seldb = NoDb /\ f.child = q.child /\ f.file = q.file
      /\ f.host = q.host /\ f.state = q.state /\ f.id = q.id /\ f.id2 = q.id2 /\ f.off2 = q.off2 /\ f.off = q.off
      /\ f.backlog = q.backlog /\ f.db = q.db /\ f.cached = q.cached /\ f.mid = q.mid /\ f.moff = q.moff
      /\ f.sel = q.sel
  BY <1>1, SavedParts
<1>4. Twin(f, k)
  OBVIOUS
<1> HIDE DEF e, f
<1>5. Twin(e, k)
  BY <1>2, <1>3, <1>4 DEF Twin
<1> QED
  BY <1>5 DEF e

LEMMA AttachToParts ==
    ASSUME NEW g, Typed(g), NEW s \in Server, NEW t \in Server, NEW x \in Server
    PROVE  LET k == AttachTo(g, s, t, x)
               r == g.srv[s] IN
           /\ Typed(k) /\ \A y \in Server \ {s} : k.srv[y] = g.srv[y]
           /\ Twin(Saved(r, NoDb, r.child, r.file), k.srv[s])
           /\ k.srv[s].slv[t].st = "end" /\ k.srv[s].slv[t].init = r.slv[x].init /\ k.srv[s].slv[t].buf = r.slv[x].buf
           /\ k.link[t] = Longer(g.link[t], <<FullResync(r.id, r.slv[x].init)>>)
           /\ \A y \in Server \ {t} : k.srv[s].slv[y] = r.slv[y] /\ k.link[y] = g.link[y]
<1> DEFINE r == g.srv[s]
           c == r.slv[x]
           d == Copied(r.slv[t], c.buf)
           e == Served(r, t, d)
           b == Put(g, s, e)
           k == AttachTo(g, s, t, x)
           n == c.init
           T == {t}
<1>1. r \in Record /\ r.host # s /\ r.slv[t] \in Client /\ c \in Client
  BY DEF Typed, Record
<1>2. d \in Client /\ d.buf = c.buf
  BY <1>1 DEF Copied, Client
<1>3. n \in Nat
  BY <1>1 DEF Client
<1>4. k = SetupForFullResync(b, s, T, n)
  <2>1. k = SetupForFullResync([g EXCEPT !.srv[s].slv[t].buf = c.buf], s, T, n)
    BY DEF AttachTo
  <2>2. [g EXCEPT !.srv[s].slv[t].buf = c.buf] = b
    BY CopiedIs
  <2> QED
    BY <2>1, <2>2
<1>5. \A y \in Server : y \in T <=> y = t
  OBVIOUS
<1> HIDE DEF d, k, n, T
<1>6. e \in Record /\ Twin(r, e) /\ e.slv[t] = d /\ \A y \in Server \ {t} : e.slv[y] = r.slv[y]
  BY <1>1, <1>2, ServedParts
<1>7. e.host = r.host /\ e.id = r.id
  BY <1>6 DEF Twin
<1> HIDE DEF e
<1>8. Typed(b) /\ b.srv[s] = e /\ b.link = g.link /\ \A y \in Server \ {s} : b.srv[y] = g.srv[y]
  BY <1>1, <1>6, <1>7, PutParts
<1> HIDE DEF b
<1>9. /\ Typed(k) /\ \A y \in Server \ {s} : k.srv[y] = b.srv[y]
      /\ Twin(Saved(b.srv[s], NoDb, b.srv[s].child, b.srv[s].file), k.srv[s])
      /\ \A y \in Server : y \in T =>
            /\ k.srv[s].slv[y] = Ending(b.srv[s].slv[y], n)
            /\ k.link[y] = Longer(b.link[y], <<FullResync(b.srv[s].id, n)>>)
      /\ \A y \in Server : y \notin T => k.srv[s].slv[y] = b.srv[s].slv[y] /\ k.link[y] = b.link[y]
  BY <1>3, <1>4, <1>8, SetupParts
<1>10. Twin(Saved(e, NoDb, e.child, e.file), k.srv[s])
  BY <1>8, <1>9
<1>11. Twin(Saved(r, NoDb, r.child, r.file), k.srv[s])
  BY <1>1, <1>6, <1>10, SavedTwin
<1>12. k.srv[s].slv[t] = Ending(d, n)
  BY <1>5, <1>6, <1>8, <1>9
<1>13. Ending(d, n).st = "end" /\ Ending(d, n).init = n /\ Ending(d, n).buf = d.buf
  BY <1>2, <1>3, EndingParts
<1>14. k.link[t] = Longer(g.link[t], <<FullResync(r.id, n)>>)
  BY <1>5, <1>7, <1>8, <1>9
<1>15. \A y \in Server \ {t} : k.srv[s].slv[y] = r.slv[y] /\ k.link[y] = g.link[y]
  BY <1>5, <1>6, <1>8, <1>9
<1>16. \A y \in Server \ {s} : k.srv[y] = g.srv[y]
  BY <1>8, <1>9
<1>17. k.srv[s].slv[t].st = "end" /\ k.srv[s].slv[t].init = n /\ k.srv[s].slv[t].buf = c.buf
  BY <1>2, <1>12, <1>13
<1> QED
  BY <1>9, <1>11, <1>14, <1>15, <1>16, <1>17 DEF k, n

LEMMA AttachToOK ==
    ASSUME NEW h, NEW g, GroupOK(h, g), NEW s \in Server, NEW t \in Server, NEW x \in Server,
           g.srv[s].slv[t].st = "start", g.srv[s].slv[x].st = "end", g.srv[s].child.type = "disk"
    PROVE  /\ Held(h, AttachTo(g, s, t, x))
           /\ \A y \in Server : AttachTo(g, s, t, x).srv[y].id = g.srv[y].id
<1> DEFINE r == g.srv[s]
           c == r.slv[x]
           e == Saved(r, NoDb, r.child, r.file)
           b == Put(g, s, e)
           k == AttachTo(g, s, t, x)
           n == c.init
           m == <<FullResync(r.id, n)>>
           T == {t}
<1>1. /\ h \in History /\ HistoryOK(h) /\ r \in Record /\ r.host # s /\ RecordOK(h, r) /\ OwnOK(r) /\ Typed(g)
      /\ \A y \in Server : r.slv[y] \in Client /\ g.link[y] \in Link /\ ClientOK(h, s, r, r.slv[y], g.srv[y], g.link[y])
  BY GroupParts DEF GroupOK
<1>2. r.child # None /\ r.child \in Child
  <2>1. r.child # None
    BY <1>1 DEF ClientOK
  <2> QED
    BY <1>1, <2>1 DEF Record
<1>3. /\ Typed(k) /\ \A y \in Server \ {s} : k.srv[y] = g.srv[y]
      /\ Twin(e, k.srv[s])
      /\ k.srv[s].slv[t].st = "end" /\ k.srv[s].slv[t].init = n /\ k.srv[s].slv[t].buf = c.buf
      /\ k.link[t] = Longer(g.link[t], m)
      /\ \A y \in Server \ {t} : k.srv[s].slv[y] = r.slv[y] /\ k.link[y] = g.link[y]
  BY <1>1, AttachToParts
<1> HIDE DEF k
<1>4. Held(h, b)
  <2>1. r.file \in File /\ FileOK(h, r.file) /\ FileOK(h, r.child.file) /\ r.id \in 1..h.ids /\ r.id \in Nat
    BY <1>1, <1>2 DEF Record, RecordOK, FilesOK
  <2>2. \A I : FilesIn(I, r) /\ r.id \in I /\ NoId \in I => r.file.id \in I /\ (r.child # None => r.child.file.id \in I)
    BY DEF FilesIn
  <2>3. Private(r) => r.file.id # r.id /\ (r.child # None => r.child.file.id # r.id)
    BY <1>1, <2>1 DEF OwnOK, FilesIn, Others
  <2>4. r.child \in Child \cup {None} /\ NoDb \in {NoDb, g.srv[s].seldb}
    BY <1>2
  <2> QED
    BY <1>2, <2>1, <2>2, <2>3, <2>4, SavedOK
<1>5. PICK j \in History : j.ids = h.ids /\ j.writes = h.writes /\ GroupOK(j, b)
  BY <1>4 DEF Held
<1>6. Savable(NoDb, r.child, r.file)
  BY <1>1, <1>2 DEF Savable, Record
<1>7. /\ e \in Record /\ e.child = r.child /\ e.id = r.id /\ e.off = r.off /\ e.host = r.host /\ e.slv = r.slv
  BY <1>1, <1>6, SavedParts
<1> HIDE DEF e
<1>8. b.srv[s] = e /\ b.link = g.link /\ \A y \in Server \ {s} : b.srv[y] = g.srv[y]
  BY <1>1, <1>7, PutParts
<1> HIDE DEF b
<1>9. n \in Nat /\ c.buf \in Seq(Command) /\ r.id \in Nat
  BY <1>1 DEF Client, Record
<1>10. ClientOK(j, s, e, c, b.srv[x], b.link[x])
  BY <1>5, <1>7, <1>8, GroupParts
<1>11. /\ Stream(j, r.id, n, c.buf) /\ n + Len(c.buf) = r.off /\ FileAt(j, r.child.file, r.id, n)
  BY <1>7, <1>10 DEF ClientOK
<1>12. g.link[t].q = <<>> /\ g.link[t] \in Link
  BY <1>1 DEF ClientOK
<1>13. Announces(m, r.id, n, "disk", r.child.file) /\ Longer(g.link[t], m).q = m
  BY <1>9, <1>12, AnnounceDisk
<1>14. Longer(g.link[t], m).to = g.link[t].to /\ Longer(g.link[t], m).open = g.link[t].open
  <2>1. m \in Seq(Message)
    BY <1>9 DEF FullResync, Message
  <2> HIDE DEF m
  <2> QED
    BY <1>12, <2>1, LongerParts
<1>15. \A y \in Server : y \in T <=> y = t
  OBVIOUS
<1> HIDE DEF m, T, n
<1>16. Enlists(b, k, s, T, n, c.buf, m)
  <2>1. \A y \in Server \ {s} : k.srv[y] = b.srv[y]
    BY <1>3, <1>8
  <2>2. Twin(b.srv[s], k.srv[s])
    BY <1>3, <1>8
  <2>3. \A y \in Server : y \in T =>
          /\ b.srv[s].slv[y].st = "start"
          /\ k.srv[s].slv[y].st = "end" /\ k.srv[s].slv[y].init = n /\ k.srv[s].slv[y].buf = c.buf
          /\ k.link[y].q = m /\ k.link[y].to = b.link[y].to /\ k.link[y].open = b.link[y].open
    BY <1>3, <1>7, <1>8, <1>13, <1>14, <1>15
  <2>4. \A y \in Server : y \notin T => k.srv[s].slv[y] = b.srv[s].slv[y] /\ k.link[y] = b.link[y]
    BY <1>3, <1>7, <1>8, <1>15
  <2> QED
    BY <2>1, <2>2, <2>3, <2>4 DEF Enlists
<1>17. /\ b.srv[s].child # None /\ FileAt(j, b.srv[s].child.file, b.srv[s].id, n)
       /\ Stream(j, b.srv[s].id, n, c.buf) /\ n + Len(c.buf) = b.srv[s].off
       /\ Announces(m, b.srv[s].id, n, b.srv[s].child.type, b.srv[s].child.file)
  BY <1>2, <1>7, <1>8, <1>11, <1>13
<1>18. GroupOK(j, k)
  BY <1>3, <1>5, <1>9, <1>16, <1>17, EnlistOK
<1>19. \A y \in Server : k.srv[y].id = g.srv[y].id
  BY <1>3, <1>7 DEF Twin
<1> QED
  BY <1>5, <1>18, <1>19 DEF Held, k

-----------------------------------------------------------------------------
(* The clients of a server change                                          *)

\* The clients of s become c and the sockets f.
Handled(g, s, c, f) == [srv |-> [g.srv EXCEPT ![s] = [@ EXCEPT !.slv = c]], link |-> f]

LEMMA HandledParts ==
    ASSUME NEW g, Typed(g), NEW s \in Server, NEW c \in [Server -> Client], NEW f \in [Server -> Link],
           \A t \in Server : f[t].to = g.link[t].to
    PROVE  LET k == Handled(g, s, c, f) IN
           /\ Typed(k) /\ \A x \in Server \ {s} : k.srv[x] = g.srv[x]
           /\ Twin(g.srv[s], k.srv[s]) /\ k.srv[s].slv = c /\ k.link = f
<1> DEFINE q == [g.srv[s] EXCEPT !.slv = c]
           k == Handled(g, s, c, f)
<1>1. g.srv \in [Server -> Record] /\ \A x \in Server : g.srv[x].host # x /\ g.link[x].to # x
  BY DEF Typed
<1>2. q \in Record /\ q.slv = c /\ Twin(g.srv[s], q)
  BY <1>1, ClientsSet
<1>3. k.srv = [g.srv EXCEPT ![s] = q] /\ k.link = f /\ k = [srv |-> k.srv, link |-> k.link]
  BY DEF Handled
<1> HIDE DEF q, k
<1>4. k.srv[s] = q /\ k.srv \in [Server -> Record] /\ \A x \in Server \ {s} : k.srv[x] = g.srv[x]
  BY <1>1, <1>2, <1>3
<1>5. \A x \in Server : k.srv[x].host = g.srv[x].host
  BY <1>2, <1>4 DEF Twin
<1>6. Typed(k)
  BY <1>1, <1>3, <1>4, <1>5 DEF Typed
<1> QED
  BY <1>2, <1>3, <1>4, <1>6 DEF k

\* What the slave t of s gets keeps its client and its socket right.
TurnOK(h, g, s, t, c, l) ==
    /\ g.srv[s].slv[t].st # "none"
    /\ LinkOK(h, g.srv[t], l) /\ ClientOK(h, s, g.srv[s], c, g.srv[t], l)
    /\ \A i \in 1..h.ids : i # g.srv[s].id /\ QueueIn(Others(i), g.link[t].q) => QueueIn(Others(i), l.q)

LEMMA TurnsOK ==
    ASSUME NEW h, NEW g, GroupOK(h, g), NEW k, Typed(k), NEW s \in Server,
           \A x \in Server \ {s} : k.srv[x] = g.srv[x], Twin(g.srv[s], k.srv[s]),
           \A t \in Server : \/ k.srv[s].slv[t] = g.srv[s].slv[t] /\ k.link[t] = g.link[t]
                             \/ TurnOK(h, g, s, t, k.srv[s].slv[t], k.link[t])
    PROVE  GroupOK(h, k) /\ \A x \in Server : k.srv[x].id = g.srv[x].id
<1> DEFINE r == g.srv[s]
           q == k.srv[s]
<1>1. /\ h \in History /\ HistoryOK(h) /\ r \in Record /\ RecordOK(h, r) /\ OwnOK(r) /\ LinkOK(h, r, g.link[s])
  BY GroupParts
<1>2. r.slv[s].st = "none"
  BY NoSelf
<1>3. k.link[s] = g.link[s] /\ q.slv[s] = r.slv[s]
  BY <1>2 DEF TurnOK
<1>4. ASSUME NEW x \in Server \ {s}
      PROVE  /\ k.srv[x] = g.srv[x] /\ EndKept(h, h, g.srv[x])
             /\ ClientOK(h, x, g.srv[x], g.srv[x].slv[s], q, k.link[s])
             /\ k.link[x] = g.link[x] \/ r.slv[x].st # "none"
             /\ LinkOK(h, g.srv[x], k.link[x])
             /\ ClientOK(h, s, q, q.slv[x], g.srv[x], k.link[x])
             /\ \A i \in 1..h.ids : i # r.id /\ QueueIn(Others(i), g.link[x].q) => QueueIn(Others(i), k.link[x].q)
  <2>1. ClientOK(h, x, g.srv[x], g.srv[x].slv[s], r, g.link[s]) /\ ClientOK(h, s, r, r.slv[x], g.srv[x], g.link[x])
        /\ LinkOK(h, g.srv[x], g.link[x])
    BY <1>4, GroupParts
  <2>2. ClientOK(h, x, g.srv[x], g.srv[x].slv[s], q, k.link[s])
    BY <1>3, <2>1, TwinClient, TwinSame
  <2>3. /\ k.link[x] = g.link[x] \/ r.slv[x].st # "none"
        /\ LinkOK(h, g.srv[x], k.link[x])
        /\ ClientOK(h, s, r, q.slv[x], g.srv[x], k.link[x])
        /\ \A i \in 1..h.ids : i # r.id /\ QueueIn(Others(i), g.link[x].q) => QueueIn(Others(i), k.link[x].q)
    BY <1>4, <2>1 DEF TurnOK
  <2>4. ClientOK(h, s, q, q.slv[x], g.srv[x], k.link[x])
    BY <2>3, TwinClient, TwinSame
  <2>5. EndKept(h, h, g.srv[x])
    BY DEF EndKept
  <2> QED
    BY <1>4, <2>2, <2>3, <2>4, <2>5
<1>5. q.host = r.host /\ q.id = r.id /\ (Alone(q) => Alone(r))
  BY DEF Twin, Alone
<1>6. \A i \in 1..h.ids : NamedIn(Others(i), r, g.link[s]) => NamedIn(Others(i), q, k.link[s])
  BY <1>3, TwinNamed
<1>7. q.slv[s].st = "none"
  BY <1>2, <1>3
<1>8. Serves(h, h, g, k, s)
  BY <1>4, <1>5, <1>6, <1>7 DEF Serves
<1>9. RecordOK(h, q) /\ OwnOK(q) /\ LinkOK(h, q, k.link[s])
  BY <1>1, <1>3, TwinRecord, TwinOwn, TwinLink
<1>10. GrowsOn(Nat, h, h)
  BY <1>1, GrowsSame
<1>11. GroupOK(h, k)
  BY <1>1, <1>8, <1>9, <1>10, Serve
<1> QED
  BY <1>5, <1>11

LEMMA GivenLeads ==
    ASSUME NEW r \in Record, NEW q \in Seq(Message), NEW i, NEW k \in Nat, Given(r, q, i, k)
    PROVE  Leads(r, q, i, k)
<1>1. Len(q) \in Nat
  OBVIOUS
<1>2. CASE r.state = "psync" /\ Len(q) = 2 /\ q[1].type = "fullresync" /\ q[1].id = i /\ q[1].off = k
  <2>1. q[1].off + Len(q) - 2 = k /\ Len(q) >= 2
    BY <1>2
  <2> QED
    BY <1>2, <2>1 DEF Leads
<1>3. CASE r.state = "transfer" /\ Len(q) = 1 /\ r.mid = i /\ r.moff = k
  <2>1. r.moff + Len(q) - 1 = k /\ q # <<>>
    BY <1>3
  <2> QED
    BY <1>3, <2>1 DEF Leads
<1>4. CASE r.state = "connected" /\ q = <<>> /\ r.id = i /\ r.off = k
  <2>1. Len(q) = 0 /\ r.off + Len(q) = k
    BY <1>4
  <2> QED
    BY <1>4, <2>1 DEF Leads
<1> QED
  BY <1>2, <1>3, <1>4 DEF Given

\* The payload goes into the socket of a slave that waits for it.
LEMMA DeliverOK ==
    ASSUME NEW h \in History, NEW r, NEW l \in Link, NEW i, NEW k, NEW f \in File, LinkOK(h, r, l),
           Awaits(r, l.q, i, k), FileAt(h, f, i, k)
    PROVE  LET n == Longer(l, <<Payload(f)>>) IN
           /\ n \in Link /\ n.to = l.to /\ n.open = l.open
           /\ LinkOK(h, r, n) /\ Given(r, n.q, i, k)
           /\ \A I : i \in I /\ QueueIn(I, l.q) => QueueIn(I, n.q)
<1> DEFINE y == Payload(f)
           m == <<y>>
           n == Longer(l, m)
<1>1. y \in Message /\ y.type = "rdb" /\ y.file = f /\ Names(y) = f.id
  BY DEF Payload, Message, Names
<1> HIDE DEF y
<1>2. m \in Seq(Message) /\ Len(m) = 1 /\ m # <<>> /\ m[1] = y /\ Tail(m) = <<>>
  BY <1>1
<1> HIDE DEF m
<1>3. n \in Link /\ n.q = l.q \o m /\ n.to = l.to /\ n.open = l.open
  BY <1>2, LongerParts
<1> HIDE DEF n
<1>4. i \in 1..h.ids /\ k \in Nat /\ k <= h.len[i] /\ f.id = i
  BY FileAtParts
<1>5. PayloadOK(h, i, k, m)
  <2>1. Stream(h, i, k, <<>>)
    BY <1>4, StreamNone
  <2>2. Stream(h, i, k, Tail(m))
    BY <1>2, <2>1
  <2> QED
    BY <1>1, <1>2, <2>2 DEF PayloadOK
<1>6. l.q \in Seq(Message)
  BY DEF Link
<1>7. ASSUME NEW I, i \in I, QueueIn(I, l.q)
      PROVE  QueueIn(I, n.q)
  <2>1. QueueIn(I, <<>>)
    BY QueueNone
  <2>2. QueueIn(I, Tail(m)) /\ Names(m[1]) \in I
    BY <1>1, <1>2, <1>4, <1>7, <2>1
  <2>3. m \in Seq(Message) /\ m # <<>>
    BY <1>2
  <2>4. QueueIn(I, m)
    BY <2>2, <2>3, QueueFirst
  <2> QED
    BY <1>3, <1>6, <1>7, <2>3, <2>4, QueueConcat
<1>8. CASE r.state = "psync" /\ Len(l.q) = 1 /\ l.q[1].type = "fullresync" /\ l.q[1].id = i /\ l.q[1].off = k
  <2> DEFINE p == l.q
  <2>1. p \in Seq(Message) /\ p # <<>> /\ m \in Seq(Message) /\ Len(p) = 1
    BY <1>2, <1>6, <1>8
  <2> HIDE DEF p
  <2>2. /\ p \o m # <<>> /\ (p \o m)[1] = p[1] /\ Tail(p \o m) = Tail(p) \o m /\ Len(p \o m) = Len(p) + Len(m)
        /\ Tail(p) \in Seq(Message) /\ Len(Tail(p)) = Len(p) - 1
    BY <2>1, ConcatParts
  <2>3. Tail(p) = <<>>
    BY <2>1, <2>2
  <2>4. <<>> \o m = m
    BY <1>2, ConcatEmpty
  <2>5. Tail(n.q) = m /\ n.q # <<>> /\ n.q[1] = p[1] /\ Len(n.q) = 2
    <3>1. Len(p \o m) = 2
      BY <1>2, <2>1, <2>2
    <3>2. Tail(p \o m) = m
      BY <2>2, <2>3, <2>4
    <3>3. n.q = p \o m
      BY <1>3 DEF p
    <3> QED
      BY <2>2, <3>1, <3>2, <3>3
  <2>6. /\ r.state = "psync" /\ n.q[1].type = "fullresync" /\ n.q[1].id = i /\ n.q[1].off = k
    BY <1>8, <2>5 DEF p
  <2>7. ReplyOK(h, r, n.q)
    BY <1>4, <1>5, <2>5, <2>6 DEF ReplyOK
  <2>8. LinkOK(h, r, n)
    BY <2>6, <2>7 DEF LinkOK
  <2>9. Given(r, n.q, i, k)
    BY <2>5, <2>6 DEF Given
  <2> QED
    BY <1>3, <1>7, <2>8, <2>9 DEF n, m, y
<1>9. CASE r.state = "transfer" /\ l.q = <<>> /\ r.mid = i /\ r.moff = k
  <2>1. <<>> \o m = m
    BY <1>2, ConcatEmpty
  <2>2. n.q = m
    BY <1>3, <1>9, <2>1
  <2>3. LinkOK(h, r, n)
    BY <1>5, <1>9, <2>2 DEF LinkOK
  <2>4. Given(r, n.q, i, k)
    BY <1>2, <1>9, <2>2 DEF Given
  <2> QED
    BY <1>3, <1>7, <2>3, <2>4 DEF n, m, y
<1> QED
  BY <1>8, <1>9 DEF Awaits

Onlined(c) == [c EXCEPT !.st = "online", !.buf = <<>>]

LEMMA OnlinedParts ==
    ASSUME NEW c \in Client
    PROVE  Onlined(c) \in Client /\ Onlined(c).st = "online"
<1>1. <<>> \in Seq(Command)
  OBVIOUS
<1> QED
  BY <1>1 DEF Onlined, Client

LEMMA PutOnlineParts ==
    ASSUME NEW g, Typed(g), NEW s \in Server, NEW T
    PROVE  LET k == PutOnline(g, s, T) IN
           /\ Typed(k) /\ \A x \in Server \ {s} : k.srv[x] = g.srv[x]
           /\ Twin(g.srv[s], k.srv[s])
           /\ \A t \in Server : t \in T => /\ k.srv[s].slv[t] = Onlined(g.srv[s].slv[t])
                                           /\ k.link[t] = Longer(g.link[t], g.srv[s].slv[t].buf)
           /\ \A t \in Server : t \notin T => k.srv[s].slv[t] = g.srv[s].slv[t] /\ k.link[t] = g.link[t]
<1> DEFINE r == g.srv[s]
           c == [t \in Server |-> IF t \in T THEN Onlined(r.slv[t]) ELSE r.slv[t]]
           f == [t \in Server |-> IF t \in T THEN Longer(g.link[t], r.slv[t].buf) ELSE g.link[t]]
           k == PutOnline(g, s, T)
<1>1. \A t \in Server : r.slv[t] \in Client /\ g.link[t] \in Link
  BY DEF Typed, Record
<1>2. k = Handled(g, s, c, f)
  BY DEF PutOnline, Handled, Onlined, Longer
<1>3. c \in [Server -> Client]
  BY <1>1, OnlinedParts
<1>4. ASSUME NEW t \in Server
      PROVE  Longer(g.link[t], r.slv[t].buf) \in Link /\ Longer(g.link[t], r.slv[t].buf).to = g.link[t].to
  <2>1. r.slv[t].buf \in Seq(Command)
    BY <1>1 DEF Client
  <2>2. r.slv[t].buf \in Seq(Message)
    BY <2>1, CommandsIn
  <2> QED
    BY <1>1, <2>2, LongerParts
<1>5. f \in [Server -> Link] /\ \A t \in Server : f[t].to = g.link[t].to
  BY <1>1, <1>4
<1>6. /\ \A t \in Server : t \in T => c[t] = Onlined(r.slv[t]) /\ f[t] = Longer(g.link[t], r.slv[t].buf)
      /\ \A t \in Server : t \notin T => c[t] = r.slv[t] /\ f[t] = g.link[t]
  OBVIOUS
<1> HIDE DEF c, f, k
<1>7. /\ Typed(k) /\ \A x \in Server \ {s} : k.srv[x] = g.srv[x]
      /\ Twin(g.srv[s], k.srv[s]) /\ k.srv[s].slv = c /\ k.link = f
  BY <1>2, <1>3, <1>5, HandledParts
<1> QED
  BY <1>6, <1>7 DEF k

\* What was accumulated for a slave follows what it has been given.
LEMMA OnlineTurn ==
    ASSUME NEW h \in History, NEW s, NEW r \in Record, NEW c \in Client, NEW rt \in Record, NEW l \in Link,
           r.id \in 1..h.ids, r.backlog # None, l.to = s, l.open,
           LinkOK(h, rt, l), Given(rt, l.q, r.id, c.init), Stream(h, r.id, c.init, c.buf), c.init + Len(c.buf) = r.off
    PROVE  LET n == Longer(l, c.buf) IN
           /\ LinkOK(h, rt, n) /\ ClientOK(h, s, r, Onlined(c), rt, n)
           /\ \A i \in 1..h.ids : QueueIn(Others(i), l.q) => QueueIn(Others(i), n.q)
<1> DEFINE m == c.buf
           n == Longer(l, m)
           i == r.id
           k == c.init
<1>1. k \in Nat /\ m \in Seq(Command) /\ i \in Nat
  BY DEF Client, Record
<1>2. l.q \in Seq(Message)
  BY DEF Link
<1>3. m \in Seq(Message) /\ \A j \in 1..h.ids : QueueIn(Others(j), m)
  <2>1. \A j \in 1..h.ids : NoId \in Others(j)
    BY HistoryIds DEF NoId, Others
  <2> QED
    BY <1>1, <2>1, CommandsIn
<1>4. Leads(rt, l.q, i, k)
  BY <1>1, <1>2, GivenLeads
<1>5. Stream(h, i, k, m) /\ k + Len(m) = r.off
  OBVIOUS
<1> HIDE DEF m, i, k
<1>6. LinkOK(h, rt, n) /\ Leads(rt, l.q \o m, i, k + Len(m))
  BY <1>1, <1>3, <1>4, <1>5, LinkGrows
<1>7. n.q = l.q \o m /\ n.to = l.to /\ n.open = l.open
  BY <1>3, LongerParts
<1>8. \A j \in 1..h.ids : QueueIn(Others(j), l.q) => QueueIn(Others(j), n.q)
  BY <1>2, <1>3, <1>7, QueueConcat
<1> HIDE DEF n
<1>9. Leads(rt, n.q, r.id, r.off)
  BY <1>5, <1>6, <1>7 DEF i
<1>10. Onlined(c).st = "online"
  BY OnlinedParts
<1>11. ClientOK(h, s, r, Onlined(c), rt, n)
  BY <1>7, <1>9, <1>10 DEF ClientOK
<1> QED
  BY <1>6, <1>8, <1>11 DEF n, m

LEMMA AckOK ==
    ASSUME NEW h, NEW g, GroupOK(h, g), NEW s \in Server, NEW t \in Server, g.srv[s].slv[t].st = "ack"
    PROVE  GroupOK(h, PutOnline(g, s, {t})) /\ \A x \in Server : PutOnline(g, s, {t}).srv[x].id = g.srv[x].id
<1> DEFINE r == g.srv[s]
           T == {t}
           k == PutOnline(g, s, T)
           c == r.slv[t]
           l == g.link[t]
<1>1. /\ h \in History /\ r \in Record /\ RecordOK(h, r) /\ g.srv[t] \in Record /\ l \in Link /\ c \in Client
      /\ LinkOK(h, g.srv[t], l) /\ ClientOK(h, s, r, c, g.srv[t], l) /\ Typed(g)
  BY GroupParts DEF GroupOK
<1>2. /\ r.backlog # None /\ l.to = s /\ l.open /\ Given(g.srv[t], l.q, r.id, c.init)
      /\ Stream(h, r.id, c.init, c.buf) /\ c.init + Len(c.buf) = r.off
  BY <1>1 DEF ClientOK
<1>3. r.id \in 1..h.ids
  BY <1>1 DEF RecordOK
<1>4. /\ LinkOK(h, g.srv[t], Longer(l, c.buf)) /\ ClientOK(h, s, r, Onlined(c), g.srv[t], Longer(l, c.buf))
      /\ \A i \in 1..h.ids : QueueIn(Others(i), l.q) => QueueIn(Others(i), Longer(l, c.buf).q)
  BY <1>1, <1>2, <1>3, OnlineTurn
<1>5. \A x \in Server : x \in T <=> x = t
  OBVIOUS
<1> HIDE DEF T
<1>6. /\ Typed(k) /\ \A x \in Server \ {s} : k.srv[x] = g.srv[x]
      /\ Twin(g.srv[s], k.srv[s])
      /\ \A x \in Server : x \in T => /\ k.srv[s].slv[x] = Onlined(g.srv[s].slv[x])
                                      /\ k.link[x] = Longer(g.link[x], g.srv[s].slv[x].buf)
      /\ \A x \in Server : x \notin T => k.srv[s].slv[x] = g.srv[s].slv[x] /\ k.link[x] = g.link[x]
  BY <1>1, PutOnlineParts
<1> HIDE DEF k
<1>7. TurnOK(h, g, s, t, k.srv[s].slv[t], k.link[t])
  <2>1. k.srv[s].slv[t] = Onlined(c) /\ k.link[t] = Longer(l, c.buf)
    BY <1>5, <1>6
  <2> QED
    BY <1>4, <2>1 DEF TurnOK
<1>8. \A x \in Server : \/ k.srv[s].slv[x] = g.srv[s].slv[x] /\ k.link[x] = g.link[x]
                        \/ TurnOK(h, g, s, x, k.srv[s].slv[x], k.link[x])
  BY <1>5, <1>6, <1>7
<1>9. GroupOK(h, k) /\ \A x \in Server : k.srv[x].id = g.srv[x].id
  BY <1>6, <1>8, TurnsOK
<1> QED
  BY <1>9 DEF k, T

\* What backgroundSaveDoneHandler does for the slaves that wait for its end.
Finished(h, g, k, s) ==
    /\ GroupOK(h, k) /\ Twin(g.srv[s], k.srv[s]) /\ \A x \in Server : k.srv[x].id = g.srv[x].id
    /\ \A t \in Server : k.srv[s].slv[t].st # "end"

LEMMA FinishDiskOK ==
    ASSUME NEW h, NEW g, GroupOK(h, g), NEW s \in Server, g.srv[s].child # None, g.srv[s].child.type = "disk"
    PROVE  Finished(h, g, FinishSlaves(g, s, TRUE), s)
<1> DEFINE r == g.srv[s]
           T == WaitingEnd(g, s)
           y == Payload(r.child.file)
           m == <<y>>
           b == SendTo(g, T, m)
           k == PutOnline(b, s, T)
<1>1. /\ h \in History /\ r \in Record /\ RecordOK(h, r) /\ Typed(g)
      /\ \A t \in Server : /\ g.srv[t] \in Record /\ g.link[t] \in Link /\ r.slv[t] \in Client
                           /\ LinkOK(h, g.srv[t], g.link[t]) /\ ClientOK(h, s, r, r.slv[t], g.srv[t], g.link[t])
  BY GroupParts DEF GroupOK
<1>2. FinishSlaves(g, s, TRUE) = k
  BY DEF FinishSlaves, Payload
<1>3. r.child.file \in File
  BY <1>1 DEF Record, Child
<1>4. m \in Seq(Message)
  <2>1. y \in Message
    BY <1>3 DEF Payload, Message
  <2> QED
    BY <2>1
<1>5. \A t \in Server : t \in T <=> r.slv[t].st = "end"
  BY DEF WaitingEnd
<1> HIDE DEF T
<1>6. ASSUME NEW t \in Server, t \in T
      PROVE  TurnOK(h, g, s, t, Onlined(r.slv[t]), Longer(Longer(g.link[t], m), r.slv[t].buf))
  <2> DEFINE c == r.slv[t]
             l == g.link[t]
             n == Longer(l, m)
             rt == g.srv[t]
  <2>1. /\ r.backlog # None /\ l.to = s /\ l.open /\ Awaits(rt, l.q, r.id, c.init)
        /\ FileAt(h, r.child.file, r.id, c.init)
        /\ Stream(h, r.id, c.init, c.buf) /\ c.init + Len(c.buf) = r.off
    BY <1>1, <1>5, <1>6 DEF ClientOK
  <2>2. /\ n \in Link /\ n.to = l.to /\ n.open = l.open
        /\ LinkOK(h, rt, n) /\ Given(rt, n.q, r.id, c.init)
        /\ \A I : r.id \in I /\ QueueIn(I, l.q) => QueueIn(I, n.q)
    BY <1>1, <1>3, <2>1, DeliverOK
  <2>3. r.id \in 1..h.ids /\ r.id \in Nat
    BY <1>1 DEF RecordOK, Record
  <2> HIDE DEF n
  <2>4. /\ LinkOK(h, rt, Longer(n, c.buf)) /\ ClientOK(h, s, r, Onlined(c), rt, Longer(n, c.buf))
        /\ \A i \in 1..h.ids : QueueIn(Others(i), n.q) => QueueIn(Others(i), Longer(n, c.buf).q)
    <3>1. /\ h \in History /\ r \in Record /\ c \in Client /\ rt \in Record /\ n \in Link
          /\ r.id \in 1..h.ids /\ r.backlog # None /\ n.to = s /\ n.open
          /\ LinkOK(h, rt, n) /\ Given(rt, n.q, r.id, c.init)
          /\ Stream(h, r.id, c.init, c.buf) /\ c.init + Len(c.buf) = r.off
      BY <1>1, <2>1, <2>2, <2>3
    <3> HIDE DEF c, rt
    <3> QED
      BY <3>1, OnlineTurn
  <2>5. \A i \in 1..h.ids : i # r.id => r.id \in Others(i)
    BY <2>3 DEF Others
  <2>6. \A i \in 1..h.ids : i # r.id /\ QueueIn(Others(i), l.q) => QueueIn(Others(i), Longer(n, c.buf).q)
    BY <2>2, <2>4, <2>5
  <2>7. c.st # "none"
    BY <1>5, <1>6
  <2> QED
    BY <2>4, <2>6, <2>7 DEF TurnOK, n
<1> HIDE DEF m
<1>7. /\ Typed(b) /\ b.srv = g.srv
      /\ \A t \in Server : b.link[t] = IF t \in T THEN Longer(g.link[t], m) ELSE g.link[t]
  BY <1>1, <1>4, SendParts
<1> HIDE DEF b
<1>8. /\ Typed(k) /\ \A x \in Server \ {s} : k.srv[x] = b.srv[x]
      /\ Twin(b.srv[s], k.srv[s])
      /\ \A x \in Server : x \in T => /\ k.srv[s].slv[x] = Onlined(b.srv[s].slv[x])
                                      /\ k.link[x] = Longer(b.link[x], b.srv[s].slv[x].buf)
      /\ \A x \in Server : x \notin T => k.srv[s].slv[x] = b.srv[s].slv[x] /\ k.link[x] = b.link[x]
  BY <1>7, PutOnlineParts
<1> HIDE DEF k
<1>9. \A x \in Server : x \in T => TurnOK(h, g, s, x, k.srv[s].slv[x], k.link[x])
  BY <1>6, <1>7, <1>8
<1>10. \A x \in Server : x \notin T => k.srv[s].slv[x] = g.srv[s].slv[x] /\ k.link[x] = g.link[x]
  BY <1>7, <1>8
<1>11. /\ \A x \in Server \ {s} : k.srv[x] = g.srv[x]
       /\ Twin(g.srv[s], k.srv[s])
  BY <1>7, <1>8
<1>12. GroupOK(h, k) /\ \A x \in Server : k.srv[x].id = g.srv[x].id
  BY <1>8, <1>9, <1>10, <1>11, TurnsOK
<1>13. \A t \in Server : k.srv[s].slv[t].st # "end"
  <2>1. \A t \in Server : t \in T => k.srv[s].slv[t].st = "online"
    BY <1>1, <1>7, <1>8, OnlinedParts
  <2> QED
    BY <1>5, <1>10, <2>1
<1> QED
  BY <1>2, <1>11, <1>12, <1>13 DEF Finished

Acking(c) == [c EXCEPT !.st = "ack"]

LEMMA AckingParts ==
    ASSUME NEW c \in Client
    PROVE  Acking(c) \in Client /\ Acking(c).st = "ack" /\ Acking(c).buf = c.buf /\ Acking(c).init = c.init
  BY DEF Acking, Client

LEMMA FinishSocketOK ==
    ASSUME NEW h, NEW g, GroupOK(h, g), NEW s \in Server, g.srv[s].child # None, g.srv[s].child.type = "socket"
    PROVE  Finished(h, g, FinishSlaves(g, s, TRUE), s)
<1> DEFINE r == g.srv[s]
           T == WaitingEnd(g, s)
           C == [t \in Server |-> IF t \in T THEN Acking(r.slv[t]) ELSE r.slv[t]]
           k == Handled(g, s, C, g.link)
<1>1. /\ h \in History /\ r \in Record /\ RecordOK(h, r) /\ Typed(g) /\ g.link \in [Server -> Link]
      /\ \A t \in Server : /\ g.srv[t] \in Record /\ g.link[t] \in Link /\ r.slv[t] \in Client
                           /\ LinkOK(h, g.srv[t], g.link[t]) /\ ClientOK(h, s, r, r.slv[t], g.srv[t], g.link[t])
  BY GroupParts DEF GroupOK
<1>2. FinishSlaves(g, s, TRUE) = k
  <2>1. FinishSlaves(g, s, TRUE) = [g EXCEPT !.srv[s].slv = C]
    BY DEF FinishSlaves, Acking
  <2>2. [g EXCEPT !.srv[s].slv = C] = [g EXCEPT !.srv = [g.srv EXCEPT ![s] = [g.srv[s] EXCEPT !.slv = C]]]
    OBVIOUS
  <2> HIDE DEF C
  <2>3. g = [srv |-> g.srv, link |-> g.link]
    BY <1>1, Shaped
  <2>4. \A z : [g EXCEPT !.srv = z] = [srv |-> z, link |-> g.link]
    BY <2>3
  <2> QED
    BY <2>1, <2>2, <2>4 DEF Handled
<1>3. C \in [Server -> Client]
  BY <1>1, AckingParts
<1>4. \A t \in Server : (t \in T => C[t] = Acking(r.slv[t])) /\ (t \notin T => C[t] = r.slv[t])
  OBVIOUS
<1>5. \A t \in Server : t \in T <=> r.slv[t].st = "end"
  BY DEF WaitingEnd
<1> HIDE DEF T, C
<1>6. /\ Typed(k) /\ \A x \in Server \ {s} : k.srv[x] = g.srv[x]
      /\ Twin(g.srv[s], k.srv[s]) /\ k.srv[s].slv = C /\ k.link = g.link
  BY <1>1, <1>3, HandledParts
<1> HIDE DEF k
<1>7. ASSUME NEW t \in Server, t \in T
      PROVE  TurnOK(h, g, s, t, k.srv[s].slv[t], k.link[t]) /\ k.srv[s].slv[t].st = "ack"
  <2> DEFINE c == Acking(r.slv[t])
  <2>1. k.srv[s].slv[t] = c /\ k.link[t] = g.link[t]
    BY <1>4, <1>6, <1>7
  <2>2. c.st = "ack" /\ c.buf = r.slv[t].buf /\ c.init = r.slv[t].init
    BY <1>1, AckingParts
  <2> HIDE DEF c
  <2>3. ClientOK(h, s, r, c, g.srv[t], g.link[t])
    BY <1>1, <1>5, <1>7, <2>2 DEF ClientOK
  <2> QED
    BY <1>1, <1>5, <1>7, <2>1, <2>2, <2>3 DEF TurnOK
<1>8. \A t \in Server : t \notin T => k.srv[s].slv[t] = g.srv[s].slv[t] /\ k.link[t] = g.link[t]
  BY <1>4, <1>6
<1>9. GroupOK(h, k) /\ \A x \in Server : k.srv[x].id = g.srv[x].id
  BY <1>6, <1>7, <1>8, TurnsOK
<1>10. \A t \in Server : k.srv[s].slv[t].st # "end"
  BY <1>5, <1>7, <1>8
<1> QED
  BY <1>2, <1>6, <1>9, <1>10 DEF Finished

\* What is left of a socket when its end was not sent.
Beginning(d, q) == d \in Seq(Message) /\ Len(d) <= Len(q) /\ \A j \in 1..Len(d) : d[j] = q[j]

LEMMA BeginningTail ==
    ASSUME NEW q \in Seq(Message), NEW d, Beginning(d, q), d # <<>>
    PROVE  q # <<>> /\ d[1] = q[1] /\ Beginning(Tail(d), Tail(q))
<1>1. d \in Seq(Message) /\ Len(d) <= Len(q) /\ (\A j \in 1..Len(d) : d[j] = q[j]) /\ Len(q) \in Nat
  BY DEF Beginning
<1>2. /\ Len(d) \in Nat /\ Len(d) >= 1 /\ Tail(d) \in Seq(Message) /\ Len(Tail(d)) = Len(d) - 1
      /\ \A j \in 1..Len(Tail(d)) : Tail(d)[j] = d[j + 1]
  BY <1>1, TailOf
<1>3. q # <<>>
  BY <1>1, <1>2
<1>4. /\ Len(Tail(q)) = Len(q) - 1
      /\ \A j \in 1..Len(Tail(q)) : Tail(q)[j] = q[j + 1]
  BY <1>3, TailOf
<1>5. ASSUME NEW j \in 1..Len(Tail(d))
      PROVE  Tail(d)[j] = Tail(q)[j]
  <2>1. j \in 1..Len(Tail(q)) /\ j + 1 \in 1..Len(d)
    BY <1>1, <1>2, <1>4
  <2> QED
    BY <1>1, <1>2, <1>4, <2>1
<1>6. d[1] = q[1] /\ Len(Tail(d)) <= Len(Tail(q))
  BY <1>1, <1>2, <1>4
<1> QED
  BY <1>2, <1>3, <1>5, <1>6 DEF Beginning

LEMMA BeginningStream ==
    ASSUME NEW h \in History, NEW i \in Nat, NEW k, NEW q \in Seq(Message), Stream(h, i, k, q), NEW d, Beginning(d, q)
    PROVE  Stream(h, i, k, d)
<1>1. k \in Nat /\ Len(q) \in Nat /\ h.len[i] \in Nat /\ k + Len(q) <= h.len[i]
  BY StreamType
<1>2. Len(d) \in Nat /\ Len(d) <= Len(q) /\ \A j \in 1..Len(d) : d[j] = q[j]
  BY DEF Beginning
<1>3. k + Len(d) <= h.len[i] /\ \A j \in 1..Len(d) : j \in 1..Len(q)
  BY <1>1, <1>2
<1> QED
  BY <1>1, <1>2, <1>3 DEF Stream

LEMMA BeginningPayload ==
    ASSUME NEW h \in History, NEW i \in Nat, NEW k, NEW q \in Seq(Message), PayloadOK(h, i, k, q), NEW d, Beginning(d, q)
    PROVE  PayloadOK(h, i, k, d)
<1>1. SUFFICES ASSUME d # <<>>
               PROVE  d[1].type = "rdb" /\ FileAt(h, d[1].file, i, k) /\ Stream(h, i, k, Tail(d))
  BY DEF PayloadOK
<1>2. q # <<>> /\ d[1] = q[1] /\ Beginning(Tail(d), Tail(q))
  BY <1>1, BeginningTail
<1>3. q[1].type = "rdb" /\ FileAt(h, q[1].file, i, k) /\ Stream(h, i, k, Tail(q)) /\ Tail(q) \in Seq(Message)
  BY <1>2, TailOf DEF PayloadOK
<1>4. Stream(h, i, k, Tail(d))
  BY <1>2, <1>3, BeginningStream
<1> QED
  BY <1>2, <1>3, <1>4

LEMMA BeginningReply ==
    ASSUME NEW h \in History, NEW r, NEW q \in Seq(Message), ReplyOK(h, r, q), NEW d, Beginning(d, q)
    PROVE  ReplyOK(h, r, d)
<1>1. CASE d = <<>>
  BY <1>1 DEF ReplyOK
<1>2. CASE d # <<>>
  <2>1. q # <<>> /\ d[1] = q[1] /\ Beginning(Tail(d), Tail(q)) /\ Tail(q) \in Seq(Message)
    BY <1>2, BeginningTail, TailOf
  <2>2. CASE q[1].type = "fullresync" /\ q[1].id \in 1..h.ids /\ PayloadOK(h, q[1].id, q[1].off, Tail(q))
    <3>1. q[1].id \in Nat
      BY <2>2, HistoryIds
    <3>2. PayloadOK(h, q[1].id, q[1].off, Tail(d))
      BY <2>1, <2>2, <3>1, BeginningPayload
    <3>3. d[1].type = "fullresync" /\ d[1].id \in 1..h.ids /\ PayloadOK(h, d[1].id, d[1].off, Tail(d))
      BY <2>1, <2>2, <3>2
    <3> QED
      BY <3>3 DEF ReplyOK
  <2>3. CASE /\ q[1].type = "continue" /\ q[1].id \in 1..h.ids
             /\ r.cached # None /\ ~Alone(r)
             /\ q[1].id = r.id \/ Agree(h, r.id, q[1].id, r.off)
             /\ Stream(h, q[1].id, r.off, Tail(q))
    <3>1. q[1].id \in Nat
      BY <2>3, HistoryIds
    <3>2. Stream(h, q[1].id, r.off, Tail(d))
      BY <2>1, <2>3, <3>1, BeginningStream
    <3>3. /\ d[1].type = "continue" /\ d[1].id \in 1..h.ids
          /\ r.cached # None /\ ~Alone(r)
          /\ d[1].id = r.id \/ Agree(h, r.id, d[1].id, r.off)
          /\ Stream(h, d[1].id, r.off, Tail(d))
      BY <2>1, <2>3, <3>2
    <3> QED
      BY <3>3 DEF ReplyOK
  <2>4. CASE q[1].type = "error" /\ Len(q) = 1
    <3>1. Len(d) = 1
      <4>1. d \in Seq(Message) /\ Len(d) <= 1
        BY <2>4 DEF Beginning
      <4>2. Len(d) \in Nat /\ Len(d) >= 1
        BY <1>2, <4>1, TailOf
      <4>3. Len(d) <= 1
        BY <4>1
      <4>4. \A x \in Nat : x >= 1 /\ x <= 1 => x = 1
        OBVIOUS
      <4> QED
        BY <4>2, <4>3, <4>4
    <3>2. d[1].type = "error" /\ Len(d) = 1
      BY <2>1, <2>4, <3>1
    <3> QED
      BY <3>2 DEF ReplyOK
  <2> QED
    BY <2>1, <2>2, <2>3, <2>4 DEF ReplyOK
<1> QED
  BY <1>1, <1>2

LEMMA BeginningLink ==
    ASSUME NEW h \in History, NEW r \in Record, RecordOK(h, r), NEW l \in Link, LinkOK(h, r, l), NEW n, Beginning(n.q, l.q),
           r.state \in {"psync", "transfer", "connected"}
    PROVE  LinkOK(h, r, n) /\ \A I : QueueIn(I, l.q) => QueueIn(I, n.q)
<1>1. l.q \in Seq(Message) /\ r.id \in Nat /\ r.mid \in Nat
  BY DEF Link, Record
<1>2. ASSUME r.state = "psync"
      PROVE  LinkOK(h, r, n)
  <2>1. ReplyOK(h, r, n.q)
    BY <1>1, <1>2, BeginningReply DEF LinkOK
  <2> QED
    BY <1>2, <2>1 DEF LinkOK
<1>3. ASSUME r.state = "transfer"
      PROVE  LinkOK(h, r, n)
  <2>1. PayloadOK(h, r.mid, r.moff, n.q)
    BY <1>1, <1>3, BeginningPayload DEF LinkOK
  <2> QED
    BY <1>3, <2>1 DEF LinkOK
<1>4. ASSUME r.state = "connected"
      PROVE  LinkOK(h, r, n)
  <2>1. Stream(h, r.id, r.off, n.q)
    BY <1>1, <1>4, BeginningStream DEF LinkOK
  <2> QED
    BY <1>4, <2>1 DEF LinkOK
<1>5. \A I : QueueIn(I, l.q) => QueueIn(I, n.q)
  <2>1. Len(n.q) <= Len(l.q) /\ Len(n.q) \in Nat /\ Len(l.q) \in Nat /\ \A j \in 1..Len(n.q) : n.q[j] = l.q[j]
    BY <1>1 DEF Beginning
  <2>2. \A j \in 1..Len(n.q) : j \in 1..Len(l.q)
    BY <2>1
  <2> QED
    BY <2>1, <2>2 DEF QueueIn
<1>6. LinkOK(h, r, n)
  BY <1>2, <1>3, <1>4
<1> QED
  BY <1>5, <1>6

LEMMA ButLast ==
    ASSUME NEW S, NEW q \in Seq(S), Len(q) \in Nat, Len(q) >= 1
    PROVE  LET d == SubSeq(q, 1, Len(q) - 1) IN
           d \in Seq(S) /\ Len(d) = Len(q) - 1 /\ \A j \in 1..Len(d) : d[j] = q[j]
<1> DEFINE d == SubSeq(q, 1, Len(q) - 1)
<1>1. Len(q) - 1 \in Nat
  OBVIOUS
<1>2. d \in Seq(S)
  BY <1>1
<1>3. Len(d) = Len(q) - 1
  <2> DEFINE n == Len(q) - 1
  <2>1. n \in Nat
    BY <1>1
  <2> HIDE DEF n
  <2>2. Len(SubSeq(q, 1, n)) = n
    BY <2>1
  <2> QED
    BY <2>2 DEF n
<1>4. \A j \in 1..(Len(q) - 1) : d[j] = q[j]
  BY <1>1
<1> QED
  BY <1>2, <1>3, <1>4

LEMMA DropPayloadBegins ==
    ASSUME NEW q \in Seq(Message)
    PROVE  Beginning(DropPayload(q), q)
<1>1. Beginning(q, q)
  BY DEF Beginning
<1>2. ASSUME q # <<>>
      PROVE  Beginning(SubSeq(q, 1, Len(q) - 1), q)
  <2> DEFINE d == SubSeq(q, 1, Len(q) - 1)
  <2>1. Len(q) \in Nat /\ Len(q) >= 1
    BY <1>2, TailOf
  <2>2. d \in Seq(Message) /\ Len(d) = Len(q) - 1 /\ \A j \in 1..Len(d) : d[j] = q[j]
    BY <2>1, ButLast
  <2> HIDE DEF d
  <2>3. Beginning(d, q)
    BY <2>1, <2>2 DEF Beginning
  <2> QED
    BY <2>3 DEF d
<1> QED
  BY <1>1, <1>2 DEF DropPayload

Dropped(l) == [l EXCEPT !.q = DropPayload(@)]

LEMMA DroppedParts ==
    ASSUME NEW l \in Link
    PROVE  Dropped(l) \in Link /\ Dropped(l).to = l.to /\ Beginning(Dropped(l).q, l.q)
<1>1. l.q \in Seq(Message)
  BY DEF Link
<1>2. Beginning(DropPayload(l.q), l.q)
  BY <1>1, DropPayloadBegins
<1>3. DropPayload(l.q) \in Seq(Message)
  BY <1>2 DEF Beginning
<1> DEFINE d == DropPayload(l.q)
<1>4. Dropped(l) = [l EXCEPT !.q = d]
  BY DEF Dropped
<1> HIDE DEF d
<1>5. d \in Seq(Message)
  BY <1>3 DEF d
<1>6. [l EXCEPT !.q = d] \in Link /\ [l EXCEPT !.q = d].to = l.to /\ [l EXCEPT !.q = d].q = d
  BY <1>5 DEF Link
<1> QED
  BY <1>2, <1>4, <1>6 DEF d

LEMMA FinishFailedParts ==
    ASSUME NEW g, Typed(g), NEW s \in Server
    PROVE  LET k == FinishSlaves(g, s, FALSE)
               T == WaitingEnd(g, s) IN
           /\ Typed(k) /\ \A x \in Server \ {s} : k.srv[x] = g.srv[x]
           /\ Twin(g.srv[s], k.srv[s])
           /\ \A t \in Server : t \in T => k.srv[s].slv[t] = NoClient /\ Beginning(k.link[t].q, g.link[t].q)
           /\ \A t \in Server : t \notin T => k.srv[s].slv[t] = g.srv[s].slv[t] /\ k.link[t] = g.link[t]
<1> DEFINE T == WaitingEnd(g, s)
           b == CloseSlaves(g, s, T)
           f == [t \in Server |-> IF t \in T THEN Dropped(b.link[t]) ELSE b.link[t]]
           k == FinishSlaves(g, s, FALSE)
<1>1. k = [b EXCEPT !.link = f]
  BY DEF FinishSlaves, Dropped
<1> HIDE DEF T, k
<1>2. /\ Typed(b)
      /\ \A x \in Server : Twin(g.srv[x], b.srv[x])
      /\ \A x \in Server \ {s} : b.srv[x] = g.srv[x]
      /\ \A t \in Server : b.srv[s].slv[t] = IF t \in T THEN NoClient ELSE g.srv[s].slv[t]
      /\ \A t \in Server : b.link[t] = IF t \in T /\ g.link[t].to = s
                                       THEN [g.link[t] EXCEPT !.open = FALSE] ELSE g.link[t]
      /\ \A t \in Server : b.link[t].q = g.link[t].q /\ b.link[t].to = g.link[t].to
  BY CloseSlavesParts
<1> HIDE DEF b
<1>3. b = [srv |-> b.srv, link |-> b.link]
  BY <1>2, Shaped
<1>4. /\ b.srv \in [Server -> Record] /\ b.link \in [Server -> Link]
      /\ \A x \in Server : b.srv[x].host # x /\ b.link[x].to # x
  BY <1>2 DEF Typed
<1>5. ASSUME NEW t \in Server
      PROVE  Dropped(b.link[t]) \in Link /\ Dropped(b.link[t]).to = b.link[t].to
             /\ Beginning(Dropped(b.link[t]).q, g.link[t].q)
  <2>1. b.link[t] \in Link /\ b.link[t].q = g.link[t].q
    BY <1>2, <1>4
  <2>2. Dropped(b.link[t]) \in Link /\ Dropped(b.link[t]).to = b.link[t].to /\ Beginning(Dropped(b.link[t]).q, b.link[t].q)
    BY <2>1, DroppedParts
  <2> QED
    BY <2>1, <2>2
<1>6. /\ f \in [Server -> Link] /\ \A t \in Server : f[t].to = b.link[t].to
      /\ \A t \in Server : t \in T => f[t] = Dropped(b.link[t])
      /\ \A t \in Server : t \notin T => f[t] = b.link[t]
  BY <1>4, <1>5
<1> HIDE DEF f
<1>7. k.srv = b.srv /\ k.link = f /\ k = [srv |-> k.srv, link |-> k.link]
  <2>1. \A z : [b EXCEPT !.link = z] = [srv |-> b.srv, link |-> z]
    BY <1>3
  <2>2. k = [srv |-> b.srv, link |-> f]
    BY <1>1, <2>1
  <2> QED
    BY <2>2
<1>8. Typed(k)
  BY <1>4, <1>6, <1>7 DEF Typed
<1>9. \A t \in Server : t \in T => k.srv[s].slv[t] = NoClient /\ Beginning(k.link[t].q, g.link[t].q)
  BY <1>2, <1>5, <1>6, <1>7
<1>10. \A t \in Server : t \notin T => k.srv[s].slv[t] = g.srv[s].slv[t] /\ k.link[t] = g.link[t]
  BY <1>2, <1>6, <1>7
<1>11. Twin(g.srv[s], k.srv[s]) /\ \A x \in Server \ {s} : k.srv[x] = g.srv[x]
  BY <1>2, <1>7
<1> QED
  BY <1>8, <1>9, <1>10, <1>11 DEF T, k

LEMMA FinishFailedOK ==
    ASSUME NEW h, NEW g, GroupOK(h, g), NEW s \in Server
    PROVE  Finished(h, g, FinishSlaves(g, s, FALSE), s)
<1> DEFINE r == g.srv[s]
           T == WaitingEnd(g, s)
           k == FinishSlaves(g, s, FALSE)
<1>1. /\ h \in History /\ Typed(g)
      /\ \A t \in Server : /\ g.srv[t] \in Record /\ RecordOK(h, g.srv[t]) /\ g.link[t] \in Link
                           /\ LinkOK(h, g.srv[t], g.link[t]) /\ ClientOK(h, s, r, r.slv[t], g.srv[t], g.link[t])
  BY GroupParts DEF GroupOK
<1>2. /\ Typed(k) /\ \A x \in Server \ {s} : k.srv[x] = g.srv[x]
      /\ Twin(g.srv[s], k.srv[s])
      /\ \A t \in Server : t \in T => k.srv[s].slv[t] = NoClient /\ Beginning(k.link[t].q, g.link[t].q)
      /\ \A t \in Server : t \notin T => k.srv[s].slv[t] = g.srv[s].slv[t] /\ k.link[t] = g.link[t]
  BY <1>1, FinishFailedParts
<1>3. \A t \in Server : t \in T <=> r.slv[t].st = "end"
  BY DEF WaitingEnd
<1> HIDE DEF k, T
<1>4. ASSUME NEW t \in Server, t \in T
      PROVE  TurnOK(h, g, s, t, k.srv[s].slv[t], k.link[t]) /\ k.srv[s].slv[t].st = "none"
  <2>1. k.srv[s].slv[t] = NoClient /\ Beginning(k.link[t].q, g.link[t].q)
    BY <1>2, <1>4
  <2>2. k.srv[s].slv[t].st = "none"
    BY <2>1, ClientTypes
  <2>3. ClientOK(h, s, r, k.srv[s].slv[t], g.srv[t], k.link[t])
    BY <2>2, NoneOK
  <2>4. g.srv[t].state \in {"psync", "transfer", "connected"}
    <3>1. g.link[t].to = s
      BY <1>1, <1>3, <1>4 DEF ClientOK
    <3>2. g.link[t] # NoLink
      BY <3>1, ClientTypes, ReplicationConstants
    <3>3. g.srv[t].state \in {"none", "connect", "psync", "transfer", "connected"}
      BY <1>1 DEF Record
    <3> QED
      BY <1>1, <3>2, <3>3 DEF LinkOK
  <2>5. LinkOK(h, g.srv[t], k.link[t]) /\ \A I : QueueIn(I, g.link[t].q) => QueueIn(I, k.link[t].q)
    <3> DEFINE rt == g.srv[t]
               l == g.link[t]
    <3>1. /\ h \in History /\ rt \in Record /\ RecordOK(h, rt) /\ l \in Link /\ LinkOK(h, rt, l)
          /\ Beginning(k.link[t].q, l.q) /\ rt.state \in {"psync", "transfer", "connected"}
      BY <1>1, <2>1, <2>4
    <3> HIDE DEF rt, l
    <3>2. LinkOK(h, rt, k.link[t]) /\ \A I : QueueIn(I, l.q) => QueueIn(I, k.link[t].q)
      BY <3>1, BeginningLink
    <3> QED
      BY <3>2 DEF rt, l
  <2>6. r.slv[t].st # "none"
    BY <1>3, <1>4
  <2> QED
    BY <2>2, <2>3, <2>5, <2>6 DEF TurnOK
<1>5. GroupOK(h, k) /\ \A x \in Server : k.srv[x].id = g.srv[x].id
  BY <1>2, <1>4, TurnsOK
<1>6. \A t \in Server : k.srv[s].slv[t].st # "end"
  BY <1>2, <1>3, <1>4
<1> QED
  BY <1>2, <1>5, <1>6 DEF Finished, k

\* The end of a child, before those that still wait are looked at.
Ended(g, s, f) == [g EXCEPT !.srv[s].child = None, !.srv[s].file = f]
Done(g, s, f, ok) == Ended(FinishSlaves(g, s, ok), s, f)

NoChild(r, f) == [r EXCEPT !.child = None, !.file = f]

LEMMA NoChildIs ==
    ASSUME NEW r \in Record, NEW f \in File
    PROVE  NoChild(r, f) = Saved(r, r.seldb, None, f)
<1> DEFINE y == [r EXCEPT !.seldb = r.seldb]
<1>1. y = r
  BY DEF Record
<1>2. Saved(r, r.seldb, None, f) = [y EXCEPT !.child = None, !.file = f]
  BY DEF Saved
<1> HIDE DEF y
<1> QED
  BY <1>1, <1>2 DEF NoChild

LEMMA NoChildPut ==
    ASSUME NEW g, Typed(g), NEW s \in Server, NEW f
    PROVE  Ended(g, s, f) = Put(g, s, NoChild(g.srv[s], f))
<1> DEFINE e == [g.srv[s] EXCEPT !.child = None]
           b == [g EXCEPT !.srv[s].child = None]
<1>1. Ended(g, s, f) = [b EXCEPT !.srv[s].file = f]
  BY DEF Ended
<1>2. NoChild(g.srv[s], f) = [e EXCEPT !.file = f]
  BY DEF NoChild
<1>3. g.srv = [x \in Server |-> g.srv[x]] /\ g = [srv |-> g.srv, link |-> g.link]
  BY Shaped
<1>4. b = [g EXCEPT !.srv = [g.srv EXCEPT ![s] = e]]
  OBVIOUS
<1>5. b = Put(g, s, e)
  BY <1>3, <1>4, PutIs
<1> HIDE DEF e, b
<1>6. g.srv = [x \in Server |-> g.srv[x]]
  BY <1>3
<1>7. /\ b = [srv |-> b.srv, link |-> b.link] /\ b.srv[s] = e
      /\ \A q : Put(b, s, q) = Put(g, s, q)
  <2>1. /\ Put(g, s, e) = [srv |-> Put(g, s, e).srv, link |-> Put(g, s, e).link]
        /\ Put(g, s, e).srv[s] = e /\ Put(g, s, e).srv = [x \in Server |-> Put(g, s, e).srv[x]]
        /\ \A q : Put(Put(g, s, e), s, q) = Put(g, s, q)
    BY <1>6, PutAgain
  <2> QED
    BY <1>5, <2>1
<1>8. [b EXCEPT !.srv[s].file = f] = [b EXCEPT !.srv = [b.srv EXCEPT ![s] = [b.srv[s] EXCEPT !.file = f]]]
  OBVIOUS
<1>9. [b EXCEPT !.srv = [b.srv EXCEPT ![s] = [b.srv[s] EXCEPT !.file = f]]]
         = Put(b, s, [b.srv[s] EXCEPT !.file = f])
  BY <1>7, PutIs
<1>10. Put(b, s, [b.srv[s] EXCEPT !.file = f]) = Put(g, s, NoChild(g.srv[s], f))
  BY <1>2, <1>7
<1> QED
  BY <1>1, <1>8, <1>9, <1>10

LEMMA DoneOK ==
    ASSUME NEW h, NEW g, GroupOK(h, g), NEW s \in Server, g.srv[s].child # None, NEW ok \in BOOLEAN,
           NEW f \in {g.srv[s].file, g.srv[s].child.file}
    PROVE  LET k == Done(g, s, f, ok) IN
           /\ Held(h, k) /\ k.srv[s].child = None /\ \A x \in Server : k.srv[x].id = g.srv[x].id
<1> DEFINE b == FinishSlaves(g, s, ok)
           k == Done(g, s, f, ok)
<1>1. Finished(h, g, b, s)
  <2>1. g.srv[s] \in Record
    BY GroupParts
  <2>2. g.srv[s].child.type \in {"disk", "socket"}
    BY <2>1 DEF Record, Child
  <2> QED
    BY <2>2, FinishDiskOK, FinishSocketOK, FinishFailedOK
<1> HIDE DEF b
<1> DEFINE r == b.srv[s]
           e == Saved(r, r.seldb, None, f)
<1>2. /\ GroupOK(h, b) /\ Twin(g.srv[s], r) /\ (\A x \in Server : b.srv[x].id = g.srv[x].id)
      /\ \A t \in Server : r.slv[t].st # "end"
  BY <1>1 DEF Finished
<1>3. h \in History /\ r \in Record /\ RecordOK(h, r) /\ OwnOK(r) /\ Typed(b) /\ r.host # s
  BY <1>2, GroupParts DEF GroupOK
<1>4. r.child # None /\ r.file = g.srv[s].file /\ r.child = g.srv[s].child
  BY <1>2 DEF Twin
<1>5. f \in File /\ FileOK(h, f) /\ f \in {r.file, r.child.file}
  BY <1>3, <1>4 DEF Record, Child, RecordOK, FilesOK
<1>6. k = Put(b, s, e)
  <2>1. k = Ended(b, s, f)
    BY DEF Done, b
  <2>2. Ended(b, s, f) = Put(b, s, NoChild(r, f))
    <3>1. Typed(b)
      BY <1>3
    <3> QED
      BY <3>1, NoChildPut
  <2>3. NoChild(r, f) = e
    BY <1>3, <1>5, NoChildIs
  <2> QED
    BY <2>1, <2>2, <2>3
<1> HIDE DEF k
<1>7. Held(h, Put(b, s, e))
  <2>1. \A I : FilesIn(I, r) /\ r.id \in I /\ NoId \in I => f.id \in I /\ (None # None => None.file.id \in I)
    BY <1>4, <1>5 DEF FilesIn
  <2>2. Private(r) => f.id # r.id /\ (None # None => None.file.id # r.id)
    BY <1>3, <1>4, <1>5 DEF OwnOK, FilesIn, Others
  <2>3. None \in Child \cup {None} /\ r.seldb \in {NoDb, r.seldb} /\ (None # None => FileOK(h, None.file))
    OBVIOUS
  <2> QED
    BY <1>2, <1>5, <2>1, <2>2, <2>3, SavedOK
<1>8. Savable(r.seldb, None, f)
  BY <1>3, <1>5 DEF Savable, Record
<1>9. e \in Record /\ e.child = None /\ e.id = r.id /\ e.host = r.host
  BY <1>3, <1>8, SavedParts
<1> HIDE DEF e
<1>10. Put(b, s, e).srv[s] = e /\ \A x \in Server \ {s} : Put(b, s, e).srv[x] = b.srv[x]
  BY <1>3, <1>9, PutParts
<1>11. k.srv[s].child = None /\ \A x \in Server : k.srv[x].id = g.srv[x].id
  BY <1>2, <1>6, <1>9, <1>10
<1> QED
  BY <1>6, <1>7, <1>11 DEF k

-----------------------------------------------------------------------------
(* Steps                                                                   *)

ReplicationInv == HistoriesInv /\ ids \in 1..MaxIds /\ ops \in 0..MaxOps

LEMMA HeldReached ==
    ASSUME NEW h, NEW k, h.ids = ids, GroupOK(h, k) \/ Held(h, k)
    PROVE  Reached(h.writes, k)
<1>1. CASE GroupOK(h, k)
  <2>1. h \in History
    BY <1>1 DEF GroupOK
  <2> QED
    BY <1>1, <2>1 DEF Reached
<1>2. CASE Held(h, k)
  BY <1>2 DEF Reached, Held
<1> QED
  BY <1>1, <1>2

LEMMA ReachedOn ==
    ASSUME NEW w, NEW k, NEW n, Reached(w, k), \A j : GroupOK(j, k) => GroupOK(j, n) \/ Held(j, n),
           \A x \in Server : n.srv[x].id = k.srv[x].id
    PROVE  Reached(w, n)
<1>1. PICK j \in History : /\ j.writes = w /\ GroupOK(j, k)
                           /\ j.ids = ids \/ (j.ids = ids + 1 /\ \E s \in Server : k.srv[s].id = ids + 1)
  BY DEF Reached
<1>2. PICK i \in History : i.ids = j.ids /\ i.writes = j.writes /\ GroupOK(i, n)
  <2>1. GroupOK(j, n) \/ Held(j, n)
    BY <1>1
  <2> QED
    BY <1>1, <2>1 DEF Held
<1> QED
  BY <1>1, <1>2 DEF Reached

LEMMA StepTo ==
    ASSUME NEW k, NEW w, Reached(w, k), Becomes(k), writes' = w, ids \in 1..MaxIds
    PROVE  HistoriesInv' /\ ids' \in 1..MaxIds
<1>1. PICK j \in History : /\ j.writes = w /\ GroupOK(j, k)
                           /\ j.ids = ids \/ (j.ids = ids + 1 /\ \E s \in Server : k.srv[s].id = ids + 1)
  BY DEF Reached
<1>2. MaxIds \in Nat /\ ids \in Nat /\ ids >= 1
  BY ReplicationConstants
<1>3. /\ srv' = k.srv /\ link' = k.link /\ ids' <= MaxIds
      /\ ids' = IF \E s \in Server : k.srv[s].id > ids THEN ids + 1 ELSE ids
  BY DEF Becomes
<1>4. State' = k
  <2>1. k = [srv |-> k.srv, link |-> k.link]
    BY <1>1, GroupParts
  <2> QED
    BY <1>3, <2>1 DEF State
<1>5. \A s \in Server : k.srv[s].id \in 1..j.ids
  BY <1>1, GroupParts DEF RecordOK
<1>6. ids' = j.ids
  <2>1. CASE j.ids = ids
    <3>1. \A s \in Server : ~(k.srv[s].id > ids)
      BY <1>2, <1>5, <2>1
    <3> QED
      BY <1>3, <2>1, <3>1
  <2>2. CASE j.ids = ids + 1 /\ \E s \in Server : k.srv[s].id = ids + 1
    <3>1. \E s \in Server : k.srv[s].id > ids
      BY <1>2, <2>2
    <3> QED
      BY <1>3, <2>2, <3>1
  <2> QED
    BY <1>1, <2>1, <2>2
<1>7. ids' \in 1..MaxIds
  BY <1>2, <1>3
<1>8. \E h \in History : h.ids = ids' /\ h.writes = writes' /\ GroupOK(h, State')
  BY <1>1, <1>4, <1>6
<1>9. HistoriesInv'
  BY <1>8 DEF HistoriesInv, GroupOK, State, Typed, HistoryOK
<1> QED
  BY <1>7, <1>9

LEMMA InvParts ==
    ASSUME ReplicationInv
    PROVE  \E h \in History : h.ids = ids /\ h.writes = writes /\ GroupOK(h, State)
  BY DEF ReplicationInv, HistoriesInv

LEMMA SimpleSteps ==
    ASSUME ReplicationInv, NEW s \in Server, NEW t \in Server,
           SlaveOf(s, t) \/ Ack(s, t) \/ SlaveTimeout(s, t) \/ SlaveOfNoOne(s) \/ FreeBacklog(s) \/ ResizeBacklog(s)
              \/ Disconnect(t)
    PROVE  HistoriesInv' /\ ids' \in 1..MaxIds
<1>1. PICK h \in History : h.ids = ids /\ h.writes = writes /\ GroupOK(h, State)
  BY InvParts
<1>2. State.srv = srv /\ State.link = link /\ ids \in 1..MaxIds
  BY DEF State, ReplicationInv
<1>3. CASE SlaveOf(s, t)
  <2>1. s # t /\ Becomes(SetMaster(State, s, t)) /\ writes' = writes
    BY <1>3 DEF SlaveOf
  <2>2. Reached(h.writes, SetMaster(State, s, t))
    BY <1>1, <2>1, SetMasterOK
  <2> QED
    BY <1>1, <1>2, <2>1, <2>2, StepTo
<1>4. CASE SlaveOfNoOne(s)
  <2>1. Becomes(UnsetMaster(State, s)) /\ writes' = writes
    BY <1>4 DEF SlaveOfNoOne
  <2>2. Reached(h.writes, UnsetMaster(State, s))
    BY <1>1, UnsetMasterOK
  <2> QED
    BY <1>1, <1>2, <2>1, <2>2, StepTo
<1>5. CASE Ack(s, t)
  <2>1. State.srv[s].slv[t].st = "ack" /\ Becomes(PutOnline(State, s, {t})) /\ writes' = writes
    BY <1>2, <1>5 DEF Ack
  <2>2. GroupOK(h, PutOnline(State, s, {t}))
    BY <1>1, <2>1, AckOK
  <2>3. Reached(h.writes, PutOnline(State, s, {t}))
    BY <1>1, <2>2, HeldReached
  <2> QED
    BY <1>1, <1>2, <2>1, <2>3, StepTo
<1>6. CASE SlaveTimeout(s, t)
  <2>1. Becomes(CloseSlaves(State, s, {t})) /\ writes' = writes
    BY <1>6 DEF SlaveTimeout
  <2>2. GroupOK(h, CloseSlaves(State, s, {t}))
    BY <1>1, CloseSlavesOK
  <2>3. Reached(h.writes, CloseSlaves(State, s, {t}))
    BY <1>1, <2>2, HeldReached
  <2> QED
    BY <1>1, <1>2, <2>1, <2>3, StepTo
<1>7. CASE Disconnect(t)
  <2>1. Becomes(LoseMaster(State, t)) /\ writes' = writes
    BY <1>7 DEF Disconnect
  <2>2. GroupOK(h, LoseMaster(State, t))
    BY <1>1, LoseMasterOK
  <2>3. Reached(h.writes, LoseMaster(State, t))
    BY <1>1, <2>2, HeldReached
  <2> QED
    BY <1>1, <1>2, <2>1, <2>3, StepTo
<1>8. CASE FreeBacklog(s)
  <2> DEFINE k == [ClearReplicationId2(ChangeReplicationId(State, s), s) EXCEPT !.srv[s].backlog = None]
  <2>1. State.srv[s].host = None /\ SlavesOf(State, s) = {} /\ Becomes(k) /\ writes' = writes
    BY <1>2, <1>8 DEF FreeBacklog
  <2>2. Reached(h.writes, k)
    BY <1>1, <2>1, FreeBacklogOK
  <2> HIDE DEF k
  <2> QED
    BY <1>1, <1>2, <2>1, <2>2, StepTo
<1>9. CASE ResizeBacklog(s)
  <2>1. State.srv[s].backlog # None /\ Becomes(CreateBacklog(State, s)) /\ writes' = writes
    BY <1>2, <1>9 DEF ResizeBacklog
  <2>2. GroupOK(h, CreateBacklog(State, s))
    BY <1>1, <2>1, ResizeOK
  <2>3. Reached(h.writes, CreateBacklog(State, s))
    BY <1>1, <2>2, HeldReached
  <2> QED
    BY <1>1, <1>2, <2>1, <2>3, StepTo
<1> QED
  BY <1>3, <1>4, <1>5, <1>6, <1>7, <1>8, <1>9

LEMMA RestartStep ==
    ASSUME ReplicationInv, NEW s \in Server, Restart(s)
    PROVE  HistoriesInv' /\ ids' \in 1..MaxIds
<1>1. PICK h \in History : h.ids = ids /\ h.writes = writes /\ GroupOK(h, State)
  BY InvParts
<1>2. State.srv = srv /\ ids \in 1..MaxIds
  BY DEF State, ReplicationInv
<1> DEFINE r == State.srv[s]
           f == r.file
           new == Started(r.host, ids + 1, f)
           back == Resumed(new, f)
           k == [DisconnectSlaves(CloseLink(State, s), s) EXCEPT
                    !.srv[s] = IF r.host # None /\ f.sel # NoDb THEN back ELSE new]
<1>3. Becomes(k) /\ writes' = writes
  BY <1>2 DEF Restart, Started, Resumed
<1>4. Reached(h.writes, k)
  BY <1>1, RestartOK
<1> HIDE DEF k
<1> QED
  BY <1>1, <1>2, <1>3, <1>4, StepTo

LEMMA BgsaveSteps ==
    ASSUME ReplicationInv, NEW s \in Server, NEW type \in {"disk", "socket"}, CronBgsave(s, type) \/ Bgsave(s)
    PROVE  HistoriesInv' /\ ids' \in 1..MaxIds
<1>1. PICK h \in History : h.ids = ids /\ h.writes = writes /\ GroupOK(h, State)
  BY InvParts
<1>2. State.srv = srv /\ State.link = link /\ ids \in 1..MaxIds
  BY DEF State, ReplicationInv
<1>3. CASE CronBgsave(s, type) /\ CanBgsave(State, s)
  <2>1. State.srv[s].child = None /\ Becomes(StartBgsave(State, s, type)) /\ writes' = writes
    BY <1>2, <1>3 DEF CronBgsave
  <2>2. Held(h, StartBgsave(State, s, type))
    BY <1>1, <1>3, <2>1, StartBgsaveOK
  <2>3. Reached(h.writes, StartBgsave(State, s, type))
    BY <1>1, <2>2, HeldReached
  <2> QED
    BY <1>1, <1>2, <2>1, <2>3, StepTo
<1>4. CASE CronBgsave(s, type) /\ ~CanBgsave(State, s)
  <2>1. Becomes(BgsaveFailed(State, s)) /\ writes' = writes
    BY <1>2, <1>4 DEF CronBgsave
  <2>2. GroupOK(h, BgsaveFailed(State, s))
    BY <1>1, BgsaveFailedOK
  <2>3. Reached(h.writes, BgsaveFailed(State, s))
    BY <1>1, <2>2, HeldReached
  <2> QED
    BY <1>1, <1>2, <2>1, <2>3, StepTo
<1>5. CASE Bgsave(s)
  <2> DEFINE k == [State EXCEPT !.srv[s].child = Job("disk", Snapshot(State.srv[s]))]
  <2>1. State.srv[s].child = None /\ Becomes(k) /\ writes' = writes
    BY <1>2, <1>5 DEF Bgsave, Job
  <2>2. Held(h, k)
    BY <1>1, <2>1, BgsaveOK
  <2> HIDE DEF k
  <2>3. Reached(h.writes, k)
    BY <1>1, <2>2, HeldReached
  <2> QED
    BY <1>1, <1>2, <2>1, <2>3, StepTo
<1> QED
  BY <1>3, <1>4, <1>5

LEMMA BgsaveDoneStep ==
    ASSUME ReplicationInv, NEW s \in Server, NEW ok \in BOOLEAN, BgsaveDone(s, ok)
    PROVE  HistoriesInv' /\ ids' \in 1..MaxIds
<1>1. PICK h \in History : h.ids = ids /\ h.writes = writes /\ GroupOK(h, State)
  BY InvParts
<1>2. State.srv = srv /\ State.link = link /\ ids \in 1..MaxIds
  BY DEF State, ReplicationInv
<1> DEFINE c == State.srv[s].child
           f == IF ok /\ c.type = "disk" THEN c.file ELSE State.srv[s].file
           k == Done(State, s, f, ok)
<1>3. /\ c # None /\ writes' = writes
      /\ IF Waiting(k, s) = {} THEN Becomes(k)
         ELSE IF CanBgsave(k, s) THEN \E type \in {"disk", "socket"} : Becomes(StartBgsave(k, s, type))
         ELSE Becomes(BgsaveFailed(k, s))
  BY <1>2 DEF BgsaveDone, Done, Ended
<1>4. f \in {State.srv[s].file, State.srv[s].child.file}
  OBVIOUS
<1> HIDE DEF f
<1>5. Held(h, k) /\ k.srv[s].child = None
  BY <1>1, <1>3, <1>4, DoneOK
<1> HIDE DEF k
<1>6. Reached(h.writes, k)
  BY <1>1, <1>5, HeldReached
<1>7. CASE Becomes(k)
  BY <1>1, <1>2, <1>3, <1>6, <1>7, StepTo
<1>8. CASE CanBgsave(k, s) /\ \E type \in {"disk", "socket"} : Becomes(StartBgsave(k, s, type))
  <2>1. PICK type \in {"disk", "socket"} : Becomes(StartBgsave(k, s, type))
    BY <1>8
  <2>2. ASSUME NEW j, GroupOK(j, k)
        PROVE  Held(j, StartBgsave(k, s, type)) /\ \A x \in Server : StartBgsave(k, s, type).srv[x].id = k.srv[x].id
    BY <1>5, <1>8, <2>1, <2>2, StartBgsaveOK
  <2>3. \A x \in Server : StartBgsave(k, s, type).srv[x].id = k.srv[x].id
    BY <1>6, <2>2 DEF Reached
  <2>4. \A j : GroupOK(j, k) => GroupOK(j, StartBgsave(k, s, type)) \/ Held(j, StartBgsave(k, s, type))
    BY <2>2
  <2>5. Reached(h.writes, StartBgsave(k, s, type))
    BY <1>6, <2>3, <2>4, ReachedOn
  <2> QED
    BY <1>1, <1>2, <1>3, <2>1, <2>5, StepTo
<1>9. CASE Becomes(BgsaveFailed(k, s))
  <2>2. ASSUME NEW j, GroupOK(j, k)
        PROVE  GroupOK(j, BgsaveFailed(k, s)) /\ \A x \in Server : BgsaveFailed(k, s).srv[x].id = k.srv[x].id
    BY <2>2, BgsaveFailedOK
  <2>3. \A x \in Server : BgsaveFailed(k, s).srv[x].id = k.srv[x].id
    BY <1>6, <2>2 DEF Reached
  <2>4. \A j : GroupOK(j, k) => GroupOK(j, BgsaveFailed(k, s)) \/ Held(j, BgsaveFailed(k, s))
    BY <2>2
  <2>5. Reached(h.writes, BgsaveFailed(k, s))
    BY <1>6, <2>3, <2>4, ReachedOn
  <2> QED
    BY <1>1, <1>2, <1>3, <1>9, <2>5, StepTo
<1> QED
  BY <1>3, <1>7, <1>8, <1>9

LEMMA MessageFields ==
    ASSUME NEW m \in Message
    PROVE  m.type = "fullresync" => m.id \in Nat /\ m.off \in Nat
<1>1. m.type \in {"select", "write"} \/ m \in [type : {"fullresync"}, id : Nat, off : Nat] \/ m.type \in {"continue", "error", "rdb"}
  BY DEF Message, Command
<1> QED
  BY <1>1

LEMMA ReceiveReplyStep ==
    ASSUME ReplicationInv, NEW t \in Server, ReceiveReply(t)
    PROVE  HistoriesInv' /\ ids' \in 1..MaxIds
<1>1. PICK h \in History : h.ids = ids /\ h.writes = writes /\ GroupOK(h, State)
  BY InvParts
<1>2. State.srv = srv /\ State.link = link /\ ids \in 1..MaxIds
  BY DEF State, ReplicationInv
<1> DEFINE g == [State EXCEPT !.link[t].q = Tail(@)]
           m == Head(State.link[t].q)
<1>3. /\ State.srv[t].state = "psync" /\ State.link[t].q # <<>> /\ writes' = writes
      /\ \/ m.type = "fullresync" /\ Becomes(BeginTransfer(g, t, m.id, m.off))
         \/ m.type = "continue" /\ Becomes(ContinueWith(g, t, m.id))
         \/ m.type = "error" /\ Becomes(BeginTransfer(g, t, State.srv[t].mid, -1))
  BY <1>2 DEF ReceiveReply
<1>4. m = State.link[t].q[1] /\ m \in Message
  <2>1. State.link[t] \in Link
    BY <1>1, GroupParts
  <2>2. State.link[t].q \in Seq(Message)
    BY <2>1 DEF Link
  <2> QED
    BY <1>3, <2>2, TailOf
<1>5. CASE m.type = "fullresync" /\ Becomes(BeginTransfer(g, t, m.id, m.off))
  <2> DEFINE k == BeginTransfer(g, t, m.id, m.off)
  <2>1. m.off \in Int
    BY <1>4, <1>5, MessageFields
  <2>a. State.link[t].q[1].type = "fullresync" /\ m.id = State.link[t].q[1].id /\ m.off = State.link[t].q[1].off
    BY <1>4, <1>5
  <2> HIDE DEF m
  <2>2. GroupOK(h, k)
    BY <1>1, <1>3, <2>1, <2>a, BeginTransferOK
  <2> HIDE DEF k
  <2>3. Reached(h.writes, k)
    BY <1>1, <2>2, HeldReached
  <2>4. Becomes(k)
    BY <1>5 DEF k
  <2> QED
    BY <1>1, <1>2, <1>3, <2>3, <2>4, StepTo
<1>6. CASE m.type = "continue" /\ Becomes(ContinueWith(g, t, m.id))
  <2> DEFINE k == ContinueWith(g, t, m.id)
  <2>2. GroupOK(h, k)
    BY <1>1, <1>3, <1>4, <1>6, ContinueWithOK
  <2> HIDE DEF k
  <2>3. Reached(h.writes, k)
    BY <1>1, <2>2, HeldReached
  <2>4. Becomes(k)
    BY <1>6 DEF k
  <2> QED
    BY <1>1, <1>2, <1>3, <2>3, <2>4, StepTo
<1>7. CASE m.type = "error" /\ Becomes(BeginTransfer(g, t, State.srv[t].mid, -1))
  <2> DEFINE i == State.srv[t].mid
             n == -1
             k == BeginTransfer(g, t, i, n)
  <2>1. n \in Int
    OBVIOUS
  <2>a. State.link[t].q[1].type = "error" /\ i = State.srv[t].mid
    BY <1>4, <1>7
  <2> HIDE DEF m, i, n
  <2>2. GroupOK(h, k)
    BY <1>1, <1>3, <2>1, <2>a, BeginTransferOK
  <2> HIDE DEF k
  <2>3. Reached(h.writes, k)
    BY <1>1, <2>2, HeldReached
  <2>4. Becomes(k)
    BY <1>7 DEF k, i, n
  <2> QED
    BY <1>1, <1>2, <1>3, <2>3, <2>4, StepTo
<1> QED
  BY <1>3, <1>5, <1>6, <1>7

LEMMA ReceiveRdbStep ==
    ASSUME ReplicationInv, NEW t \in Server, ReceiveRdb(t)
    PROVE  HistoriesInv' /\ ids' \in 1..MaxIds
<1>1. PICK h \in History : h.ids = ids /\ h.writes = writes /\ GroupOK(h, State)
  BY InvParts
<1>2. State.srv = srv /\ State.link = link /\ ids \in 1..MaxIds
  BY DEF State, ReplicationInv
<1> DEFINE k == LoadTransfer([State EXCEPT !.link[t].q = Tail(@)], t, Head(State.link[t].q).file)
<1>3. /\ State.srv[t].state = "transfer" /\ State.link[t].q # <<>> /\ writes' = writes /\ Becomes(k)
  BY <1>2 DEF ReceiveRdb
<1>4. GroupOK(h, k)
  BY <1>1, <1>3, LoadTransferOK
<1> HIDE DEF k
<1>5. Reached(h.writes, k)
  BY <1>1, <1>4, HeldReached
<1> QED
  BY <1>1, <1>2, <1>3, <1>5, StepTo

LEMMA ApplyCommandIs ==
    ASSUME NEW h, NEW g, GroupOK(h, g), NEW t \in Server, g.link[t].q # <<>>, NEW m
    PROVE  ApplyCommand([g EXCEPT !.link[t].q = Tail(@)], t, m)
              = Feed(PutBoth(g, t, Applied(g.srv[t], m), Shorter(g.link[t])), t, <<m>>)
<1>1. Typed(g) /\ g.link[t] \in Link /\ g.link[t].to # t
  BY GroupParts DEF GroupOK
<1> DEFINE l == Shorter(g.link[t])
           e == PutLink(g, t, l)
<1>2. [g EXCEPT !.link[t].q = Tail(@)] = e
  BY <1>1, ReadIs
<1>3. l \in Link /\ l.to # t
  BY <1>1, ShorterParts
<1> HIDE DEF l
<1>4. /\ e.srv = g.srv /\ e = [srv |-> e.srv, link |-> e.link]
      /\ \A q : Put(e, t, q) = PutBoth(g, t, q, l)
  BY <1>1, <1>3, PutLinkParts
<1> HIDE DEF e
<1>5. [e EXCEPT !.srv[t] = Applied(e.srv[t], m)] = Put(e, t, Applied(e.srv[t], m))
  BY <1>4, PutOne
<1>6. ApplyCommand(e, t, m) = Feed([e EXCEPT !.srv[t] = Applied(e.srv[t], m)], t, <<m>>)
  BY DEF ApplyCommand, Applied
<1> QED
  BY <1>2, <1>4, <1>5, <1>6 DEF l

LEMMA ReceiveCommandStep ==
    ASSUME ReplicationInv, NEW t \in Server, ReceiveCommand(t)
    PROVE  HistoriesInv' /\ ids' \in 1..MaxIds
<1>1. PICK h \in History : h.ids = ids /\ h.writes = writes /\ GroupOK(h, State)
  BY InvParts
<1>2. State.srv = srv /\ State.link = link /\ ids \in 1..MaxIds
  BY DEF State, ReplicationInv
<1> DEFINE m == Head(State.link[t].q)
           k == Feed(PutBoth(State, t, Applied(State.srv[t], m), Shorter(State.link[t])), t, <<m>>)
<1>3. /\ State.srv[t].state = "connected" /\ State.link[t].q # <<>> /\ writes' = writes
      /\ Becomes(ApplyCommand([State EXCEPT !.link[t].q = Tail(@)], t, m))
  BY <1>2 DEF ReceiveCommand
<1>4. Becomes(k)
  BY <1>1, <1>3, ApplyCommandIs
<1>5. GroupOK(h, k)
  BY <1>1, <1>3, ApplyOK
<1> HIDE DEF k
<1>6. Reached(h.writes, k)
  BY <1>1, <1>5, HeldReached
<1> QED
  BY <1>1, <1>2, <1>3, <1>4, <1>6, StepTo

LEMMA WriteStep ==
    ASSUME ReplicationInv, NEW s \in Server, NEW d \in Db, Write(s, d)
    PROVE  HistoriesInv' /\ ids' \in 1..MaxIds
<1>1. PICK h \in History : h.ids = ids /\ h.writes = writes /\ GroupOK(h, State)
  BY InvParts
<1>2. State.srv = srv /\ State.link = link /\ ids \in 1..MaxIds
  BY DEF State, ReplicationInv
<1> DEFINE r == State.srv[s]
           n == Len(h.writes) + 1
           msgs == (IF r.seldb = d THEN <<>> ELSE <<[type |-> "select", db |-> d]>>)
                      \o <<[type |-> "write", w |-> n]>>
           g == [State EXCEPT !.srv[s].db = Append(@, [w |-> n, db |-> d])]
<1>3. /\ r.host = None /\ writes' = Append(h.writes, d)
      /\ Becomes(IF r.backlog = None /\ SlavesOf(State, s) = {} THEN g
                 ELSE Feed([g EXCEPT !.srv[s].seldb = d], s, msgs))
  BY <1>1, <1>2 DEF Write
<1>4. Typed(State) /\ r \in Record /\ State = [srv |-> State.srv, link |-> State.link] /\ RecordOK(h, r)
      /\ State.srv = [x \in Server |-> State.srv[x]] /\ State.link = [x \in Server |-> State.link[x]]
  BY <1>1, GroupParts DEF GroupOK
<1> DEFINE p == Put(State, s, Wrote(r, [w |-> n, db |-> d]))
<1>5. g = p
  <2>1. g = [State EXCEPT !.srv = [State.srv EXCEPT ![s] = Wrote(r, [w |-> n, db |-> d])]]
    BY DEF Wrote
  <2> QED
    BY <1>4, <2>1, PutIs
<1>6. CASE r.backlog = None
  <2>1. SlavesOf(State, s) = {}
    BY <1>1, <1>6, NoBacklogNoClients DEF SlavesOf
  <2>2. Becomes(p)
    BY <1>3, <1>5, <1>6, <2>1
  <2>3. Private(State.srv[s])
    BY <1>3, <1>6 DEF Private
  <2>4. \E j \in History : j.ids = h.ids /\ j.writes = Append(h.writes, d) /\ GroupOK(j, p)
    BY <1>1, <2>3, WriteAloneOK
  <2> HIDE DEF p
  <2>5. Reached(Append(h.writes, d), p)
    BY <1>1, <2>4 DEF Reached
  <2> HIDE DEF r, g, n, msgs
  <2> QED
    BY <1>2, <1>3, <2>2, <2>5, StepTo
<1>7. CASE r.backlog # None
  <2> DEFINE q == Noted(r, n, d)
             k == Feed(PutBoth(State, s, q, State.link[s]), s, Writing(h, r.id, d))
  <2>1. Becomes(Feed([g EXCEPT !.srv[s].seldb = d], s, msgs))
    BY <1>3, <1>7
  <2>2. [p EXCEPT !.srv[s].seldb = d] = PutBoth(State, s, q, State.link[s])
    BY <1>4 DEF Put, PutBoth, Noted, Wrote, Entry
  <2>a. RoleOK(h, r)
    BY <1>4 DEF RecordOK
  <2>b. r.host = None
    BY <1>3
  <2> HIDE DEF r, n
  <2>3. r.off = h.len[r.id] /\ h.sel[r.id][h.len[r.id]] = r.seldb
    BY <2>a, <2>b DEF RoleOK
  <2>4. msgs = Writing(h, r.id, d)
    BY <2>3, Zenon DEF Writing, Selecting, n
  <2>5. Becomes(k)
    BY <1>5, <2>1, <2>2, <2>4
  <2>6. \E j \in History : j.ids = h.ids /\ j.writes = Append(h.writes, d) /\ GroupOK(j, k)
    BY <1>1, <1>3, <1>7, WriteOK DEF r, n
  <2> HIDE DEF k
  <2>7. Reached(Append(h.writes, d), k)
    BY <1>1, <2>6 DEF Reached
  <2> HIDE DEF r, g, n, msgs, p, q
  <2> QED
    BY <1>2, <1>3, <2>5, <2>7, StepTo
<1> QED
  BY <1>6, <1>7

LEMMA SyncStep ==
    ASSUME ReplicationInv, NEW t \in Server, Sync(t)
    PROVE  HistoriesInv' /\ ids' \in 1..MaxIds
<1>1. PICK h \in History : h.ids = ids /\ h.writes = writes /\ GroupOK(h, State)
  BY InvParts
<1>2. State.srv = srv /\ State.link = link /\ ids \in 1..MaxIds
  BY DEF State, ReplicationInv
<1> DEFINE s == State.srv[t].host
           req == PsyncRequest(State.srv[t])
           g == [State EXCEPT !.srv[t].state = "psync", !.link[t] = [to |-> s, open |-> TRUE, q |-> <<>>]]
           i == AddSlave(g, s, t)
<1>3. /\ State.srv[t].state = "connect" /\ (State.srv[s].host = None \/ State.srv[s].state = "connected")
      /\ writes' = h.writes
      /\ IF CanContinue(State.srv[s], req) THEN Becomes(Continue(g, s, t, req))
         ELSE IF State.srv[s].child = None
         THEN \/ Becomes(i)
              \/ Becomes(IF CanBgsave(i, s) THEN StartBgsave(i, s, "disk") ELSE BgsaveFailed(i, s))
         ELSE IF State.srv[s].child.type = "disk" /\ WaitingEnd(i, s) # {}
         THEN \E x \in WaitingEnd(i, s) : Becomes(AttachTo(i, s, t, x))
         ELSE Becomes(i)
  BY <1>1, <1>2 DEF Sync
<1>4. Typed(State) /\ State.srv[t] \in Record /\ s # t /\ RecordOK(h, State.srv[t])
  BY <1>1, GroupParts DEF GroupOK
<1>5. s \in Server
  <2>1. s \in Server \cup {None}
    BY <1>4 DEF Record
  <2>2. RoleOK(h, State.srv[t])
    BY <1>4 DEF RecordOK
  <2>3. State.srv[t].state = "connect"
    BY <1>3
  <2>4. s # None
    BY <2>2, <2>3 DEF RoleOK
  <2> QED
    BY <2>1, <2>4
<1>a. /\ State.srv[t].state = "connect" /\ (State.srv[s].host = None \/ State.srv[s].state = "connected")
      /\ writes' = h.writes
  BY <1>3
<1> HIDE DEF s
<1>6. g = PutBoth(State, t, Asked(State.srv[t]), Socket(s, <<>>))
  BY <1>4, <1>5, PsyncIs, Zenon
<1> DEFINE k == Added(State, s, t)
<1>7. i = k
  BY <1>6 DEF Added
<1>8. CASE CanContinue(State.srv[s], req)
  <2> DEFINE n == Joined(State, s, t, OnlineClient, Resuming(State.srv[s], State.srv[t].off))
  <2>1. /\ State.srv[s].backlog # None /\ State.srv[t].off + 1 >= BacklogOff(State.srv[s])
        /\ State.srv[t].off + 1 <= BacklogOff(State.srv[s]) + Len(State.srv[s].backlog)
        /\ req.off = State.srv[t].off + 1
    BY <1>1, <1>4, <1>5, <1>8, CanContinueSays
  <2>2. State.srv[t].off \in Nat /\ State.srv[s] \in Record /\ RecordOK(h, State.srv[s])
    BY <1>1, <1>4, <1>5, GroupParts DEF Record
  <2>3. FromBacklog(State.srv[s], State.srv[t].off) \in Seq(Command)
    BY <2>1, <2>2, FromBacklogOK
  <2> HIDE DEF req
  <2>4. Continue(PutBoth(State, t, Asked(State.srv[t]), Socket(s, <<>>)), s, t, req) = n
    BY <1>4, <1>5, <2>1, <2>3, ContinueIs
  <2>5. Becomes(n)
    BY <1>3, <1>6, <1>8, <2>4
  <2>6. GroupOK(h, n)
    BY <1>1, <1>a, <1>4, <1>5, <1>8, ResumeOK DEF req
  <2> HIDE DEF n
  <2>7. Reached(h.writes, n)
    BY <1>1, <2>6, HeldReached
  <2> HIDE DEF g, i, k
  <2> QED
    BY <1>2, <1>3, <2>5, <2>7, StepTo
<1>9. CASE ~CanContinue(State.srv[s], req)
  <2>1. /\ State.srv[s].child = None \/ (State.srv[s].child.type = "disk" /\ WaitingEnd(k, s) # {}) \/ Becomes(k)
        /\ State.srv[s].child = None =>
              \/ Becomes(k) \/ (CanBgsave(k, s) /\ Becomes(StartBgsave(k, s, "disk"))) \/ Becomes(BgsaveFailed(k, s))
        /\ State.srv[s].child # None /\ State.srv[s].child.type = "disk" /\ WaitingEnd(k, s) # {} =>
              \E x \in WaitingEnd(k, s) : Becomes(AttachTo(k, s, t, x))
    <3> HIDE DEF g, i, k, req
    <3> QED
      BY <1>3, <1>7, <1>9
  <2>2. /\ Reached(h.writes, k) /\ k.srv[s].child = State.srv[s].child /\ k.srv[s].slv[t] = StartClient
    BY <1>1, <1>a, <1>4, <1>5, AddSlaveOK
  <2>3. k.srv[s].slv[t].st = "start"
    BY <2>2, NewClients
  <2> HIDE DEF g, i, k, req
  <2>4. CASE Becomes(k)
    BY <1>2, <1>3, <2>2, <2>4, StepTo
  <2>5. CASE State.srv[s].child = None /\ CanBgsave(k, s) /\ Becomes(StartBgsave(k, s, "disk"))
    <3>1. ASSUME NEW j, GroupOK(j, k)
          PROVE  Held(j, StartBgsave(k, s, "disk")) /\ \A x \in Server : StartBgsave(k, s, "disk").srv[x].id = k.srv[x].id
      BY <1>5, <2>2, <2>5, <3>1, StartBgsaveOK
    <3>2. \A x \in Server : StartBgsave(k, s, "disk").srv[x].id = k.srv[x].id
      BY <2>2, <3>1 DEF Reached
    <3>3. \A j : GroupOK(j, k) => GroupOK(j, StartBgsave(k, s, "disk")) \/ Held(j, StartBgsave(k, s, "disk"))
      BY <3>1
    <3>4. Reached(h.writes, StartBgsave(k, s, "disk"))
      BY <2>2, <3>2, <3>3, ReachedOn
    <3> QED
      BY <1>2, <1>3, <2>5, <3>4, StepTo
  <2>6. CASE Becomes(BgsaveFailed(k, s))
    <3>1. ASSUME NEW j, GroupOK(j, k)
          PROVE  GroupOK(j, BgsaveFailed(k, s)) /\ \A x \in Server : BgsaveFailed(k, s).srv[x].id = k.srv[x].id
      BY <1>5, <3>1, BgsaveFailedOK
    <3>2. \A x \in Server : BgsaveFailed(k, s).srv[x].id = k.srv[x].id
      BY <2>2, <3>1 DEF Reached
    <3>3. \A j : GroupOK(j, k) => GroupOK(j, BgsaveFailed(k, s)) \/ Held(j, BgsaveFailed(k, s))
      BY <3>1
    <3>4. Reached(h.writes, BgsaveFailed(k, s))
      BY <2>2, <3>2, <3>3, ReachedOn
    <3> QED
      BY <1>2, <1>3, <2>6, <3>4, StepTo
  <2>7. CASE State.srv[s].child.type = "disk" /\ \E x \in WaitingEnd(k, s) : Becomes(AttachTo(k, s, t, x))
    <3>1. PICK x \in WaitingEnd(k, s) : Becomes(AttachTo(k, s, t, x))
      BY <2>7
    <3>2. x \in Server /\ k.srv[s].slv[x].st = "end" /\ k.srv[s].child.type = "disk"
      BY <2>2, <2>7, <3>1 DEF WaitingEnd
    <3>3. ASSUME NEW j, GroupOK(j, k)
          PROVE  Held(j, AttachTo(k, s, t, x)) /\ \A y \in Server : AttachTo(k, s, t, x).srv[y].id = k.srv[y].id
      BY <1>5, <2>3, <3>2, <3>3, AttachToOK
    <3>4. \A y \in Server : AttachTo(k, s, t, x).srv[y].id = k.srv[y].id
      BY <2>2, <3>3 DEF Reached
    <3>5. \A j : GroupOK(j, k) => GroupOK(j, AttachTo(k, s, t, x)) \/ Held(j, AttachTo(k, s, t, x))
      BY <3>3
    <3>6. Reached(h.writes, AttachTo(k, s, t, x))
      BY <2>2, <3>4, <3>5, ReachedOn
    <3> QED
      BY <1>2, <1>3, <3>1, <3>6, StepTo
  <2> QED
    BY <2>1, <2>4, <2>5, <2>6, <2>7
<1> QED
  BY <1>8, <1>9

-----------------------------------------------------------------------------
(* The theorems                                                            *)

\* The history at the start: nothing was written.
History0 ==
    [ids |-> 1, writes |-> <<>>, len |-> [i \in Nat |-> 0], val |-> [i \in Nat |-> [k \in Nat |-> <<>>]],
     cmd |-> [i \in Nat |-> [k \in Nat |-> [type |-> "select", db |-> 0]]],
     sel |-> [i \in Nat |-> [k \in Nat |-> NoDb]]]

LEMMA History0OK ==
    /\ History0 \in History /\ HistoryOK(History0) /\ History0.ids = 1 /\ History0.writes = <<>>
    /\ \A i, k \in Nat : History0.len[i] = 0 /\ History0.val[i][k] = <<>> /\ History0.sel[i][k] = NoDb
<1>1. /\ History0.ids = 1 /\ History0.writes = <<>>
      /\ \A i, k \in Nat : History0.len[i] = 0 /\ History0.val[i][k] = <<>> /\ History0.sel[i][k] = NoDb
  BY DEF History0
<1>2. History0 \in History
  <2>1. [type |-> "select", db |-> 0] \in Command
    BY DEF Command, Db
  <2>2. <<>> \in Data /\ <<>> \in Seq(Db)
    BY DEF Data
  <2>3. /\ [i \in Nat |-> 0] \in [Nat -> Nat]
        /\ [i \in Nat |-> [k \in Nat |-> <<>>]] \in [Nat -> [Nat -> Data]]
    BY <2>2
  <2>4. [i \in Nat |-> [k \in Nat |-> [type |-> "select", db |-> 0]]] \in [Nat -> [Nat -> Command]]
    BY <2>1
  <2>5. [i \in Nat |-> [k \in Nat |-> NoDb]] \in [Nat -> [Nat -> Db \cup {NoDb}]]
    OBVIOUS
  <2> QED
    BY <2>2, <2>3, <2>4, <2>5 DEF History0, History
<1>3. ASSUME NEW i \in 1..1
      PROVE  /\ \A k \in Nat : k < History0.len[i] => Follows(History0, i, k)
             /\ \A k, m \in Nat : k <= m /\ m <= History0.len[i] => IsPrefix(History0.val[i][k], History0.val[i][m])
             /\ \A k \in Nat : k <= History0.len[i] => Right(History0, History0.val[i][k])
  <2>1. i \in Nat /\ History0.len[i] = 0
    BY <1>1
  <2>2. IsPrefix(<<>>, <<>>)
    BY DEF IsPrefix
  <2>3. Right(History0, <<>>)
    BY DEF Right
  <2> QED
    BY <1>1, <2>1, <2>2, <2>3
<1> QED
  BY <1>1, <1>2, <1>3 DEF HistoryOK

\* A server and its link at the start.
Ready(s, r) ==
    /\ r \in Record /\ r.host = Host0[s] /\ r.id = 1 /\ r.id2 = NoId /\ r.off = 0 /\ r.backlog = <<>> /\ r.seldb = NoDb
    /\ r.db = <<>> /\ r.cached = None /\ r.moff = 0 /\ r.child = None
    /\ r.file.db = <<>> /\ r.file.sel = 0 /\ r.file.id = 1 /\ r.file.off = 0
    /\ Host0[s] = None => r.state = "none" /\ r.mid = NoId
    /\ Host0[s] # None => r.state = "connected" /\ r.mid = 1
    /\ \A t \in Server : /\ Host0[t] = s => r.slv[t].st = "online"
                         /\ Host0[t] # s => r.slv[t].st = "none"

LEMMA SyncedReady ==
    ASSUME NEW s \in Server
    PROVE  Ready(s, Synced(s))
<1>1. Host0[s] \in Server \cup {None}
  BY ReplicationConstants
<1> DEFINE c == [t \in Server |-> IF Host0[t] = s THEN OnlineClient ELSE NoClient]
           file == [db |-> <<>>, sel |-> 0, id |-> 1, off |-> 0]
           f == Fresh(Host0[s], 1)
<1>2. c \in [Server -> Client]
  BY ClientTypes, NewClients
<1>3. file \in File /\ NoFile \in File
  BY DEF File, NoFile, Data, Db, NoDb, NoId
<1>4. f \in Record
  <2>1. [t \in Server |-> NoClient] \in [Server -> Client]
    BY ClientTypes
  <2> QED
    BY <1>1, <1>3, <2>1 DEF Fresh, Record, NoId, NoDb, Db, Data
<1>5. Synced(s) = [f EXCEPT !.backlog = <<>>, !.file = file,
                     !.state = IF Host0[s] = None THEN "none" ELSE "connected",
                     !.mid = IF Host0[s] = None THEN NoId ELSE 1, !.slv = c]
  BY DEF Synced, OnlineClient
<1>6. /\ f.host = Host0[s] /\ f.id = 1 /\ f.id2 = NoId /\ f.off = 0 /\ f.seldb = NoDb /\ f.db = <<>>
      /\ f.cached = None /\ f.moff = 0 /\ f.child = None
  BY DEF Fresh
<1> HIDE DEF f, c, file
<1>7. Synced(s) \in Record
  <2> DEFINE st == IF Host0[s] = None THEN "none" ELSE "connected"
             m == IF Host0[s] = None THEN NoId ELSE 1
             e == <<>>
  <2>1. e \in Seq(Command) /\ m \in Nat /\ st \in {"none", "connect", "psync", "transfer", "connected"}
    BY DEF NoId
  <2>2. Synced(s) = [f EXCEPT !.backlog = e, !.file = file, !.state = st, !.mid = m, !.slv = c]
    BY <1>5
  <2> HIDE DEF st, m, e
  <2> QED
    BY <1>2, <1>3, <1>4, <2>1, <2>2 DEF Record
<1>8. /\ Synced(s).host = Host0[s] /\ Synced(s).id = 1 /\ Synced(s).id2 = NoId /\ Synced(s).off = 0
      /\ Synced(s).backlog = <<>> /\ Synced(s).seldb = NoDb /\ Synced(s).db = <<>> /\ Synced(s).cached = None
      /\ Synced(s).moff = 0 /\ Synced(s).child = None /\ Synced(s).file = file /\ Synced(s).slv = c
      /\ Synced(s).state = IF Host0[s] = None THEN "none" ELSE "connected"
      /\ Synced(s).mid = IF Host0[s] = None THEN NoId ELSE 1
  BY <1>4, <1>5, <1>6 DEF Record
<1>9. file.db = <<>> /\ file.sel = 0 /\ file.id = 1 /\ file.off = 0
  BY DEF file
<1>10. \A t \in Server : /\ Host0[t] = s => c[t].st = "online"
                         /\ Host0[t] # s => c[t].st = "none"
  BY ClientTypes, NewClients DEF c
<1> QED
  BY <1>7, <1>8, <1>9, <1>10 DEF Ready

LEMMA ReadyOK ==
    ASSUME NEW s \in Server, NEW r, Ready(s, r)
    PROVE  RecordOK(History0, r) /\ OwnOK(r) /\ ~Alone(r) /\ r.backlog # None
<1> DEFINE h == History0
<1>1. h.ids = 1 /\ \A i, k \in Nat : h.len[i] = 0 /\ h.val[i][k] = <<>> /\ h.sel[i][k] = NoDb
  BY History0OK
<1>2. /\ r.id = 1 /\ r.id2 = NoId /\ r.off = 0 /\ r.backlog = <<>> /\ r.db = <<>> /\ r.child = None /\ r.seldb = NoDb
      /\ r.cached = None /\ r.host = Host0[s] /\ r.moff = 0
  BY DEF Ready
<1>3. /\ Host0[s] = None => r.state = "none" /\ r.mid = NoId
      /\ Host0[s] # None => r.state = "connected" /\ r.mid = 1
  BY DEF Ready
<1>4. /\ r.file.db = <<>> /\ r.file.sel = 0 /\ r.file.id = 1 /\ r.file.off = 0
  BY DEF Ready
<1>5. r.backlog # None
  <2>1. <<>> \in Seq(Command)
    OBVIOUS
  <2> QED
    BY <1>2, <2>1, ReplicationConstants
<1> HIDE DEF h
<1>6. RoleOK(h, r)
  BY <1>1, <1>2, <1>3, <1>5 DEF RoleOK, SelAt, NoId
<1>7. FilesOK(h, r)
  <2>1. Right(h, <<>>)
    BY DEF Right
  <2>2. FileOK(h, r.file)
    BY <1>1, <1>4, <2>1 DEF FileOK, SelAt
  <2> QED
    BY <1>2, <2>2 DEF FilesOK
<1>8. Stream(h, 1, 0, <<>>)
  BY <1>1, StreamNone
<1>9. SecondOK(h, r)
  BY <1>2 DEF SecondOK
<1>10. RecordOK(h, r)
  <2>1. r.id \in 1..h.ids /\ r.off <= h.len[r.id] /\ r.db = h.val[r.id][r.off]
    BY <1>1, <1>2
  <2>2. Stream(h, r.id, r.off - Len(r.backlog), r.backlog)
    <3>1. Len(r.backlog) = 0 /\ r.off = 0
      BY <1>2
    <3> QED
      BY <1>2, <1>8, <3>1, 0 - 0 = 0
  <2> QED
    BY <1>6, <1>7, <1>9, <2>1, <2>2 DEF RecordOK
<1> QED
  BY <1>5, <1>10 DEF OwnOK, Alone, Private, h

LEMMA Start ==
    ASSUME Init
    PROVE  HistoriesInv
<1> DEFINE h == History0
           g == State
<1>1. g.srv = srv /\ g.link = link /\ g = [srv |-> g.srv, link |-> g.link]
  BY DEF State
<1>2. srv = [s \in Server |-> Synced(s)] /\ writes = <<>> /\ ids = 1
  BY DEF Init
<1>3. link = [t \in Server |-> IF Host0[t] = None THEN NoLink ELSE Socket(Host0[t], <<>>)]
  BY DEF Init, Socket
<1>4. \A s \in Server : Ready(s, g.srv[s])
  BY <1>1, <1>2, SyncedReady
<1>5. \A t \in Server : /\ Host0[t] = None => g.link[t] = NoLink
                        /\ Host0[t] # None => g.link[t] = Socket(Host0[t], <<>>)
  BY <1>1, <1>3
<1>6. \A t \in Server : Host0[t] \in Server \cup {None} /\ Host0[t] # t /\ t # None
  BY ReplicationConstants
<1>7. \A t \in Server : /\ g.link[t] \in Link /\ g.link[t].q = <<>> /\ g.link[t].to = Host0[t]
                        /\ Host0[t] # None => g.link[t].open
  <2> SUFFICES ASSUME NEW t \in Server
               PROVE  /\ g.link[t] \in Link /\ g.link[t].q = <<>> /\ g.link[t].to = Host0[t]
                      /\ Host0[t] # None => g.link[t].open
    OBVIOUS
  <2>1. CASE Host0[t] = None
    BY <1>5, <2>1, ClientTypes
  <2>2. CASE Host0[t] # None
    <3>1. Host0[t] \in Server /\ <<>> \in Seq(Message)
      BY <1>6, <2>2
    <3>2. Socket(Host0[t], <<>>) \in Link /\ Socket(Host0[t], <<>>).q = <<>> /\ Socket(Host0[t], <<>>).to = Host0[t]
          /\ Socket(Host0[t], <<>>).open
      BY <3>1, SocketParts
    <3> QED
      BY <1>5, <2>2, <3>2
  <2> QED
    BY <2>1, <2>2
<1>8. Typed(g)
  <2>1. g.srv \in [Server -> Record]
    BY <1>1, <1>2, <1>4 DEF Ready
  <2>2. g.link \in [Server -> Link]
    BY <1>1, <1>3, <1>7
  <2>3. \A s \in Server : g.srv[s].host # s /\ g.link[s].to # s
    BY <1>4, <1>6, <1>7 DEF Ready
  <2> QED
    BY <1>1, <2>1, <2>2, <2>3 DEF Typed
<1>9. \A s \in Server : RecordOK(h, g.srv[s]) /\ OwnOK(g.srv[s]) /\ ~Alone(g.srv[s]) /\ g.srv[s].backlog # None
  BY <1>4, ReadyOK
<1> HIDE DEF g
<1>10. ASSUME NEW t \in Server
       PROVE  LinkOK(h, g.srv[t], g.link[t])
  <2>1. g.srv[t].id = 1 /\ g.srv[t].off = 0
    BY <1>4 DEF Ready
  <2>2. /\ Host0[t] = None => g.srv[t].state = "none"
        /\ Host0[t] # None => g.srv[t].state = "connected"
    BY <1>4 DEF Ready
  <2>3. Stream(h, 1, 0, <<>>)
    BY History0OK, StreamNone
  <2> QED
    BY <1>5, <1>7, <2>1, <2>2, <2>3 DEF LinkOK
<1>11. ASSUME NEW s \in Server, NEW t \in Server
       PROVE  ClientOK(h, s, g.srv[s], g.srv[s].slv[t], g.srv[t], g.link[t])
  <2>1. CASE Host0[t] # s
    <3>1. g.srv[s].slv[t].st = "none"
      BY <1>4, <2>1 DEF Ready
    <3> QED
      BY <3>1, NoneOK
  <2>2. CASE Host0[t] = s
    <3>1. g.srv[s].slv[t].st = "online" /\ g.srv[s].id = 1 /\ g.srv[s].off = 0
      BY <1>4, <2>2 DEF Ready
    <3>2. Host0[t] # None
      BY <1>6, <2>2
    <3>3. g.srv[t].state = "connected" /\ g.srv[t].id = 1 /\ g.srv[t].off = 0
      BY <1>4, <3>2 DEF Ready
    <3>4. g.link[t].q = <<>> /\ g.link[t].to = s /\ g.link[t].open
      BY <1>7, <2>2, <3>2
    <3>5. Leads(g.srv[t], g.link[t].q, g.srv[s].id, g.srv[s].off)
      BY <3>1, <3>3, <3>4 DEF Leads
    <3> QED
      BY <1>9, <3>1, <3>4, <3>5 DEF ClientOK
  <2> QED
    BY <2>1, <2>2
<1>12. ASSUME NEW s \in Server, NEW t \in Server, s # t
       PROVE  Apart(g.srv[s], g.srv[t], g.link[t])
  <2>1. ~(Host0[s] = None /\ Host0[t] = None)
    <3> DEFINE T == {x \in Server : Host0[x] = None}
    <3>1. IsFiniteSet(T) /\ Cardinality(T) = 1
      BY ReplicationConstants, FS_Subset
    <3>2. PICK y : T = {y}
      BY <3>1, FS_Singleton
    <3> QED
      BY <1>12, <3>2
  <2>2. g.srv[s].host = Host0[s] /\ g.srv[t].host = Host0[t]
    BY <1>4 DEF Ready
  <2> QED
    BY <1>9, <2>1, <2>2 DEF Apart
<1>13. GroupOK(h, g)
  BY <1>8, <1>9, <1>10, <1>11, <1>12, History0OK DEF GroupOK
<1> QED
  BY <1>2, <1>13, History0OK DEF HistoriesInv, g

LEMMA OpsBound ==
    ASSUME ReplicationInv, Next
    PROVE  ops' \in 0..MaxOps
<1>1. MaxOps \in Nat /\ ops \in 0..MaxOps
  BY ReplicationConstants DEF ReplicationInv
<1>2. Operation \/ ops' = ops
  <2>1. \A s \in Server : \A d \in Db : Write(s, d) => ops' = ops
    BY Zenon DEF Write
  <2>2. \A s, t \in Server : SlaveOf(s, t) \/ SlaveOfNoOne(s) \/ SlaveTimeout(s, t) => Operation
    BY Zenon DEF SlaveOf, SlaveOfNoOne, SlaveTimeout
  <2>3. \A s \in Server : FreeBacklog(s) \/ ResizeBacklog(s) \/ Restart(s) \/ Bgsave(s) => Operation
    BY Zenon DEF FreeBacklog, ResizeBacklog, Restart, Bgsave
  <2>4. \A s \in Server : \A type \in {"disk", "socket"} : CronBgsave(s, type) => ops' = ops
    BY Zenon DEF CronBgsave
  <2>5. ASSUME NEW s \in Server, NEW ok \in BOOLEAN, BgsaveDone(s, ok)
        PROVE  Operation \/ ops' = ops
    BY <2>5, SMT DEF BgsaveDone
  <2>6. \A s, t \in Server : Ack(s, t) \/ Sync(t) => ops' = ops
    BY Zenon DEF Ack, Sync
  <2>7. \A t \in Server : ReceiveReply(t) \/ ReceiveRdb(t) \/ ReceiveCommand(t) => ops' = ops
    BY Zenon DEF ReceiveReply, ReceiveRdb, ReceiveCommand
  <2>8. \A t \in Server : Disconnect(t) => Operation \/ ops' = ops
    BY Zenon DEF Disconnect
  <2> QED
    BY <2>1, <2>2, <2>3, <2>4, <2>5, <2>6, <2>7, <2>8, Zenon DEF Next
<1> QED
  BY <1>1, <1>2 DEF Operation

LEMMA StepKeeps ==
    ASSUME ReplicationInv, [Next]_vars
    PROVE  ReplicationInv'
<1>1. CASE UNCHANGED vars
  BY <1>1 DEF vars, ReplicationInv, HistoriesInv, State, GroupOK, Typed
<1>2. CASE Next
  <2>1. ops' \in 0..MaxOps
    BY <1>2, OpsBound
  <2>2. HistoriesInv' /\ ids' \in 1..MaxIds
    <3>1. CASE \E s \in Server, d \in Db : Write(s, d)
      BY <3>1, WriteStep
    <3>2. CASE \E s, t \in Server : \/ SlaveOf(s, t) \/ Ack(s, t) \/ SlaveTimeout(s, t) \/ SlaveOfNoOne(s)
                                    \/ FreeBacklog(s) \/ ResizeBacklog(s) \/ Disconnect(t)
      BY <3>2, SimpleSteps
    <3>3. CASE \E s \in Server, type \in {"disk", "socket"} : CronBgsave(s, type) \/ Bgsave(s)
      BY <3>3, BgsaveSteps
    <3>4. CASE \E s \in Server, ok \in BOOLEAN : BgsaveDone(s, ok)
      BY <3>4, BgsaveDoneStep
    <3>5. CASE \E s \in Server : Restart(s)
      BY <3>5, RestartStep
    <3>6. CASE \E t \in Server : Sync(t)
      BY <3>6, SyncStep
    <3>7. CASE \E t \in Server : ReceiveReply(t)
      BY <3>7, ReceiveReplyStep
    <3>8. CASE \E t \in Server : ReceiveRdb(t)
      BY <3>8, ReceiveRdbStep
    <3>9. CASE \E t \in Server : ReceiveCommand(t)
      BY <3>9, ReceiveCommandStep
    <3> QED
      BY <1>2, <3>1, <3>2, <3>3, <3>4, <3>5, <3>6, <3>7, <3>8, <3>9, Zenon DEF Next
  <2> QED
    BY <2>1, <2>2 DEF ReplicationInv
<1> QED
  BY <1>1, <1>2

\* There are always histories such that everything the servers, their files, the
\* sockets and the output buffers hold is a piece of the history it names.
THEOREM ReplicationInvariant == Spec => []ReplicationInv
<1>1. Init => ReplicationInv
  <2>1. Init => ids = 1 /\ ops = 0
    BY DEF Init
  <2>2. MaxIds \in Nat \ {0} /\ MaxOps \in Nat
    BY ReplicationConstants
  <2>3. Init => ids \in 1..MaxIds /\ ops \in 0..MaxOps
    BY <2>1, <2>2
  <2> QED
    BY <2>3, Start DEF ReplicationInv
<1>2. ReplicationInv /\ [Next]_vars => ReplicationInv'
  BY StepKeeps
<1> QED
  BY <1>1, <1>2, PTL DEF Spec

\* What syncCommand, replicationCron, the BGSAVE of a full resynchronization and
\* the readers of the stream leave in a server, a client or a socket has its type.
THEOREM ReplicationTypes == Spec => []TypeOK
<1>1. ReplicationInv => TypeOK
  <2> SUFFICES ASSUME ReplicationInv
               PROVE  TypeOK
    OBVIOUS
  <2>1. PICK h \in History : h.ids = ids /\ h.writes = writes /\ GroupOK(h, State)
    BY InvParts
  <2>2. State.srv = srv /\ State.link = link /\ ids \in 1..MaxIds /\ ops \in 0..MaxOps
    BY DEF State, ReplicationInv
  <2>3. srv \in [Server -> Record] /\ link \in [Server -> Link] /\ \A s \in Server : srv[s].host # s
    BY <2>1, <2>2, GroupParts
  <2>4. writes \in Seq(Db)
    BY <2>1 DEF History
  <2>5. \A s \in Server : srv[s].state = "none" <=> srv[s].host = None
    BY <2>1, <2>2, GroupParts DEF RecordOK, RoleOK
  <2> QED
    BY <2>2, <2>3, <2>4, <2>5 DEF TypeOK
<1> QED
  BY <1>1, ReplicationInvariant, PTL

\* masterTryPartialResynchronization is safe: a server that has reached an offset
\* of a replication id, or of the second id it kept from before a failover, holds
\* the data of every other server that is not further on the same id.
THEOREM HistoriesNeverFork == Spec => []SameHistorySameData
<1>1. ReplicationInv => SameHistorySameData
  <2> SUFFICES ASSUME ReplicationInv, NEW s \in Server, NEW t \in Server, Shares(srv[s], srv[t].id, srv[t].off)
               PROVE  IsPrefix(srv[t].db, srv[s].db)
    BY DEF SameHistorySameData
  <2>1. PICK h \in History : h.ids = ids /\ h.writes = writes /\ GroupOK(h, State)
    BY InvParts
  <2> DEFINE r == srv[s]
             q == srv[t]
  <2>2. State.srv = srv
    BY DEF State
  <2>3. HistoryOK(h) /\ r \in Record /\ q \in Record /\ RecordOK(h, r) /\ RecordOK(h, q)
    BY <2>1, <2>2, GroupParts
  <2>4. q.id \in 1..h.ids /\ q.id \in Nat /\ q.off \in Nat /\ r.off \in Nat /\ r.db \in Data /\ q.db = h.val[q.id][q.off]
    BY <2>1, <2>3 DEF RecordOK, Record
  <2>5. r.off <= h.len[r.id] /\ r.db = h.val[r.id][r.off]
    BY <2>3 DEF RecordOK
  <2>6. \A k, m \in Nat : k <= m /\ m <= h.len[q.id] => IsPrefix(h.val[q.id][k], h.val[q.id][m])
    BY <2>3, <2>4 DEF HistoryOK
  <2>7. \/ q.id = r.id /\ q.off <= r.off
        \/ q.id = r.id2 /\ q.off < r.off2
    BY DEF Shares
  <2>8. SecondOK(h, r)
    BY <2>3 DEF RecordOK
  <2> HIDE DEF r, q
  <2>9. CASE q.id = r.id /\ q.off <= r.off
    BY <2>4, <2>5, <2>6, <2>9 DEF r, q
  <2>10. CASE q.id = r.id2 /\ q.off < r.off2
    <3>1. r.id2 # NoId
      BY <2>4, <2>10 DEF NoId
    <3>2. r.off2 \in 1..(r.off + 1) /\ r.off2 - 1 <= h.len[r.id2] /\ IsPrefix(h.val[r.id2][r.off2 - 1], r.db)
      BY <2>8, <3>1 DEF SecondOK
    <3>3. r.off2 - 1 \in Nat /\ q.off <= r.off2 - 1
      BY <2>4, <2>10, <3>2
    <3>4. IsPrefix(h.val[q.id][q.off], h.val[q.id][r.off2 - 1])
      BY <2>4, <2>6, <2>10, <3>2, <3>3
    <3>5. h.val[q.id][q.off] \in Data /\ h.val[q.id][r.off2 - 1] \in Data
      BY <2>4, <3>3, HistoryType
    <3>6. IsPrefix(h.val[q.id][q.off], r.db)
      BY <2>4, <2>10, <3>2, <3>4, <3>5, PrefixTrans DEF Data
    <3> QED
      BY <2>4, <3>6 DEF r, q
  <2> QED
    BY <2>7, <2>9, <2>10
<1> QED
  BY <1>1, ReplicationInvariant, PTL

\* The database that a master, a slave, an RDB file and a resynchronization have
\* selected is the one the stream goes on with: no write is applied elsewhere.
THEOREM WritesGoToTheirDb == Spec => []WritesInTheirDb
<1>1. ReplicationInv => WritesInTheirDb
  <2> SUFFICES ASSUME ReplicationInv, NEW s \in Server, NEW i \in DOMAIN srv[s].db
               PROVE  srv[s].db[i].db = writes[srv[s].db[i].w]
    BY DEF WritesInTheirDb
  <2>1. PICK h \in History : h.ids = ids /\ h.writes = writes /\ GroupOK(h, State)
    BY InvParts
  <2>2. HistoryOK(h) /\ srv[s] \in Record /\ RecordOK(h, srv[s])
    BY <2>1, GroupParts DEF State
  <2>3. Right(h, srv[s].db)
    BY <2>1, <2>2, RightData
  <2> QED
    BY <2>1, <2>3 DEF Right
<1> QED
  BY <1>1, ReplicationInvariant, PTL

=============================================================================
