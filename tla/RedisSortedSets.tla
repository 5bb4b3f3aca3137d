---------------------------- MODULE RedisSortedSets ----------------------------
(***************************************************************************)
(* The commands on sorted sets (t_zset.c), the geographical ones built on   *)
(* them (geo.c) and the HyperLogLog commands (hyperloglog.c).               *)
(*                                                                          *)
(* A sorted set is a function of its members to their scores; a member is a *)
(* string of one byte, so that members compare as their bytes do.  Scores   *)
(* are the integers up to MaxScore, beyond which they are infinite, as      *)
(* doubles are; NaN is none of them.                                        *)
(***************************************************************************)
EXTENDS RedisSets

MaxScore == 1
Inf == 9
NaN == 99

\* A sum and a product of doubles.
Rounded(n) == IF n > MaxScore THEN Inf ELSE IF n < -MaxScore THEN -Inf ELSE n
Plus(a, b) == CASE a \notin {Inf, -Inf} /\ b \notin {Inf, -Inf} -> Rounded(a + b)
                [] a \in {Inf, -Inf} -> IF b = -a THEN NaN ELSE a
                [] OTHER -> b
Times(a, b) == IF Inf \in {a, b} \/ -Inf \in {a, b}
               THEN (IF 0 \in {a, b} THEN NaN ELSE IF (a > 0) = (b > 0) THEN Inf ELSE -Inf)
               ELSE Rounded(a * b)

ZsetAt(x, p) == IF Has(x, p) THEN Val(x, p) ELSE << >>
Ranked(z) == SetToSortSeq(DOMAIN z, LAMBDA a, b : z[a] < z[b] \/ (z[a] = z[b] /\ a[1] < b[1]))

\* Add or update one member: an increment that gives NaN is refused.
zsetAdd(z, score, ele, c) ==
    LET has == ele \in DOMAIN z
        new == IF c.incr /\ has THEN Plus(z[ele], score) ELSE score
    IN IF (has /\ c.cond = "nx") \/ (~has /\ c.cond = "xx") \/ new = NaN
       THEN z ELSE HashSet(z, ele, new)

\* ZADD [NX | XX] [INCR] and ZINCRBY: "pairs" lists members with scores.
AddMembers(x, c, p, z, new) ==
    IF WrongType(x, p, "zset") \/ (~Has(x, p) /\ c.cond = "xx") THEN x
    ELSE IF new = z THEN x
    ELSE Modified(Put(x, p, "zset", new), p)
AddTo(x, c, p, z) == AddMembers(x, c, p, z, FoldLeft(LAMBDA w, ms : zsetAdd(w, ms[2], ms[1], c), z, c.pairs))
ZaddOn(x, c, p) == AddTo(x, c, p, ZsetAt(x, p))
zaddGenericCommand(x, c, p) ==
    IF c.incr /\ Len(c.pairs) > 1 THEN x ELSE ZaddOn(lookupKeyWrite(x, p), c, p)

zremCommand(x, c, p) ==
    LET left == DOMAIN Val(x, p) \ ToSet(c.vals)
    IN IF ~Is(x, p, "zset") THEN x
       ELSE IF left = DOMAIN Val(x, p) THEN x
       ELSE Modified(Put(x, p, "zset", [m \in left |-> Val(x, p)[m]]), p)

(* ---- ranges ---- *)

\* A range by score or by the members' order, its ends in or out: ends[1] and
\* ends[2] tell whether min and max are excluded.
ValueIn(z, m, r) == IF r.by = "score" THEN z[m] ELSE m[1]
ValueGteMin(v, r) == IF r.ends[1] THEN v > r.min ELSE v >= r.min
ValueLteMax(v, r) == IF r.ends[2] THEN v < r.max ELSE v <= r.max

\* Whether some part of the sorted set may be in the range.
IsInRange(z, s, r) ==
    /\ ~(r.min > r.max \/ (r.min = r.max /\ (r.ends[1] \/ r.ends[2])))
    /\ s # <<>>
    /\ ValueGteMin(ValueIn(z, Last(s), r), r)
    /\ ValueLteMax(ValueIn(z, Head(s), r), r)

\* Mutant: the first member from min on is not compared with max.
FirstInRangeUnchecked(z, s, r) ==
    IF ~IsInRange(z, s, r) THEN 0
    ELSE Min({j \in DOMAIN s : ValueGteMin(ValueIn(z, s[j], r), r)})

\* The rank of the first and of the last member in range, 0 without one.
FirstInRange(z, s, r) ==
    IF ~IsInRange(z, s, r) THEN 0
    ELSE LET i == Min({j \in DOMAIN s : ValueGteMin(ValueIn(z, s[j], r), r)})
         IN IF ~ValueLteMax(ValueIn(z, s[i], r), r) THEN 0 ELSE i
LastInRange(z, s, r) ==
    IF ~IsInRange(z, s, r) THEN 0
    ELSE LET i == Max({j \in DOMAIN s : ValueLteMax(ValueIn(z, s[j], r), r)})
         IN IF ~ValueGteMin(ValueIn(z, s[i], r), r) THEN 0 ELSE i

\* The 0-based ranks that ZRANGE and ZREMRANGEBYRANK make of their arguments.
Ranks(len, start0, end0) ==
    LET from == IF start0 < 0 THEN len + start0 ELSE start0
        start == IF from < 0 THEN 0 ELSE from
        end == IF end0 < 0 THEN len + end0 ELSE end0
    IN IF start > end \/ start >= len THEN {} ELSE start..(IF end >= len THEN len - 1 ELSE end)

\* The members that ZREMRANGEBYRANK, -BYSCORE and -BYLEX remove: from the
\* first in range on, until one is beyond it.
BeyondRange(z, s, r, first) == {i \in DOMAIN s : i > first /\ ~ValueLteMax(ValueIn(z, s[i], r), r)}
DeletedFrom(z, s, r, first) ==
    IF first = 0 THEN {} ELSE {s[i] : i \in first..(Min(BeyondRange(z, s, r, first) \cup {Len(s) + 1}) - 1)}
InDeleteRange(z, s, r) ==
    IF r.by = "rank" THEN {s[i + 1] : i \in Ranks(Len(s), r.min, r.max)}
    ELSE DeletedFrom(z, s, r, FirstInRange(z, s, r))

RemoveMembers(x, p, z, gone) ==
    IF gone = {} THEN x ELSE Modified(Put(x, p, "zset", [m \in DOMAIN z \ gone |-> z[m]]), p)
zremrangeGenericCommand(x, c, p) ==
    IF ~Is(x, p, "zset") THEN x
    ELSE RemoveMembers(x, p, Val(x, p), InDeleteRange(Val(x, p), Ranked(Val(x, p)), c.range))

\* ZRANGE and ZREVRANGE.
RankedSlice(s, ranks, reverse) ==
    IF ranks = {} THEN <<>>
    ELSE [i \in 1..Cardinality(ranks) |-> LET n == Min(ranks) + i - 1 IN IF reverse THEN s[Len(s) - n] ELSE s[n + 1]]
ZrangeOf(s, c) == RankedSlice(s, Ranks(Len(s), c.start, c.end), c.reverse)
zrangeGenericCommand(x, c, p) ==
    IF WrongType(x, p, "zset") THEN x ELSE Reply(x, ZrangeOf(Ranked(ZsetAt(x, p)), c))

\* ZRANGEBYSCORE, ZRANGEBYLEX and their REV forms with LIMIT offset count:
\* walk from the first (last) member in range, skip offset members without
\* looking at them, and stop at the first one out of range.
WalkFrom(s, first, reverse) ==
    IF first = 0 THEN <<>> ELSE IF reverse THEN Reverse(SubSeq(s, 1, first)) ELSE SubSeq(s, first, Len(s))
SkipOffset(walk, offset) ==
    IF offset < 0 \/ offset >= Len(walk) THEN <<>> ELSE SubSeq(walk, offset + 1, Len(walk))
TakeInRange(z, rest, c) ==
    LET v(i) == ValueIn(z, rest[i], c.range)
        out == {i \in DOMAIN rest : IF c.reverse THEN ~ValueGteMin(v(i), c.range) ELSE ~ValueLteMax(v(i), c.range)}
        stop == Min(out \cup {Len(rest) + 1}) - 1
    IN SubSeq(rest, 1, IF c.count < 0 \/ c.count > stop THEN stop ELSE c.count)
ZrangebyOf(z, s, c) ==
    TakeInRange(z, SkipOffset(WalkFrom(s, IF c.reverse THEN LastInRange(z, s, c.range)
                                          ELSE FirstInRange(z, s, c.range), c.reverse), c.offset), c)
genericZrangebyCommand(x, c, p) ==
    IF WrongType(x, p, "zset") THEN x
    ELSE Reply(x, ZrangebyOf(ZsetAt(x, p), Ranked(ZsetAt(x, p)), c))

\* ZCOUNT and ZLEXCOUNT: the ranks of the first and the last in range.
CountBetween(first, last, len) ==
    IF first = 0 THEN 0
    ELSE IF last = 0 THEN len - (first - 1)
    ELSE len - (first - 1) - (len - last)
ZcountOf(z, s, r) == CountBetween(FirstInRange(z, s, r), LastInRange(z, s, r), Len(s))
zcountCommand(x, c, p) ==
    IF WrongType(x, p, "zset") THEN x
    ELSE Reply(x, ZcountOf(ZsetAt(x, p), Ranked(ZsetAt(x, p)), c.range))

\* ZRANK and ZREVRANK.
RankIn(s, c) ==
    LET rank == CHOOSE i \in DOMAIN s : s[i] = c.val IN IF c.reverse THEN Len(s) - rank ELSE rank - 1
zrankGenericCommand(x, c, p) ==
    IF WrongType(x, p, "zset") THEN x
    ELSE IF c.val \notin DOMAIN ZsetAt(x, p) THEN x
    ELSE Reply(x, RankIn(Ranked(ZsetAt(x, p)), c))

(* ---- unions and intersections ---- *)

zunionInterAggregate(target, val, aggregate) ==
    CASE aggregate = "sum" -> LET s == IF NaN \in {target, val} THEN NaN ELSE Plus(target, val)
                              IN IF s = NaN THEN 0 ELSE s
      [] aggregate = "min" -> IF val # NaN /\ val < target THEN val ELSE target
      [] aggregate = "max" -> IF val # NaN /\ val > target THEN val ELSE target

\* ZUNIONSTORE and ZINTERSTORE [WEIGHTS] [AGGREGATE]; a set counts as a sorted
\* set of scores 1.  The inputs are taken from the smallest to the largest.
\* The sources as sorted sets, and the score of a member in those that have it.
Source(x, p) == IF Is(x, p, "set") THEN [m \in Val(x, p) |-> 1] ELSE ZsetAt(x, p)
BySize(sources) ==
    SetToSortSeq(DOMAIN sources, LAMBDA i, j : LET a == Cardinality(DOMAIN sources[i])
                                                   b == Cardinality(DOMAIN sources[j])
                                               IN a < b \/ (a = b /\ i < j))
Aggregated(c, first, scores) ==
    FoldLeft(LAMBDA t, s : zunionInterAggregate(t, IF c.zop = "union" /\ s = NaN THEN 0 ELSE s, c.aggregate),
             IF first = NaN THEN 0 ELSE first, scores)
ScoreOf(c, scores) == Aggregated(c, Head(scores), Tail(scores))
WeightedScores(c, sources, having, m) ==
    [n \in DOMAIN having |-> Times(c.weights[having[n]], sources[having[n]][m])]
UnionInter(c, sources, order) ==
    LET having(m) == SelectSeq(order, LAMBDA i : m \in DOMAIN sources[i]) IN
    [m \in {m \in UNION {DOMAIN sources[i] : i \in DOMAIN sources} :
              c.zop = "union" \/ Len(having(m)) = Len(order)} |->
       ScoreOf(c, WeightedScores(c, sources, having(m), m))]
StoreZset(x, dst, z) ==
    IF DOMAIN z # {} THEN Modified(dbAdd(dbDelete(x, dst), dst, "zset", z), dst)
    ELSE IF Has(x, dst) THEN Modified(dbDelete(x, dst), dst) ELSE x
StoreUnionInter(x, c, sources) == StoreZset(x, At(x, c.dst), UnionInter(c, sources, BySize(sources)))
UnionInterOn(r, c) ==
    IF ~r.ok THEN r.x
    ELSE StoreUnionInter(r.x, c, [i \in DOMAIN c.keys |-> Source(r.x, At(r.x, c.keys[i]))])
zunionInterGenericCommand(x, c) == UnionInterOn(lookupTyped(x, PlacesOf(x, c.keys), {"set", "zset"}), c)

(* ---- positions ---- *)

\* GEOADD: the score is the hash of the position; the command becomes a ZADD.
geoaddCommand(x, c, p) ==
    LET zadd == [op |-> "ZADD", db |-> c.db, key |-> c.key, pairs |-> c.pairs, cond |-> "", incr |-> FALSE]
    IN zaddGenericCommand([x EXCEPT !.argv = zadd], zadd, p)

\* GEORADIUS ... STORE | STOREDIST dst COUNT count, sorted by the distance to
\* the centre: nothing is stored or deleted when the source does not exist.
Distance(score, c) == IF score < c.centre THEN c.centre - score ELSE score - c.centre
ByDistance(z, c) ==
    SetToSortSeq({m \in DOMAIN z : Distance(z[m], c) <= c.radius},
                 LAMBDA a, b : LET i == Distance(z[a], c)  j == Distance(z[b], c)
                               IN i < j \/ (i = j /\ a[1] < b[1]))
Nearest(near, count) == SubSeq(near, 1, IF count = 0 \/ Len(near) < count THEN Len(near) ELSE count)
GeoReply(x, c, z, out) ==
    IF c.dst = None THEN Reply(x, out)
    ELSE LET dst == At(x, c.dst) IN
         IF out # <<>>
         THEN Dirty(setKey(x, dst, "zset", [m \in ToSet(out) |-> IF c.storedist THEN Distance(z[m], c) ELSE z[m]]))
         ELSE IF Has(x, dst) THEN Modified(dbDelete(x, dst), dst) ELSE x
georadiusGeneric(x, c, p) ==
    IF ~Is(x, p, "zset") THEN x
    ELSE GeoReply(x, c, Val(x, p), Nearest(ByDistance(Val(x, p), c), c.count))

(* ---- HyperLogLogs ---- *)

\* The registers are abstracted to the set of the elements counted; "card" is
\* the cardinality cached in the header, None when it was invalidated.
HllAt(x, p) == IF Has(x, p) THEN Val(x, p) ELSE [regs |-> {}, card |-> None]
PutHll(x, p, h) == IF Has(x, p) THEN dbOverwrite(x, p, "hll", h) ELSE dbAdd(x, p, "hll", h)

pfaddCommand(x, c, p) ==
    LET regs == HllAt(x, p).regs \cup ToSet(c.vals)
    IN IF WrongType(x, p, "hll") THEN x
       ELSE IF Has(x, p) /\ regs = Val(x, p).regs THEN x
       ELSE Modified(PutHll(x, p, [regs |-> regs, card |-> None]), p)

\* PFCOUNT of one key writes the cardinality it computes into the header.
CountOne(x, p, h) ==
    IF ~Has(x, p) THEN Reply(x, 0)
    ELSE IF h.card # None THEN Reply(x, h.card)
    ELSE LET card == Cardinality(h.regs) IN Reply(Modified(PutHll(x, p, [h EXCEPT !.card = card]), p), card)
Registers(x, keys) == UNION {HllAt(x, At(x, k)).regs : k \in keys}
CountOn(r, c) ==
    IF ~r.ok THEN r.x
    ELSE IF Len(c.keys) > 1 THEN Reply(r.x, Cardinality(Registers(r.x, ToSet(c.keys))))
    ELSE CountOne(r.x, At(r.x, c.keys[1]), HllAt(r.x, At(r.x, c.keys[1])))
pfcountCommand(x, c) == CountOn(lookupTyped(x, PlacesOf(x, c.keys), {"hll"}), c)

MergeOn(r, c, dst) ==
    IF ~r.ok THEN r.x
    ELSE Modified(PutHll(r.x, dst, [regs |-> Registers(r.x, ToSet(c.keys) \cup {c.key}), card |-> None]), dst)
pfmergeCommand(x, c) ==
    MergeOn(lookupTyped(x, PlacesOf(x, <<c.key>> \o c.keys), {"hll"}), c, At(x, c.key))
=============================================================================
