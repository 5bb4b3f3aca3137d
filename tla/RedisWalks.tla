------------------------------ MODULE RedisWalks ------------------------------
(***************************************************************************)
(* Commands that walk whole collections: SCAN, SSCAN, HSCAN and KEYS (db.c),*)
(* and ZUNIONSTORE and ZINTERSTORE (t_zset.c).                              *)
(*                                                                          *)
(* A scan goes over the elements of a set or hash, or the keys of a         *)
(* database, by a cursor the client keeps.  Small encodings are returned at *)
(* once; a hash table bucket by bucket, until COUNT elements were found.    *)
(* What does not match the pattern, or is a key whose time is over, is      *)
(* filtered out of the reply.  A database is [d, over]: its hash table and  *)
(* the keys whose time is over but that nobody has deleted yet.  A pattern  *)
(* is the set of what matches.                                              *)
(***************************************************************************)
EXTENDS RedisCollections

CONSTANTS MaxLevel, ZsetMaxEntries

Z == INSTANCE RedisSkiplist

(* ---- SCAN and KEYS ---- *)

\* dictScan until "count" replies were collected ("width" for an element), or
\* the steps are used up.
RECURSIVE ScanSome(_, _, _, _, _, _), ScanOn(_, _, _, _, _, _)
ScanSome(d, cursor, width, count, maxiterations, found) ==
    ScanOn(d, dictScan(d, cursor), width, count, maxiterations, found)
ScanOn(d, s, width, count, maxiterations, found) ==
    LET all == found \cup s.keys IN
    IF s.v # 0 /\ maxiterations > 0 /\ width * Cardinality(all) < count
    THEN ScanSome(d, s.v, width, count, maxiterations - 1, all)
    ELSE [v |-> s.v, keys |-> all]
ScanTable(d, cursor, width, count) == ScanSome(d, cursor, width, width * count, width * count * 10, {})

\* scanCallback, and the loops over the small encodings: the next cursor and
\* the list of replies, fields and values one after the other.
Listed(s) == [v |-> s.v, list |-> SetToSeq(s.keys)]
WithValues(s, o) == [s EXCEPT !.list = FlattenSeq([i \in DOMAIN @ |-> <<@[i], o.v[@[i]]>>])]
Collected(type, o, cursor, count) ==
    CASE type = "db" \/ (type = "set" /\ o.enc = "ht") -> Listed(ScanTable(o.d, cursor, 1, count))
      [] type = "hash" /\ o.enc = "ht" -> WithValues(Listed(ScanTable(o.d, cursor, 2, count)), o)
      [] type = "set" /\ o.enc = "intset" -> [v |-> 0, list |-> o.is.is]
      [] type = "hash" /\ o.enc = "ziplist" -> [v |-> 0, list |-> Values(o.zl)]

\* expireIfNeeded: a key whose time is over is deleted.
expireIfNeeded(db, k) == IF k \notin db.over THEN db
                         ELSE [d |-> dictGenericDelete(db.d, k), over |-> db.over \ {k}]

\* Take replies off the list; a value goes with its field.
FilterRest(rest, kept) == [rest EXCEPT !.list = kept \o @]
RECURSIVE Filter(_, _, _, _)
Filter(type, o, list, pattern) ==
    IF list = <<>> THEN [o |-> o, list |-> <<>>]
    ELSE LET k == Head(list)
             width == IF type = "hash" THEN 2 ELSE 1
             over == type = "db" /\ k \in pattern /\ k \in o.over
         IN FilterRest(Filter(type, IF over THEN expireIfNeeded(o, k) ELSE o, SubSeq(list, width + 1, Len(list)), pattern),
                       IF k \notin pattern \/ over THEN <<>> ELSE SubSeq(list, 1, width))

Filtered(f, v) == [o |-> f.o, v |-> v, list |-> f.list]
FilterReplies(type, o, c, pattern) == Filtered(Filter(type, o, c.list, pattern), c.v)
scanGenericCommand(type, o, cursor, count, pattern) == FilterReplies(type, o, Collected(type, o, cursor, count), pattern)

\* KEYS: a safe iterator, under which keys are deleted.
RECURSIVE KeysFrom(_, _, _, _)
KeysAt(db, it, pattern, list) ==
    IF it.entry = -1 THEN [o |-> db, list |-> list]
    ELSE IF it.entry \in pattern /\ it.entry \in db.over THEN KeysFrom(expireIfNeeded(db, it.entry), it, pattern, list)
    ELSE KeysFrom(db, it, pattern, IF it.entry \in pattern THEN Append(list, it.entry) ELSE list)
KeysFrom(db, it, pattern, list) == KeysAt(db, dictNext(db.d, it), pattern, list)
keysCommand(db, pattern) == [KeysFrom([db EXCEPT !.d.its = 1], NewIterator, pattern, <<>>) EXCEPT !.o.d.its = 0]

(* ---- unions and intersections ---- *)

\* Over sets and sorted sets in any of their encodings.  A source is
\* [type, obj, weight]; its type is "none" when there is no such key.

zuiLength(src) ==
    CASE src.type = "none" -> 0
      [] src.type = "set" -> setTypeSize(src.obj)
      [] src.type = "zset" -> Z!zsetLength(src.obj)

\* The elements of a source with their scores, in the order of the iterator.
RECURSIVE Walk(_, _)
WalkOn(d, it) == IF it.entry = -1 THEN <<>> ELSE <<it.entry>> \o Walk(d, it)
Walk(d, it) == WalkOn(d, dictNext(d, it))
Scored(es) == [i \in DOMAIN es |-> <<es[i], 1>>]
zuiElements(src) ==
    CASE src.type = "none" -> <<>>
      [] src.type = "set" -> Scored(IF src.obj.enc = "intset" THEN src.obj.is.is ELSE Walk(src.obj.d, NewIterator))
      [] src.type = "zset" -> IF src.obj.enc = "ziplist" THEN src.obj.zl
                              ELSE Z!LevelOne(src.obj.zsl, src.obj.zsl.n[0].lv[1].fwd)

\* The score of an element in a source, -1 if it is not there.
zuiFind(src, ele) ==
    CASE src.type = "none" -> -1
      [] src.type = "set" -> IF setTypeIsMember(src.obj, ele) THEN 1 ELSE -1
      [] src.type = "zset" -> Z!zsetScore(src.obj, ele)

zunionInterAggregate(target, val, aggregate) ==
    CASE aggregate = "sum" -> target + val
      [] aggregate = "min" -> IF val < target THEN val ELSE target
      [] aggregate = "max" -> IF val > target THEN val ELSE target

\* Sources from the smallest to the largest.
BySize(srcs) == SortSeq(srcs, LAMBDA a, b : zuiLength(a) < zuiLength(b))

\* The elements of the smallest source that are in every other one; the source
\* itself, given twice, is not searched while it is walked.
Joined(score, other, src, aggregate) ==
    IF other = -1 THEN -1 ELSE zunionInterAggregate(score, other * src.weight, aggregate)
ScoreIn(src, first, p) == IF src.obj = first.obj THEN p[2] ELSE zuiFind(src, p[1])
KeepScored(kept, ele, score) == IF score = -1 THEN kept ELSE Append(kept, <<ele, score>>)
InterOver(srcs, p, aggregate) ==
    FoldLeft(LAMBDA score, src : IF score = -1 THEN -1 ELSE Joined(score, ScoreIn(src, srcs[1], p), src, aggregate),
             srcs[1].weight * p[2], Tail(srcs))
InterOf(srcs, pairs, aggregate) ==
    FoldLeft(LAMBDA kept, p : KeepScored(kept, p[1], InterOver(srcs, p, aggregate)), <<>>, pairs)

\* One source after the other into an accumulator.
Accumulated(acc, ele, score, aggregate) ==
    (ele :> IF ele \in DOMAIN acc THEN zunionInterAggregate(acc[ele], score, aggregate) ELSE score) @@ acc
Accumulate(acc, pairs, weight, aggregate) ==
    FoldLeft(LAMBDA a, p : Accumulated(a, p[1], weight * p[2], aggregate), acc, pairs)
Pairs(acc) == LET eles == SetToSeq(DOMAIN acc) IN [i \in DOMAIN eles |-> <<eles[i], acc[eles[i]]>>]
UnionOf(srcs, pairs, aggregate) ==
    Pairs(FoldLeftDomain(LAMBDA acc, i : Accumulate(acc, pairs[i], srcs[i].weight, aggregate), <<>>, srcs))

\* The new value, a skiplist (of random heights) that is made small again when
\* it can be.
Stored(pairs) ==
    IF pairs = <<>> THEN Z!zsetCreate
    ELSE Z!zsetConvertToZiplistIfNeeded(
           FoldLeft(LAMBDA z, p : [z EXCEPT !.zsl = Z!zslInsert(@, p[2], p[1], (p[1] % MaxLevel) + 1), !.d = (p[1] :> p[2]) @@ @],
                    [Z!zsetCreate EXCEPT !.enc = "skiplist"], pairs))
Joining(op, srcs, pairs, aggregate) ==
    Stored(IF op = "union" THEN UnionOf(srcs, pairs, aggregate) ELSE InterOf(srcs, pairs[1], aggregate))
JoinSources(op, srcs, aggregate) == Joining(op, srcs, [i \in DOMAIN srcs |-> zuiElements(srcs[i])], aggregate)
zunionInterGenericCommand(op, srcs, aggregate) == JoinSources(op, BySize(srcs), aggregate)
=============================================================================
