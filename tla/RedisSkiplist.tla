---------------------------- MODULE RedisSkiplist ----------------------------
(***************************************************************************)
(* The sorted set (t_zset.c): a list ordered by score and then by element   *)
(* while it is small, a skiplist and a hash table afterwards.  A node of    *)
(* the skiplist is linked at one or more levels; every link has a span, the *)
(* number of elements it passes over, from which ranks are computed.        *)
(*                                                                          *)
(* A skiplist is [n, tail, level, length]; n maps the elements, and 0 for   *)
(* the header, to nodes [score, lv, back]: lv[i] is the link [fwd, span] of *)
(* level i.  Elements are positive numbers and 0 is also NULL.              *)
(* A sorted set is [enc, zl, zsl, d]: the encoding, the small list of       *)
(* <<element, score>>, the skiplist, and the scores that the hash table     *)
(* gives the elements.                                                      *)
(***************************************************************************)
EXTENDS Integers, SequencesExt, FiniteSetsExt, TLC

CONSTANTS
    MaxLevel,       \* ZSKIPLIST_MAXLEVEL
    ZsetMaxEntries  \* zset-max-ziplist-entries

zslCreate == [n |-> (0 :> [score |-> 0, lv |-> [i \in 1..MaxLevel |-> [fwd |-> 0, span |-> 0]],
                           back |-> 0]),
              tail |-> 0, level |-> 1, length |-> 0]

Precedes(zsl, x, score, ele) == zsl.n[x].score < score \/ (zsl.n[x].score = score /\ x < ele)

\* Go down from the highest level, along each level while Go allows the next
\* node (given the rank it has): the last node and its rank at every level.
Descend(zsl, Go(_, _)) ==
    LET RECURSIVE Down(_, _, _, _)
        Down(x, i, rank, path) ==
            LET link == zsl.n[x].lv[i] IN
            IF link.fwd # 0 /\ Go(link.fwd, rank + link.span)
            THEN Down(link.fwd, i, rank + link.span, path)
            ELSE LET now == <<[x |-> x, rank |-> rank]>> \o path IN
                 IF i = 1 THEN now ELSE Down(x, i - 1, rank, now)
    IN Down(0, zsl.level, 0, <<>>)

\* A new node of the given height.
InsertAfter(zsl, score, ele, height, path) ==
    LET top == Max({height, zsl.level})
        update(i) == IF i <= zsl.level THEN path[i].x ELSE 0
        behind(i) == path[1].rank - (IF i <= zsl.level THEN path[i].rank ELSE 0)
        next(i) == zsl.n[update(i)].lv[i].fwd
        Link(i) == [fwd |-> next(i), span |-> (IF i <= zsl.level THEN zsl.n[update(i)].lv[i].span ELSE zsl.length) - behind(i)]
        Relinked(x) == [zsl.n[x] EXCEPT !.lv = [i \in DOMAIN @ |->
                          IF i > top \/ update(i) # x THEN @[i]
                          ELSE IF i <= height THEN [fwd |-> ele, span |-> behind(i) + 1]
                          ELSE [@[i] EXCEPT !.span = @ + 1]],
                        !.back = IF x # 0 /\ x = next(1) THEN ele ELSE @]
    IN [n |-> (ele :> [score |-> score, back |-> update(1), lv |-> [i \in 1..height |-> Link(i)]])
              @@ [x \in DOMAIN zsl.n |-> Relinked(x)],
        tail |-> IF next(1) = 0 THEN ele ELSE zsl.tail,
        level |-> top, length |-> zsl.length + 1]
zslInsert(zsl, score, ele, height) ==
    InsertAfter(zsl, score, ele, height, Descend(zsl, LAMBDA x, r : Precedes(zsl, x, score, ele)))

\* Unlink node x, given the last node before it at every level.
zslDeleteNode(zsl, x, update) ==
    LET node == zsl.n[x]
        Relinked(y) == [zsl.n[y] EXCEPT !.lv = [i \in DOMAIN @ |->
                          IF i > zsl.level \/ update[i] # y THEN @[i]
                          ELSE IF @[i].fwd = x THEN [fwd |-> node.lv[i].fwd, span |-> @[i].span + node.lv[i].span - 1]
                          ELSE [@[i] EXCEPT !.span = @ - 1]],
                        !.back = IF y # 0 /\ y = node.lv[1].fwd THEN node.back ELSE @]
        n == [y \in DOMAIN zsl.n \ {x} |-> Relinked(y)]
    IN [n |-> n, tail |-> IF node.lv[1].fwd = 0 THEN node.back ELSE zsl.tail,
        level |-> Max({1} \cup {i \in 1..zsl.level : n[0].lv[i].fwd # 0}),
        length |-> zsl.length - 1]

Nodes(path) == [i \in DOMAIN path |-> path[i].x]

DeleteAt(zsl, score, ele, x, update) ==
    IF x # 0 /\ zsl.n[x].score = score /\ x = ele THEN zslDeleteNode(zsl, x, update) ELSE zsl
DeleteAfter(zsl, score, ele, update) == DeleteAt(zsl, score, ele, zsl.n[update[1]].lv[1].fwd, update)
zslDelete(zsl, score, ele) ==
    DeleteAfter(zsl, score, ele, Nodes(Descend(zsl, LAMBDA x, r : Precedes(zsl, x, score, ele))))

\* Delete from the node after "update" on, while Within holds of a node.
DeleteWhile(zsl, update, Within(_, _)) ==
    LET RECURSIVE Go(_, _, _)
        Go(z, x, count) == IF x # 0 /\ Within(x, count)
                           THEN Go(zslDeleteNode(z, x, update), z.n[x].lv[1].fwd, count + 1)
                           ELSE z
    IN Go(zsl, zsl.n[update[1]].lv[1].fwd, 0)

zslValueGteMin(v, r) == IF r.minex THEN v > r.min ELSE v >= r.min
zslValueLteMax(v, r) == IF r.maxex THEN v < r.max ELSE v <= r.max
EmptyRange(r) == r.min > r.max \/ (r.min = r.max /\ (r.minex \/ r.maxex))

zslIsInRange(zsl, r) ==
    LET first == zsl.n[0].lv[1].fwd IN
    /\ ~EmptyRange(r)
    /\ zsl.tail # 0 /\ zslValueGteMin(zsl.n[zsl.tail].score, r)
    /\ first # 0 /\ zslValueLteMax(zsl.n[first].score, r)
zslFirstInRange(zsl, r) ==
    LET last == Descend(zsl, LAMBDA x, k : ~zslValueGteMin(zsl.n[x].score, r))[1].x
        x == zsl.n[last].lv[1].fwd
    IN IF ~zslIsInRange(zsl, r) THEN 0
       ELSE IF zslValueLteMax(zsl.n[x].score, r) THEN x ELSE 0
zslLastInRange(zsl, r) ==
    LET x == Descend(zsl, LAMBDA y, k : zslValueLteMax(zsl.n[y].score, r))[1].x IN
    IF ~zslIsInRange(zsl, r) THEN 0
    ELSE IF zslValueGteMin(zsl.n[x].score, r) THEN x ELSE 0

\* Ranges of elements of one score: "(" and "[" with an element, "-" and "+".
FirstString == 0
LastString == 1000
zslParseLexRangeItem(item) ==
    CASE item[1] = "+" -> [v |-> LastString, ex |-> FALSE]
      [] item[1] = "-" -> [v |-> FirstString, ex |-> FALSE]
      [] item[1] \in {"(", "["} -> [v |-> item[2], ex |-> item[1] = "("]
zslParseLexRange(min, max) ==
    LET lo == zslParseLexRangeItem(min)
        hi == zslParseLexRangeItem(max)
    IN [min |-> lo.v, max |-> hi.v, minex |-> lo.ex, maxex |-> hi.ex]
sdscmplex(a, b) == IF a = b THEN 0 ELSE IF a = FirstString \/ b = LastString THEN -1
                   ELSE IF a = LastString \/ b = FirstString THEN 1 ELSE a - b
Above(cmp, ex) == IF ex THEN cmp > 0 ELSE cmp >= 0
zslLexValueGteMin(v, r) == Above(sdscmplex(v, r.min), r.minex)
zslLexValueLteMax(v, r) == Above(-sdscmplex(v, r.max), r.maxex)
EmptyLexRange(r) == sdscmplex(r.min, r.max) > 1 \/ (r.min = r.max /\ (r.minex \/ r.maxex))
zslIsInLexRange(zsl, r) ==
    LET first == zsl.n[0].lv[1].fwd IN
    /\ ~EmptyLexRange(r)
    /\ zsl.tail # 0 /\ zslLexValueGteMin(zsl.tail, r)
    /\ first # 0 /\ zslLexValueLteMax(first, r)
zslFirstInLexRange(zsl, r) ==
    LET x == zsl.n[Descend(zsl, LAMBDA y, k : ~zslLexValueGteMin(y, r))[1].x].lv[1].fwd IN
    IF zslIsInLexRange(zsl, r) /\ zslLexValueLteMax(x, r) THEN x ELSE 0
zslLastInLexRange(zsl, r) ==
    LET x == Descend(zsl, LAMBDA y, k : zslLexValueLteMax(y, r))[1].x IN
    IF zslIsInLexRange(zsl, r) /\ zslLexValueGteMin(x, r) THEN x ELSE 0

zslDeleteRangeByLex(zsl, r) ==
    DeleteWhile(zsl, Nodes(Descend(zsl, LAMBDA x, k : ~zslLexValueGteMin(x, r))),
                LAMBDA x, count : zslLexValueLteMax(x, r))
zslDeleteRangeByScore(zsl, r) ==
    DeleteWhile(zsl, Nodes(Descend(zsl, LAMBDA x, k : ~zslValueGteMin(zsl.n[x].score, r))),
                LAMBDA x, count : zslValueLteMax(zsl.n[x].score, r))
\* Ranks are counted from 1.
zslDeleteRangeByRank(zsl, start, end) ==
    LET path == Descend(zsl, LAMBDA x, rank : rank < start) IN
    DeleteWhile(zsl, Nodes(path), LAMBDA x, count : path[1].rank + 1 + count <= end)

\* The rank of an element from 1, 0 if it is not there.
RankOn(path, ele) ==
    LET at == {i \in DOMAIN path : path[i].x = ele} IN IF at = {} THEN 0 ELSE path[Max(at)].rank
zslGetRank(zsl, score, ele) ==
    RankOn(Descend(zsl, LAMBDA x, r : Precedes(zsl, x, score, ele) \/ (zsl.n[x].score = score /\ x = ele)), ele)
zslGetElementByRank(zsl, rank) ==
    LET path == Descend(zsl, LAMBDA x, r : r <= rank)
        at == {i \in DOMAIN path : path[i].rank = rank}
    IN IF at = {} THEN 0 ELSE path[Max(at)].x

\* The small list.
zzlFind(zl, ele) == SelectInSeq(zl, LAMBDA p : p[1] = ele)
zzlInsert(zl, ele, score) ==
    LET at == SelectInSeq(zl, LAMBDA p : p[2] > score \/ (p[2] = score /\ p[1] > ele)) IN
    IF at = 0 THEN Append(zl, <<ele, score>>) ELSE InsertAt(zl, at, <<ele, score>>)
zzlIsInRange(zl, r) == /\ ~EmptyRange(r) /\ zl # <<>>
                       /\ zslValueGteMin(Last(zl)[2], r) /\ zslValueLteMax(Head(zl)[2], r)
zzlFirstInRange(zl, r) ==
    LET i == SelectInSeq(zl, LAMBDA p : zslValueGteMin(p[2], r)) IN
    IF ~zzlIsInRange(zl, r) \/ i = 0 THEN 0
    ELSE IF zslValueLteMax(zl[i][2], r) THEN i ELSE 0
zzlLastInRange(zl, r) ==
    LET i == SelectLastInSeq(zl, LAMBDA p : zslValueLteMax(p[2], r)) IN
    IF ~zzlIsInRange(zl, r) \/ i = 0 THEN 0
    ELSE IF zslValueGteMin(zl[i][2], r) THEN i ELSE 0
zzlIsInLexRange(zl, r) == /\ ~EmptyLexRange(r) /\ zl # <<>>
                          /\ zslLexValueGteMin(Last(zl)[1], r) /\ zslLexValueLteMax(Head(zl)[1], r)
zzlFirstInLexRange(zl, r) ==
    LET i == SelectInSeq(zl, LAMBDA p : zslLexValueGteMin(p[1], r)) IN
    IF zzlIsInLexRange(zl, r) /\ i # 0 /\ zslLexValueLteMax(zl[i][1], r) THEN i ELSE 0
zzlLastInLexRange(zl, r) ==
    LET i == SelectLastInSeq(zl, LAMBDA p : zslLexValueLteMax(p[1], r)) IN
    IF zzlIsInLexRange(zl, r) /\ i # 0 /\ zslLexValueGteMin(zl[i][1], r) THEN i ELSE 0
zzlDeleteRange(zl, from, LteMax(_)) ==
    LET stop == SelectInSeq(SubSeq(zl, from, Len(zl)), LAMBDA p : ~LteMax(p)) IN
    IF from = 0 THEN zl
    ELSE SubSeq(zl, 1, from - 1) \o (IF stop = 0 THEN <<>> ELSE SubSeq(zl, from + stop - 1, Len(zl)))
zzlDeleteRangeByRank(zl, start, end) == SubSeq(zl, 1, start - 1) \o SubSeq(zl, end + 1, Len(zl))

zsetCreate == [enc |-> "ziplist", zl |-> <<>>, zsl |-> zslCreate, d |-> <<>>]
zsetLength(z) == IF z.enc = "ziplist" THEN Len(z.zl) ELSE z.zsl.length

\* Ziplist to skiplist: the random heights are those of "heights".
zsetConvert(z, heights) ==
    [enc |-> "skiplist", zl |-> <<>>,
     zsl |-> FoldLeftDomain(LAMBDA s, i : zslInsert(s, z.zl[i][2], z.zl[i][1], heights[i]), zslCreate, z.zl),
     d |-> FoldLeft(LAMBDA d, p : (p[1] :> p[2]) @@ d, <<>>, z.zl)]
RECURSIVE LevelOne(_, _)
LevelOne(zsl, x) == IF x = 0 THEN <<>> ELSE <<<<x, zsl.n[x].score>>>> \o LevelOne(zsl, zsl.n[x].lv[1].fwd)
zsetConvertToZiplistIfNeeded(z) ==
    IF z.enc = "ziplist" \/ z.zsl.length > ZsetMaxEntries THEN z
    ELSE [enc |-> "ziplist", zl |-> LevelOne(z.zsl, z.zsl.n[0].lv[1].fwd), zsl |-> zslCreate, d |-> <<>>]

\* The score of an element, -1 if it is not in the set.
ScoreAt(zl, i) == IF i = 0 THEN -1 ELSE zl[i][2]
zsetScore(z, ele) ==
    IF z.enc = "ziplist" THEN ScoreAt(z.zl, zzlFind(z.zl, ele))
    ELSE IF ele \in DOMAIN z.d THEN z.d[ele] ELSE -1

ConvertIf(z, cur, height) ==
    IF cur = -1 /\ Len(z.zl) > ZsetMaxEntries
    THEN zsetConvert(z, [j \in DOMAIN z.zl |-> (j % 2) * (height - 1) + 1]) ELSE z
AddScored(z, score, ele, height, cur) ==
    IF cur = score THEN z
    ELSE IF z.enc = "ziplist"
    THEN ConvertIf([z EXCEPT !.zl = zzlInsert(IF cur = -1 THEN @ ELSE RemoveAt(@, zzlFind(@, ele)), ele, score)], cur, height)
    ELSE [z EXCEPT !.zsl = zslInsert(IF cur = -1 THEN @ ELSE zslDelete(@, cur, ele), score, ele, height),
                   !.d = (ele :> score) @@ @]
zsetAdd(z, score, ele, height) == AddScored(z, score, ele, height, zsetScore(z, ele))

Without(d, eles) == [x \in DOMAIN d \ eles |-> d[x]]
zsetDel(z, ele) ==
    IF zsetScore(z, ele) = -1 THEN z
    ELSE IF z.enc = "ziplist" THEN [z EXCEPT !.zl = RemoveAt(@, zzlFind(@, ele))]
    ELSE [z EXCEPT !.zsl = zslDelete(@, z.d[ele], ele), !.d = Without(@, {ele})]

\* The rank from 0, from the end if "reverse"; -1 if it is not in the set.
RankFrom(z, rank, reverse) == IF rank = 0 THEN -1 ELSE IF reverse THEN zsetLength(z) - rank ELSE rank - 1
zsetRank(z, ele, reverse) ==
    RankFrom(z, IF z.enc = "ziplist" THEN zzlFind(z.zl, ele)
                ELSE IF ele \in DOMAIN z.d THEN zslGetRank(z.zsl, z.d[ele], ele) ELSE 0, reverse)

\* What the command does to the hash table when the skiplist loses elements.
Cut(z, zsl) == [z EXCEPT !.zsl = zsl, !.d = Without(@, DOMAIN z.zsl.n \ DOMAIN zsl.n)]
zremrangebyscore(z, r) ==
    IF z.enc = "ziplist"
    THEN [z EXCEPT !.zl = zzlDeleteRange(@, zzlFirstInRange(@, r), LAMBDA p : zslValueLteMax(p[2], r))]
    ELSE Cut(z, zslDeleteRangeByScore(z.zsl, r))
RemoveLexRange(z, r) ==
    IF z.enc = "ziplist"
    THEN [z EXCEPT !.zl = zzlDeleteRange(@, zzlFirstInLexRange(@, r), LAMBDA p : zslLexValueLteMax(p[1], r))]
    ELSE Cut(z, zslDeleteRangeByLex(z.zsl, r))
zremrangebylex(z, min, max) == RemoveLexRange(z, zslParseLexRange(min, max))
zremrangebyrank(z, start, end) ==
    IF z.enc = "ziplist" THEN [z EXCEPT !.zl = zzlDeleteRangeByRank(@, start, end)]
    ELSE Cut(z, zslDeleteRangeByRank(z.zsl, start, end))

\* ZRANGEBYSCORE: from the first in range on, or from the last one back.
RECURSIVE Collect(_, _, _, _)
Collect(zsl, x, r, reverse) ==
    IF x = 0 THEN <<>>
    ELSE IF ~(IF reverse THEN zslValueGteMin(zsl.n[x].score, r) ELSE zslValueLteMax(zsl.n[x].score, r)) THEN <<>>
    ELSE <<x>> \o Collect(zsl, IF reverse THEN zsl.n[x].back ELSE zsl.n[x].lv[1].fwd, r, reverse)
zrangebyscore(z, r, reverse) ==
    LET lo == zzlFirstInRange(z.zl, r)
        hi == zzlLastInRange(z.zl, r)
        eles == [i \in DOMAIN z.zl |-> z.zl[i][1]]
    IN IF z.enc = "ziplist"
       THEN IF lo = 0 THEN <<>> ELSE IF reverse THEN Reverse(SubSeq(eles, lo, hi)) ELSE SubSeq(eles, lo, hi)
       ELSE Collect(z.zsl, IF reverse THEN zslLastInRange(z.zsl, r) ELSE zslFirstInRange(z.zsl, r), r, reverse)
\* ZCOUNT: the ranks of the first and the last in range.
\* The elements from the first to the last one (0: none), by their ranks.
RankOf(zsl, x) == zslGetRank(zsl, zsl.n[x].score, x)
Between(zsl, first, last) ==
    IF first = 0 THEN 0
    ELSE zsl.length - (RankOf(zsl, first) - 1) - (IF last = 0 THEN 0 ELSE zsl.length - RankOf(zsl, last))
zcount(z, r) == IF z.enc = "ziplist" THEN Len(zrangebyscore(z, r, FALSE))
                ELSE Between(z.zsl, zslFirstInRange(z.zsl, r), zslLastInRange(z.zsl, r))

\* ZRANGEBYLEX and ZREVRANGEBYLEX: skip "offset" elements, then take as many
\* as are in range and asked for (all if "limit" is -1).
LexRange(z, r, offset, limit, reverse) ==
    LET In(v) == IF reverse THEN zslLexValueGteMin(v, r) ELSE zslLexValueLteMax(v, r)
        zzlNext(j) == IF reverse THEN j - 1 ELSE IF j = Len(z.zl) THEN 0 ELSE j + 1
        zslNext(y) == IF reverse THEN z.zsl.n[y].back ELSE z.zsl.n[y].lv[1].fwd
        next(j) == IF z.enc = "ziplist" THEN zzlNext(j) ELSE zslNext(j)
        ele(j) == IF z.enc = "ziplist" THEN z.zl[j][1] ELSE j
        RECURSIVE Skip(_, _), Take(_, _)
        Skip(j, n) == IF j = 0 \/ n = 0 THEN j ELSE Skip(next(j), n - 1)
        Take(j, n) == IF j = 0 \/ n = 0 THEN <<>> ELSE IF ~In(ele(j)) THEN <<>> ELSE <<ele(j)>> \o Take(next(j), n - 1)
    IN Take(Skip(CASE z.enc = "ziplist" /\ reverse -> zzlLastInLexRange(z.zl, r)
                   [] z.enc = "ziplist" /\ ~reverse -> zzlFirstInLexRange(z.zl, r)
                   [] z.enc # "ziplist" /\ reverse -> zslLastInLexRange(z.zsl, r)
                   [] OTHER -> zslFirstInLexRange(z.zsl, r), offset), limit)
genericZrangebylex(z, min, max, offset, limit, reverse) == LexRange(z, zslParseLexRange(min, max), offset, limit, reverse)
LexCount(z, r) == IF z.enc = "ziplist" THEN Len(LexRange(z, r, 0, -1, FALSE))
                  ELSE Between(z.zsl, zslFirstInLexRange(z.zsl, r), zslLastInLexRange(z.zsl, r))
zlexcount(z, min, max) == LexCount(z, zslParseLexRange(min, max))

ScoresOf(z) == IF z.enc = "ziplist" THEN FoldLeft(LAMBDA d, p : (p[1] :> p[2]) @@ d, <<>>, z.zl)
               ELSE z.d

\* The skiplist holds the elements of the hash table in order, every link
\* spans what it passes over, and the back links mirror the first level.
ZsetOK(z) ==
    LET zsl == z.zsl
        order == LevelOne(zsl, zsl.n[0].lv[1].fwd)
        At(x) == IF x = 0 THEN 0 ELSE SelectInSeq(order, LAMBDA p : p[1] = x)
        Sorted(s) == \A i \in 1..(Len(s) - 1) : s[i][2] < s[i + 1][2] \/ (s[i][2] = s[i + 1][2] /\ s[i][1] < s[i + 1][1])
    IN IF z.enc = "ziplist" THEN Sorted(z.zl)
       ELSE /\ Sorted(order) /\ Len(order) = zsl.length
            /\ DOMAIN z.d = DOMAIN zsl.n \ {0} /\ \A i \in DOMAIN order : z.d[order[i][1]] = order[i][2]
            /\ zsl.tail = IF order = <<>> THEN 0 ELSE Last(order)[1]
            /\ \A x \in DOMAIN zsl.n : \A i \in DOMAIN zsl.n[x].lv :
                 LET link == zsl.n[x].lv[i] IN
                 IF i > zsl.level THEN link.fwd = 0
                 ELSE link.span = (IF link.fwd = 0 THEN zsl.length ELSE At(link.fwd)) - At(x)
            /\ \A j \in DOMAIN order : zsl.n[order[j][1]].back = IF j = 1 THEN 0 ELSE order[j - 1][1]
=============================================================================
