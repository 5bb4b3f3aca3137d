------------------------------ MODULE RedisLists ------------------------------
(***************************************************************************)
(* The commands on lists (t_list.c) and SORT (sort.c).                      *)
(***************************************************************************)
EXTENDS RedisDb, FiniteSetsExt

CONSTANT WeightKey  \* the key that the BY and GET patterns make of an element

ListAt(x, p) == IF Has(x, p) THEN Val(x, p) ELSE <<>>

\* listTypePush of the values one after the other, and listTypePop.
Pushed(list, vals, where) == IF where = "head" THEN Reverse(vals) \o list ELSE list \o vals
Popped(list, where) == IF where = "head" THEN Tail(list) ELSE Front(list)
Popping(list, where) == IF where = "head" THEN Head(list) ELSE Last(list)

\* LPUSH and RPUSH: a list that appears may have clients waiting for it.
pushGenericCommand(x, c, p) ==
    IF WrongType(x, p, "list") THEN x
    ELSE Modified(Put(x, p, "list", Pushed(ListAt(x, p), c.vals, c.where)), p)

\* LPUSHX and RPUSHX.
pushxGenericCommand(x, c, p) ==
    IF ~Is(x, p, "list") THEN x
    ELSE Modified(Put(x, p, "list", Pushed(Val(x, p), c.vals, c.where)), p)

linsertCommand(x, c, p) ==
    LET found == {i \in DOMAIN Val(x, p) : Val(x, p)[i] = c.pivot}
        at == IF c.where = "before" THEN Min(found) ELSE Min(found) + 1
    IN IF ~Is(x, p, "list") THEN x
       ELSE IF found = {} THEN x
       ELSE Modified(Put(x, p, "list", InsertAt(Val(x, p), at, c.val)), p)

llenCommand(x, c, p) ==
    IF WrongType(x, p, "list") THEN x ELSE Reply(x, Len(ListAt(x, p)))

\* A 0-based index, from the tail when negative: the position, 0 if outside.
IndexIn(list, index) ==
    LET i == IF index < 0 THEN Len(list) + index + 1 ELSE index + 1 IN
    IF i \in DOMAIN list THEN i ELSE 0

lindexCommand(x, c, p) ==
    LET i == IndexIn(Val(x, p), c.index)
    IN IF ~Is(x, p, "list") THEN x ELSE Reply(x, IF i = 0 THEN None ELSE Val(x, p)[i])

lsetCommand(x, c, p) ==
    LET i == IndexIn(Val(x, p), c.index)
    IN IF ~Is(x, p, "list") THEN x
       ELSE IF i = 0 THEN x
       ELSE Modified(Put(x, p, "list", [Val(x, p) EXCEPT ![i] = c.val]), p)

\* LPOP and RPOP.
popGenericCommand(x, c, p) ==
    IF ~Is(x, p, "list") THEN x
    ELSE Reply(Modified(Put(x, p, "list", Popped(Val(x, p), c.where)), p),
               Popping(Val(x, p), c.where))

\* What LRANGE returns and LTRIM keeps.
Ranged(list, start0, end0) ==
    LET from == IF start0 < 0 THEN Len(list) + start0 ELSE start0
        start == IF from < 0 THEN 0 ELSE from
        end == IF end0 < 0 THEN Len(list) + end0 ELSE end0
    IN IF start > end \/ start >= Len(list) THEN <<>>
       ELSE SubSeq(list, start + 1, IF end >= Len(list) THEN Len(list) ELSE end + 1)

lrangeCommand(x, c, p) ==
    IF WrongType(x, p, "list") THEN x ELSE Reply(x, Ranged(ListAt(x, p), c.start, c.end))

ltrimCommand(x, c, p) ==
    IF ~Is(x, p, "list") THEN x
    ELSE Modified(Put(x, p, "list", Ranged(Val(x, p), c.start, c.end)), p)

\* LREM removes count occurrences: from the tail when negative, all when 0.
lremCommand(x, c, p) ==
    LET list == Val(x, p)
        equal == {i \in DOMAIN list : list[i] = c.val}
        rank(i) == Cardinality({j \in equal : IF c.count < 0 THEN j >= i ELSE j <= i})
        limit == IF c.count < 0 THEN -c.count ELSE c.count
        gone == {i \in equal : c.count = 0 \/ rank(i) <= limit}
        kept == SetToSortSeq(DOMAIN list \ gone, <)
    IN IF ~Is(x, p, "list") THEN x
       ELSE IF gone = {} THEN x
       ELSE Modified(Put(x, p, "list", [i \in DOMAIN kept |-> list[kept[i]]]), p)

rpoplpushHandlePush(x, dst, value) ==
    Touch(Put(x, dst, "list", <<value>> \o ListAt(x, dst)), dst)

\* RPOPLPUSH: the source goes when it is empty after the push.
PopPush(x, src, dst) ==
    LET value == Last(Val(x, src))
        y == rpoplpushHandlePush(dbOverwrite(x, src, "list", Front(Val(x, src))), dst, value)
    IN IF WrongType(x, dst, "list") THEN x
       ELSE Reply(Modified(IF Val(y, src) = <<>> THEN dbDelete(y, src) ELSE y, src), value)
rpoplpushCommand(x, c, src) ==
    IF ~Is(x, src, "list") THEN x
    ELSE PopPush(lookupKeyWrite(x, At(x, c.dst)), src, At(x, c.dst))

(* ---- SORT ---- *)

\* The pattern of BY and GET makes the key WeightKey[e] of an element e.
lookupKeyByPattern(x, e) ==
    LET p == At(x, WeightKey[e]) IN IF Is(x, p, "string") THEN Val(x, p) ELSE <<>>

\* The elements in the order SORT reads them.  That of a set is the order of
\* its hash table, seeded anew by every process: a slave has another one.
SortVector(x, p) ==
    CASE ~Has(x, p) -> <<>>
      [] Is(x, p, "list") -> Val(x, p)
      [] Is(x, p, "set") -> IF x.role = "slave" THEN Reverse(SetToSeq(Val(x, p)))
                            ELSE SetToSeq(Val(x, p))

\* Strings here are of one byte at most, with the same order as numbers and as
\* text.  An element without a weight counts as 0, or before all others with ALPHA.
Text(e) == IF e = <<>> THEN -1 ELSE e[1]
Weight(x, c, e) ==
    LET w == IF c.by = "pattern" THEN lookupKeyByPattern(x, e) ELSE e IN
    IF w = <<>> /\ ~c.alpha THEN 2 ELSE Text(w)

\* Whether element i of v comes before element j.  Equal weights are told
\* apart by the elements, but not by ALPHA with BY: there the order read stays.
sortCompare(x, c, v, i, j) ==
    LET wi == Weight(x, c, v[i])
        wj == Weight(x, c, v[j])
        less(a, b) == IF c.desc THEN a > b ELSE a < b
    IN IF wi # wj THEN less(wi, wj)
       ELSE IF v[i] = v[j] \/ (c.alpha /\ c.by = "pattern") THEN i < j
       ELSE less(Text(v[i]), Text(v[j]))

\* LIMIT offset count as positions of the sorted vector.
SortLimits(c, len) ==
    LET start == IF c.offset < 0 THEN 0 ELSE c.offset
        end == IF c.count < 0 THEN len - 1 ELSE start + c.count - 1
    IN IF start >= len THEN <<len, len - 1>>
       ELSE <<start + 1, IF end >= len THEN len ELSE end + 1>>

\* The elements v sorted, cut by LIMIT, and what GET makes of them.
Sorted(x, c, v) ==
    IF c.by = "nosort" THEN (IF c.desc THEN Reverse(v) ELSE v)
    ELSE LET order == SetToSortSeq(DOMAIN v, LAMBDA i, j : sortCompare(x, c, v, i, j))
         IN [i \in DOMAIN v |-> v[order[i]]]
SortLimited(sorted, range) == SubSeq(sorted, range[1], range[2])
SortOutput(x, c, cut) ==
    [i \in DOMAIN cut |-> IF c.get THEN lookupKeyByPattern(x, cut[i]) ELSE cut[i]]
SortStore(x, dst, out) ==
    IF out # <<>> THEN Dirty(setKey(x, dst, "list", out))
    ELSE IF Has(x, dst) THEN Modified(dbDelete(x, dst), dst) ELSE x
SortElements(x0, c, v) ==
    LET x == IF c.by = "pattern" \/ c.get
             THEN lookupAll(x0, [i \in DOMAIN v |-> At(x0, WeightKey[v[i]])]) ELSE x0
        out == SortOutput(x, c, SortLimited(Sorted(x, c, v), SortLimits(c, Len(v))))
    IN IF c.dst = None THEN Reply(x, out) ELSE SortStore(x, At(x, c.dst), out)

\* SORT key [BY pattern | nosort] [LIMIT offset count] [GET pattern] [DESC]
\* [ALPHA] [STORE dst].  A set that is stored unsorted is sorted all the same.
sortCommand(x, c, p) ==
    IF Has(x, p) /\ x.db[p].type \notin {"list", "set"} THEN x
    ELSE SortElements(x, IF c.by = "nosort" /\ Is(x, p, "set") /\ c.dst # None
                         THEN [c EXCEPT !.by = "", !.alpha = TRUE] ELSE c,
                      SortVector(x, p))
=============================================================================
