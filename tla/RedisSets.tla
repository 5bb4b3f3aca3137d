------------------------------- MODULE RedisSets -------------------------------
(***************************************************************************)
(* The commands on sets (t_set.c) and hashes (t_hash.c).  Members, fields   *)
(* and values are strings; a hash is a function of its fields.              *)
(***************************************************************************)
EXTENDS RedisStrings

SetAt(x, p) == IF Has(x, p) THEN Val(x, p) ELSE {}

saddCommand(x, c, p) ==
    LET new == SetAt(x, p) \cup ToSet(c.vals)
    IN IF WrongType(x, p, "set") THEN x
       ELSE IF new = SetAt(x, p) THEN x
       ELSE Modified(Put(x, p, "set", new), p)

sremCommand(x, c, p) ==
    IF ~Is(x, p, "set") THEN x
    ELSE IF ToSet(c.vals) \cap Val(x, p) = {} THEN x
    ELSE Modified(Put(x, p, "set", Val(x, p) \ ToSet(c.vals)), p)

SremCommand(p, v) == [op |-> "SREM", db |-> p[1], key |-> p[2], vals |-> <<v>>]

\* Mutant: the set that loses the member is not signalled.
MoveMemberUnsignalled(x, c, src, dst) ==
    LET y == Put(x, src, "set", Val(x, src) \ {c.val}) IN
    IF ~Is(x, src, "set") \/ WrongType(x, dst, "set") THEN x
    ELSE IF src = dst \/ c.val \notin Val(x, src) THEN x
    ELSE Modified(Put(y, dst, "set", SetAt(y, dst) \cup {c.val}), dst)

\* SMOVE: both keys are signalled even if the destination had the member.
MoveMember(x, c, src, dst) ==
    LET y == Put(x, src, "set", Val(x, src) \ {c.val}) IN
    IF ~Is(x, src, "set") \/ WrongType(x, dst, "set") THEN x
    ELSE IF src = dst \/ c.val \notin Val(x, src) THEN x
    ELSE Modified(Touch(Put(y, dst, "set", SetAt(y, dst) \cup {c.val}), src), dst)
smoveCommand(x, c, src) == MoveMember(lookupKeyWrite(x, At(x, c.dst)), c, src, At(x, c.dst))

sismemberCommand(x, c, p) ==
    IF WrongType(x, p, "set") THEN x ELSE Reply(x, c.val \in SetAt(x, p))

scardCommand(x, c, p) ==
    IF WrongType(x, p, "set") THEN x ELSE Reply(x, Cardinality(SetAt(x, p)))

\* SPOP key count.  The members drawn at random are "drawn"; the command is
\* propagated as DEL when all go and as one SREM for each member otherwise.
SpopOn(x, c, p) ==
    LET gone == SetToSeq(c.drawn) IN
    IF ~Is(x, p, "set") \/ c.count = 0 THEN x
    ELSE IF c.count >= Cardinality(Val(x, p)) THEN [Modified(dbDelete(x, p), p) EXCEPT !.argv = DelCommand(p)]
    ELSE [Modified(Put(x, p, "set", Val(x, p) \ c.drawn), p) EXCEPT
            !.also = @ \o [i \in DOMAIN gone |-> SremCommand(p, gone[i])],
            !.prevented = TRUE]
spopWithCountCommand(x, c, p) == IF c.count < 0 THEN x ELSE SpopOn(lookupKeyWrite(x, p), c, p)

\* SPOP key: propagated as the SREM of the member drawn.
spopCommand(x, c, p) ==
    IF ~Is(x, p, "set") THEN x
    ELSE [Modified(Put(x, p, "set", Val(x, p) \ c.drawn), p) EXCEPT
            !.argv = SremCommand(p, CHOOSE v \in c.drawn : TRUE)]

\* SPOP can draw these members: "drawn" has the size the count asks for.
Drawable(data, c) ==
    LET p == <<c.db, c.key>> IN
    c.op \in {"SPOP", "SPOPCOUNT"} =>
        /\ data[p] # None /\ data[p].type = "set" /\ c.drawn \subseteq data[p].val
        /\ Cardinality(c.drawn) = IF c.op = "SPOP" THEN 1
                                  ELSE Min({c.count, Cardinality(data[p].val)})

\* What *STORE commands do with their result.
StoreSet(x0, p, members) ==
    LET x == dbDelete(x0, p) IN
    Modified(IF members = {} THEN x ELSE dbAdd(x, p, "set", members), p)
Stored(x, c, result) == IF c.dst = None THEN Reply(x, result) ELSE StoreSet(x, At(x, c.dst), result)

\* SINTER (dst = None) and SINTERSTORE: the first missing key ends the search,
\* and the keys after it are neither looked up nor checked.
Intersected(x, c, places, seen, missing, wrong) ==
    IF seen \in wrong THEN x
    ELSE IF seen \notin missing
    THEN Stored(x, c, {v \in Val(x, places[1]) : \A i \in DOMAIN places : v \in Val(x, places[i])})
    ELSE IF c.dst = None THEN Reply(x, {})
    ELSE IF Has(x, At(x, c.dst)) THEN Modified(dbDelete(x, At(x, c.dst)), At(x, c.dst)) ELSE x
InterUntil(x, c, places, missing, wrong) ==
    LET seen == Min(missing \cup wrong \cup {Len(places)}) IN
    Intersected(lookupAll(x, SubSeq(places, 1, seen)), c, places, seen, missing, wrong)
InterOf(x, c, places) ==
    LET missing == {i \in DOMAIN places : Missing(x, places[i])} IN
    InterUntil(x, c, places, missing, {i \in DOMAIN places \ missing : WrongType(x, places[i], "set")})
sinterGenericCommand(x, c) == InterOf(x, c, PlacesOf(x, c.keys))

\* The two algorithms of SDIFF: test every member of the first set against
\* the others, or take the others away one set after the other until none is
\* left; "work" decides.
DiffOne(sets) == {v \in sets[1] : \A i \in 2..Len(sets) : v \notin sets[i]}
DiffTwo(sets) == FoldLeft(LAMBDA acc, s : IF acc = {} THEN acc ELSE acc \ s, sets[1], Tail(sets))
DiffWork(sets, present) ==
    LET sizes == [i \in present |-> Cardinality(sets[i])]
    IN (Cardinality(sets[1]) * Cardinality(present)) \div 2 <= SumFunction(sizes)

\* SUNION, SDIFF and their STORE forms.
UnionOrDiff(c, sets, present) ==
    IF c.sop = "union" THEN UNION ToSet(sets)
    ELSE IF 1 \notin present THEN {}
    ELSE IF DiffWork(sets, present) THEN DiffOne(sets) ELSE DiffTwo(sets)
Combined(r, c, places) ==
    IF ~r.ok THEN r.x
    ELSE Stored(r.x, c, UnionOrDiff(c, [i \in DOMAIN places |-> SetAt(r.x, places[i])],
                                    {i \in DOMAIN places : Has(r.x, places[i])}))
sunionDiffGenericCommand(x, c) ==
    Combined(lookupTyped(x, PlacesOf(x, c.keys), {"set"}), c, PlacesOf(x, c.keys))

(* ---- hashes ---- *)

HashAt(x, p) == IF Has(x, p) THEN Val(x, p) ELSE << >>
HashSet(h, f, v) == [g \in DOMAIN h \cup {f} |-> IF g = f THEN v ELSE h[g]]

hsetnxCommand(x, c, p) ==
    IF WrongType(x, p, "hash") THEN x
    ELSE IF c.field \in DOMAIN HashAt(x, p) THEN x
    ELSE Modified(Put(x, p, "hash", HashSet(HashAt(x, p), c.field, c.val)), p)

\* HSET and HMSET: "pairs" lists fields with their values.
hsetCommand(x, c, p) ==
    IF WrongType(x, p, "hash") THEN x
    ELSE Modified(Put(x, p, "hash", FoldLeft(LAMBDA h, fv : HashSet(h, fv[1], fv[2]),
                                             HashAt(x, p), c.pairs)), p)

HashInt(h, f) == IF f \in DOMAIN h THEN ToInt(h[f]) ELSE 0

hincrbyCommand(x, c, p) ==
    LET h == HashAt(x, p)
        value == HashInt(h, c.field)
    IN IF WrongType(x, p, "hash") THEN x
       ELSE IF c.field \in DOMAIN h /\ ~IsInt(h[c.field]) THEN x
       ELSE IF \/ c.incr < 0 /\ value < 0 /\ c.incr < MinInt - value
               \/ c.incr > 0 /\ value > 0 /\ c.incr > MaxInt - value THEN x
       ELSE Modified(Put(x, p, "hash", HashSet(h, c.field, FromInt(value + c.incr))), p)

\* HINCRBYFLOAT is propagated as an HSET of the result; the numbers it may
\* produce are cut to the range of the model.
hincrbyfloatCommand(x, c, p) ==
    LET h == HashAt(x, p)
        sum == HashInt(h, c.field) + c.incr
        new == FromInt(IF sum > MaxInt THEN MaxInt ELSE IF sum < MinInt THEN MinInt ELSE sum)
    IN IF WrongType(x, p, "hash") THEN x
       ELSE IF c.field \in DOMAIN h /\ ~IsInt(h[c.field]) THEN x
       ELSE [Modified(Put(x, p, "hash", HashSet(h, c.field, new)), p) EXCEPT
               !.argv = [op |-> "HSET", db |-> c.db, key |-> c.key, pairs |-> <<<<c.field, new>>>>]]

\* HGET and HMGET.
hmgetCommand(x, c, p) ==
    LET h == HashAt(x, p)
    IN IF WrongType(x, p, "hash") THEN x
       ELSE Reply(x, [i \in DOMAIN c.fields |-> IF c.fields[i] \in DOMAIN h THEN h[c.fields[i]] ELSE None])

hdelCommand(x, c, p) ==
    LET left == DOMAIN Val(x, p) \ ToSet(c.fields)
    IN IF ~Is(x, p, "hash") THEN x
       ELSE IF left = DOMAIN Val(x, p) THEN x
       ELSE Modified(Put(x, p, "hash", [f \in left |-> Val(x, p)[f]]), p)

\* HLEN, HKEYS, HVALS and HGETALL: the fields, from which the others follow.
genericHgetallCommand(x, c, p) ==
    IF WrongType(x, p, "hash") THEN x ELSE Reply(x, DOMAIN HashAt(x, p))
=============================================================================
