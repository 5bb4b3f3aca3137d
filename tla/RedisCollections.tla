--------------------------- MODULE RedisCollections ---------------------------
(***************************************************************************)
(* The hash table (dict.c), which the databases, the sets and the hashes    *)
(* are made of, and sets and hashes (t_set.c, t_hash.c) over the structures *)
(* that hold them.                                                          *)
(*                                                                          *)
(* A table that grows or shrinks is not copied at once: a second table is   *)
(* made and every later operation moves a bucket.  SCAN walks the table by  *)
(* a cursor that the client keeps, with any number of resizes in between; a *)
(* safe iterator walks it while it is changed.                              *)
(*                                                                          *)
(* A dict is [ht, idx, its, can]: the two tables, rehashidx (-1 when the    *)
(* table is not being rehashed), the number of safe iterators, and the flag *)
(* dict_can_resize.  A table is a function from its buckets to sequences of *)
(* keys.  A key is the number it hashes to.  The cursor has Bits bits.      *)
(*                                                                          *)
(* A set of integers is an intset (intset.c), a sorted array whose width    *)
(* grows with its values, and a hash table once it is large or holds text;  *)
(* a hash is a ziplist (ziplist.c), a block of fields and values, and a     *)
(* hash table once large.  An intset is [enc, is]: the width and the array. *)
(* A set is [enc, is, d], a hash [enc, zl, d, v] with v the values of the   *)
(* hash table.  Elements are integers; those from Text on stand for strings *)
(* that are no integers.                                                    *)
(***************************************************************************)
EXTENDS Integers, SequencesExt, FiniteSetsExt, TLC

CONSTANTS
    InitialSize,    \* DICT_HT_INITIAL_SIZE
    MinFill,        \* HASHTABLE_MIN_FILL, in per cent
    ForceRatio,     \* dict_force_resize_ratio
    SetMaxEntries,  \* set-max-intset-entries
    HashMaxEntries  \* hash-max-ziplist-entries

(* ---- hash tables ---- *)

Bits == 4

NoTable == <<>>
Size(t) == Cardinality(DOMAIN t)
NewTable(n) == [i \in 0..(n - 1) |-> <<>>]
KeysOf(t) == UNION {ToSet(t[i]) : i \in DOMAIN t}
Used(t) == FoldSet(LAMBDA i, n : n + Len(t[i]), 0, DOMAIN t)
dictKeys(d) == KeysOf(d.ht[1]) \cup KeysOf(d.ht[2])
dictSize(d) == Used(d.ht[1]) + Used(d.ht[2])
dictIsRehashing(d) == d.idx # -1

dictCreate == [ht |-> <<NoTable, NoTable>>, idx |-> -1, its |-> 0, can |-> TRUE]

_dictNextPower(n) == Min({p \in {InitialSize * 2^i : i \in 0..Bits} : p >= n})

ExpandTo(d, n, real) ==
    IF dictIsRehashing(d) \/ Used(d.ht[1]) > n \/ real = Size(d.ht[1]) THEN d
    ELSE IF d.ht[1] = NoTable THEN [d EXCEPT !.ht[1] = NewTable(real)]
    ELSE [d EXCEPT !.ht[2] = NewTable(real), !.idx = 0]
dictExpand(d, n) == ExpandTo(d, n, _dictNextPower(n))

dictResize(d) == IF ~d.can \/ dictIsRehashing(d) THEN d
                 ELSE dictExpand(d, Max({Used(d.ht[1]), InitialSize}))

htNeedsResize(d) == LET size == Size(d.ht[1]) + Size(d.ht[2]) IN
                    size > InitialSize /\ (dictSize(d) * 100) \div size < MinFill
tryResizeHashTables(d) == IF htNeedsResize(d) THEN dictResize(d) ELSE d

\* Put a key at the top of its bucket.
InTable(t, k) == [t EXCEPT ![k % Size(t)] = <<k>> \o @]

\* Move n buckets that are not empty to the second table, which takes the
\* place of the first when there are no more.
RECURSIVE dictRehash(_, _)
MoveBucket(d, from, j) ==
    [d EXCEPT !.ht = <<[from EXCEPT ![j] = <<>>], FoldLeft(InTable, @[2], from[j])>>, !.idx = j + 1]
dictRehash(d, n) ==
    IF ~dictIsRehashing(d) THEN d
    ELSE IF \A i \in DOMAIN d.ht[1] : d.ht[1][i] = <<>> THEN [d EXCEPT !.ht = <<@[2], NoTable>>, !.idx = -1]
    ELSE IF n = 0 THEN d
    ELSE dictRehash(MoveBucket(d, d.ht[1], Min({i \in DOMAIN d.ht[1] : i >= d.idx /\ d.ht[1][i] # <<>>})), n - 1)
_dictRehashStep(d) == IF d.its = 0 THEN dictRehash(d, 1) ELSE d
incrementallyRehash(d) == dictRehash(d, 100)

ExpandIfFull(d, used, size) ==
    IF dictIsRehashing(d) \/ used \in 0..(size - 1) THEN d
    ELSE IF size = 0 \/ d.can \/ used \div size > ForceRatio
    THEN dictExpand(d, IF size = 0 THEN InitialSize ELSE used * 2)
    ELSE d
_dictExpandIfNeeded(d) == ExpandIfFull(d, Used(d.ht[1]), Size(d.ht[1]))

\* The tables that hold a key, looked for in its bucket of each.
Holding(d, k) == {t \in {1, 2} : d.ht[t] # NoTable /\ k \in ToSet(d.ht[t][k % Size(d.ht[t])])}

AddTo(d, k) ==
    IF Holding(d, k) # {} THEN d ELSE [d EXCEPT !.ht[IF dictIsRehashing(d) THEN 2 ELSE 1] = InTable(@, k)]
dictAddRaw(d, k) == AddTo(_dictExpandIfNeeded(_dictRehashStep(d)), k)

Unlink(d, k, tables) ==
    IF tables = {} THEN d
    ELSE [d EXCEPT !.ht[Min(tables)][k % Size(d.ht[Min(tables)])] = SelectSeq(@, LAMBDA x : x # k)]
DeleteFrom(d, k) == Unlink(d, k, Holding(d, k))
dictGenericDelete(d, k) == IF dictSize(d) = 0 THEN d ELSE DeleteFrom(_dictRehashStep(d), k)

dictFind(d, k) == IF dictSize(d) = 0 THEN d ELSE _dictRehashStep(d)

dictEmpty(d) == [dictCreate EXCEPT !.can = d.can]

\* Mutant: the table a rehash moves to is never drawn from.
dictGetRandomKeyFirst(dict, r) == ToSet(dict.ht[1][r % Size(dict.ht[1])])
\* The keys a random bucket number r leads to, {} if the number is drawn again.
dictGetRandomKey(dict, r) ==
    LET d == _dictRehashStep(dict)
        size == Size(d.ht[1])
        h == IF dictIsRehashing(d) THEN d.idx + (r % (size + Size(d.ht[2]) - d.idx)) ELSE r % size
    IN ToSet(IF h >= size THEN d.ht[2][h - size] ELSE d.ht[1][h])

\* Collect up to "count" keys from bucket i on; a run of empty buckets makes
\* the walk go on at bucket r.  A rehash that shrinks skips what it emptied.
RECURSIVE SomeKeys(_, _, _, _, _, _, _)
SomeKeys(d, i, r, count, steps, empty, found) ==
    LET mask == Max({Size(d.ht[1]), Size(d.ht[2])})
        skipped == dictIsRehashing(d) /\ i < d.idx
        i1 == IF skipped /\ i >= Size(d.ht[2]) THEN d.idx ELSE i
        first == IF skipped THEN <<>> ELSE IF i \in DOMAIN d.ht[1] THEN d.ht[1][i] ELSE <<>>
        second == IF i1 \in DOMAIN d.ht[2] THEN d.ht[2][i1] ELSE <<>>
        bare == empty + (IF ~skipped /\ i \in DOMAIN d.ht[1] /\ first = <<>> THEN 1 ELSE 0)
                      + (IF i1 \in DOMAIN d.ht[2] /\ second = <<>> THEN 1 ELSE 0)
        got == first \o second
        jump == got = <<>> /\ bare >= 5 /\ bare > count
    IN IF Len(found) >= count THEN SubSeq(found, 1, count)
       ELSE IF steps = 0 THEN found
       ELSE SomeKeys(d, ((IF jump THEN r ELSE i1) + 1) % mask, r, count, steps - 1,
                     IF jump \/ got # <<>> THEN 0 ELSE bare, found \o got)
RECURSIVE RehashSteps(_, _)
RehashSteps(d, n) == IF n = 0 THEN d ELSE RehashSteps(_dictRehashStep(d), n - 1)
dictGetSomeKeys(d, i, count) ==
    LET n == Min({count, dictSize(d)})
        ready == RehashSteps(d, n)
    IN [d |-> ready, keys |-> IF n = 0 THEN <<>> ELSE SomeKeys(ready, i, i, n, n * 10, 0, <<>>)]

Bit(v, i) == (v \div 2^i) % 2
rev(v) == FoldSet(LAMBDA i, n : n + Bit(v, i) * 2^(Bits - 1 - i), 0, 0..(Bits - 1))

\* The buckets of the larger table that begin with the cursor's bucket of the
\* smaller one, from the cursor's own on, and the cursor after them.
RECURSIVE Expansions(_, _, _, _)
\* Mutant: the cursor's own bucket only.
ExpansionsOnce(v, size0, size1, seen) == [v |-> v, buckets |-> {v % size1}]
Expansions(v, size0, size1, seen) ==
    LET w == (((v \div size0) * size0 + size0) % 2^Bits) + (v % size0)
        now == seen \cup {v % size1}
    IN IF (w % size1) \div size0 # 0 THEN Expansions(w, size0, size1, now)
       ELSE [v |-> w, buckets |-> now]

\* The keys at a cursor, and the next cursor.
NextCursor(at, size) == rev((rev((at % size) + 2^Bits - size) + 1) % 2^Bits)
ScanTwo(small, large, v, x) ==
    [keys |-> ToSet(small[v % Size(small)]) \cup UNION {ToSet(large[b]) : b \in x.buckets},
     v |-> NextCursor(x.v, Size(small))]
ScanBoth(small, large, v) == ScanTwo(small, large, v, Expansions(v, Size(small), Size(large), {}))
ScanOne(table, v) == [keys |-> ToSet(table[v % Size(table)]), v |-> NextCursor(v, Size(table))]
dictScan(d, v) ==
    IF dictSize(d) = 0 THEN [keys |-> {}, v |-> 0]
    ELSE IF ~dictIsRehashing(d) THEN ScanOne(d.ht[1], v)
    ELSE IF Size(d.ht[1]) > Size(d.ht[2]) THEN ScanBoth(d.ht[2], d.ht[1], v) ELSE ScanBoth(d.ht[1], d.ht[2], v)

\* A safe iterator: [table, index, entry, next], entry and next -1 when NULL.
NewIterator == [table |-> 1, index |-> -1, entry |-> -1, next |-> -1]
RECURSIVE dictNext(_, _)
RestOf(bucket, k) == LET p == CHOOSE p \in DOMAIN bucket : bucket[p] = k
                     IN IF p = Len(bucket) THEN -1 ELSE bucket[p + 1]
NextOf(bucket, k) == IF k \in ToSet(bucket) THEN RestOf(bucket, k) ELSE -1
EnterBucket(d, it, t, j) ==
    IF d.ht[t][j] = <<>> THEN dictNext(d, [it EXCEPT !.table = t, !.index = j])
    ELSE [table |-> t, index |-> j, entry |-> Head(d.ht[t][j]), next |-> RestOf(d.ht[t][j], Head(d.ht[t][j]))]
dictNext(d, it) ==
    IF it.entry # -1
    THEN IF it.next # -1 THEN [it EXCEPT !.entry = it.next, !.next = NextOf(d.ht[it.table][it.index], @)]
         ELSE dictNext(d, [it EXCEPT !.entry = -1])
    ELSE IF it.index + 1 < Size(d.ht[it.table]) THEN EnterBucket(d, it, it.table, it.index + 1)
    ELSE IF dictIsRehashing(d) /\ it.table = 1 THEN EnterBucket(d, it, 2, 0)
    ELSE [it EXCEPT !.index = @ + 1]

\* A key is in one bucket of one table, the buckets that were moved are empty,
\* and the second table is there only while the first is being rehashed.
DictOK(d) ==
    /\ dictSize(d) = Cardinality(dictKeys(d))
    /\ \A t \in {1, 2} : \A i \in DOMAIN d.ht[t] : \A k \in ToSet(d.ht[t][i]) : k % Size(d.ht[t]) = i
    /\ \A i \in DOMAIN d.ht[1] : i < d.idx => d.ht[1][i] = <<>>
    /\ dictIsRehashing(d) <=> d.ht[2] # NoTable

(* ---- ziplists ---- *)

\* The ziplist (ziplist.c): entries one after the other in a single block,
\* each beginning with the length of the entry before it, so that the list
\* can be walked backwards.  That length takes one byte when it is small
\* and LargeSize bytes otherwise; when it grows the entry grows with it,
\* and the next entry may have to grow in turn.
\*
\* A ziplist is [es, tail, bytes, len]: its entries, and the header's
\* offset of the last entry, size of the block and number of entries (all
\* without the constant header).  An entry is [val, plen, psize]: a value,
\* the length of the entry before, and the bytes that this length takes.
\* A value is the number of bytes its encoding and payload take.
\*
\* Big, LargeSize and MaxCount stand for 254, 5 and 65535.

Big == 6
LargeSize == 4
MaxCount == 3

zipRawEntryLength(e) == e.psize + e.val
zipStorePrevEntryLength(n) == IF n < Big THEN 1 ELSE LargeSize
zipPrevLenByteDiff(e, n) == zipStorePrevEntryLength(n) - e.psize
OffsetOf(es, i) == FoldLeft(LAMBDA n, e : n + zipRawEntryLength(e), 0, SubSeq(es, 1, i - 1))

ziplistNew == [es |-> <<>>, tail |-> 0, bytes |-> 0, len |-> 0]

\* The header's count stays at MaxCount once it got there.
IncrLength(zl, n) == IF zl.len < MaxCount THEN [zl EXCEPT !.len = @ + n] ELSE zl

\* Mutant: the entries behind one that grew are not told.
CascadeNothing(zl, i) == zl
\* Entry i changed its length: tell the next one, and go on while that grows.
RECURSIVE __ziplistCascadeUpdate(_, _)
CascadeOn(zl, i, rawlen, extra) ==
    IF zl.es[i + 1].plen = rawlen THEN zl
    ELSE IF extra <= 0 THEN [zl EXCEPT !.es[i + 1].plen = rawlen]
    ELSE __ziplistCascadeUpdate([zl EXCEPT !.es[i + 1].plen = rawlen, !.es[i + 1].psize = @ + extra,
                                           !.bytes = @ + extra,
                                           !.tail = IF @ # OffsetOf(zl.es, i + 1) THEN @ + extra ELSE @], i + 1)
CascadeFrom(zl, i, rawlen) == CascadeOn(zl, i, rawlen, zipPrevLenByteDiff(zl.es[i + 1], rawlen))
__ziplistCascadeUpdate(zl, i) ==
    IF i >= Len(zl.es) THEN zl ELSE CascadeFrom(zl, i, zipRawEntryLength(zl.es[i]))

\* Insert before entry i, or at the end if i = Len + 1.
Placed(zl, i, entry, reqlen, nextdiff) ==
    [zl EXCEPT !.es = InsertAt(IF i > Len(@) THEN @ ELSE [@ EXCEPT ![i].plen = reqlen, ![i].psize = @ + nextdiff], i, entry),
               !.bytes = @ + reqlen + nextdiff,
               !.tail = IF i > Len(zl.es) THEN zl.bytes
                        ELSE @ + reqlen + (IF i < Len(zl.es) THEN nextdiff ELSE 0)]
CascadeIf(zl, i, nextdiff) == IF nextdiff = 0 THEN zl ELSE __ziplistCascadeUpdate(zl, i)
PlaceWith(zl, i, entry, reqlen, nextdiff) ==
    IncrLength(CascadeIf(Placed(zl, i, entry, reqlen, nextdiff), i + 1, nextdiff), 1)
\* The entry behind the new one does not shrink when the new one is too small
\* to make up for it.
NextDiff(diff, reqlen) == IF diff = 1 - LargeSize /\ reqlen < LargeSize - 1 THEN 0 ELSE diff
PlaceEntry(zl, i, entry, reqlen) ==
    PlaceWith(zl, i, entry, reqlen, IF i > Len(zl.es) THEN 0 ELSE NextDiff(zipPrevLenByteDiff(zl.es[i], reqlen), reqlen))
NewEntry(v, prevlen) == [val |-> v, plen |-> prevlen, psize |-> zipStorePrevEntryLength(prevlen)]
InsertEntry(zl, i, entry) == PlaceEntry(zl, i, entry, zipRawEntryLength(entry))
__ziplistInsert(zl, i, v) ==
    InsertEntry(zl, i, NewEntry(v, IF i <= Len(zl.es) THEN zl.es[i].plen
                                   ELSE IF zl.es # <<>> THEN zipRawEntryLength(Last(zl.es)) ELSE 0))

\* Delete num entries from entry i on.
CutOut(zl, i, j, totlen, nextdiff, prevlen) ==
    IncrLength([zl EXCEPT !.es = SubSeq(@, 1, i - 1)
                                   \o (IF j > Len(@) THEN <<>>
                                       ELSE <<[@[j] EXCEPT !.plen = prevlen, !.psize = @ + nextdiff]>> \o SubSeq(@, j + 1, Len(@))),
                          !.bytes = @ - totlen + nextdiff,
                          !.tail = IF j > Len(zl.es) THEN OffsetOf(zl.es, i) - prevlen
                                   ELSE @ - totlen + (IF j < Len(zl.es) THEN nextdiff ELSE 0)], i - j)
CutWith(zl, i, j, totlen, nextdiff, prevlen) == CascadeIf(CutOut(zl, i, j, totlen, nextdiff, prevlen), i, nextdiff)
Cut(zl, i, j) == CutWith(zl, i, j, OffsetOf(zl.es, j) - OffsetOf(zl.es, i),
                         IF j <= Len(zl.es) THEN zipPrevLenByteDiff(zl.es[j], zl.es[i].plen) ELSE 0, zl.es[i].plen)
__ziplistDelete(zl, i, num) == Cut(zl, i, Min({i + num, Len(zl.es) + 1}))

\* The second list behind the first; only the seam may need an update.
ziplistMerge(a, b) ==
    LET joined == [es |-> a.es \o b.es, bytes |-> a.bytes + b.bytes, tail |-> a.bytes + b.tail,
                   len |-> Min({a.len + b.len, MaxCount})]
    IN __ziplistCascadeUpdate(joined, Len(a.es))

\* The entry at an offset of the block, 0 if none begins there.
LeastOr0(S) == IF S = {} THEN 0 ELSE Min(S)
EntryAt(zl, offset) == LeastOr0({i \in DOMAIN zl.es : OffsetOf(zl.es, i) = offset})

\* Walk back from the tail, by the length every entry gives of the one before.
RECURSIVE Backwards(_, _, _)
BackFrom(zl, i, offset, n) ==
    IF i = 0 THEN 0
    ELSE IF zl.es[i].plen = 0 THEN (IF n > 0 THEN 0 ELSE i)
    ELSE IF n = 0 THEN i
    ELSE Backwards(zl, offset - zl.es[i].plen, n - 1)
Backwards(zl, offset, n) == BackFrom(zl, EntryAt(zl, offset), offset, n)

\* The position of the entry at an index, from the tail when negative; 0 if none.
ziplistIndex(zl, index) ==
    IF index < 0 THEN Backwards(zl, zl.tail, -index - 1)
    ELSE IF index < Len(zl.es) THEN index + 1 ELSE 0

ziplistLen(zl) == IF zl.len < MaxCount THEN zl.len ELSE Len(zl.es)

Values(zl) == [i \in DOMAIN zl.es |-> zl.es[i].val]

\* Every entry knows the length of the one before, in a field that can hold
\* it, and the header agrees with the entries.
ZiplistOK(zl) ==
    /\ \A i \in DOMAIN zl.es :
         /\ zl.es[i].plen = IF i = 1 THEN 0 ELSE zipRawEntryLength(zl.es[i - 1])
         /\ zl.es[i].psize >= zipStorePrevEntryLength(zl.es[i].plen)
    /\ zl.bytes = OffsetOf(zl.es, Len(zl.es) + 1)
    /\ zl.tail = IF zl.es = <<>> THEN 0 ELSE OffsetOf(zl.es, Len(zl.es))
    /\ ziplistLen(zl) = Len(zl.es)

(* ---- intsets, sets and hashes ---- *)

Text == 100

\* The three widths, of 3, 4 and 5 bits here.
_intsetValueEncoding(v) == CASE v \in -4..3 -> 1 [] v \in -8..7 /\ v \notin -4..3 -> 2 [] OTHER -> 3

intsetNew == [enc |-> 1, is |-> <<>>]

\* The position where a value is, or where it has to go.
intsetSearch(s, v) ==
    LET RECURSIVE Halve(_, _)
        Halve(min, max) ==
            LET mid == (min + max) \div 2 IN
            IF max < min THEN [found |-> FALSE, pos |-> min]
            ELSE IF v > s.is[mid + 1] THEN Halve(mid + 1, max)
            ELSE IF v < s.is[mid + 1] THEN Halve(min, mid - 1)
            ELSE [found |-> TRUE, pos |-> mid]
        n == Len(s.is)
    IN IF n = 0 THEN [found |-> FALSE, pos |-> 0]
       ELSE IF v > s.is[n] THEN [found |-> FALSE, pos |-> n]
       ELSE IF v < s.is[1] THEN [found |-> FALSE, pos |-> 0]
       ELSE Halve(0, n - 1)

\* A value too wide for the others is smaller than all of them or larger.
intsetUpgradeAndAdd(s, v) ==
    [enc |-> _intsetValueEncoding(v), is |-> IF v < 0 THEN <<v>> \o s.is ELSE Append(s.is, v)]
intsetAdd(s, v) ==
    LET at == intsetSearch(s, v) IN
    IF _intsetValueEncoding(v) > s.enc THEN intsetUpgradeAndAdd(s, v)
    ELSE IF at.found THEN s ELSE [s EXCEPT !.is = InsertAt(@, at.pos + 1, v)]
intsetFind(s, v) == _intsetValueEncoding(v) <= s.enc /\ intsetSearch(s, v).found
intsetRemove(s, v) == IF intsetFind(s, v) THEN [s EXCEPT !.is = RemoveAt(@, intsetSearch(s, v).pos + 1)] ELSE s

IntsetOK(s) == /\ \A i \in 1..(Len(s.is) - 1) : s.is[i] < s.is[i + 1]
               /\ \A i \in DOMAIN s.is : _intsetValueEncoding(s.is[i]) <= s.enc

setTypeCreate(v) == [enc |-> IF v < Text THEN "intset" ELSE "ht", is |-> intsetNew, d |-> dictCreate]

\* The table is made large enough before the elements are added.
setTypeConvert(s) ==
    [enc |-> "ht", is |-> intsetNew,
     d |-> FoldLeft(dictAddRaw, dictExpand(dictCreate, Len(s.is.is)), s.is.is)]
Grown(s, was) == IF s.is # was /\ Len(s.is.is) > SetMaxEntries THEN setTypeConvert(s) ELSE s
setTypeAdd(s, v) ==
    IF s.enc = "intset" /\ v < Text THEN Grown([s EXCEPT !.is = intsetAdd(@, v)], s.is)
    ELSE [(IF s.enc = "ht" THEN s ELSE setTypeConvert(s)) EXCEPT !.d = dictAddRaw(@, v)]
ResizeIf(d, size) == IF dictSize(d) # size THEN tryResizeHashTables(d) ELSE d
setTypeRemove(s, v) ==
    IF s.enc = "ht" THEN [s EXCEPT !.d = ResizeIf(dictGenericDelete(@, v), dictSize(@))]
    ELSE IF v < Text THEN [s EXCEPT !.is = intsetRemove(@, v)] ELSE s
setTypeIsMember(s, v) == IF s.enc = "ht" THEN Holding(_dictRehashStep(s.d), v) # {}
                         ELSE v < Text /\ intsetFind(s.is, v)
setTypeSize(s) == IF s.enc = "ht" THEN dictSize(s.d) ELSE Len(s.is.is)
Members(s) == IF s.enc = "ht" THEN dictKeys(s.d) ELSE ToSet(s.is.is)

hashCreate == [enc |-> "ziplist", zl |-> ziplistNew, d |-> dictCreate, v |-> <<>>]

\* ziplistFind, comparing every second entry: the position of a field, or 0.
ziplistFind(zl, field) == LeastOr0({i \in DOMAIN zl.es : i % 2 = 1 /\ zl.es[i].val = field})
hashTypeLength(h) == IF h.enc = "ziplist" THEN ziplistLen(h.zl) \div 2 ELSE dictSize(h.d)
hashTypeConvert(h) ==
    [enc |-> "ht", zl |-> ziplistNew,
     d |-> FoldLeft(dictAddRaw, dictCreate, [i \in 1..(Len(h.zl.es) \div 2) |-> h.zl.es[2 * i - 1].val]),
     v |-> [f \in {h.zl.es[i].val : i \in {j \in DOMAIN h.zl.es : j % 2 = 1}} |-> h.zl.es[ziplistFind(h.zl, f) + 1].val]]
PutField(zl, at, field, value) ==
    __ziplistInsert(IF at # 0 THEN __ziplistDelete(zl, at + 1, 1) ELSE __ziplistInsert(zl, Len(zl.es) + 1, field),
                    IF at # 0 THEN at + 1 ELSE Len(zl.es) + 2, value)
ConvertIf(h) == IF hashTypeLength(h) > HashMaxEntries THEN hashTypeConvert(h) ELSE h
AddIf(d, k) == IF Holding(d, k) # {} THEN d ELSE dictAddRaw(d, k)
hashTypeSet(h, field, value) ==
    IF h.enc = "ziplist" THEN ConvertIf([h EXCEPT !.zl = PutField(@, ziplistFind(@, field), field, value)])
    ELSE [h EXCEPT !.d = AddIf(dictFind(@, field), field), !.v = (field :> value) @@ @]
DropField(zl, at) == IF at = 0 THEN zl ELSE __ziplistDelete(__ziplistDelete(zl, at, 1), at, 1)
hashTypeDelete(h, field) ==
    IF h.enc = "ziplist" THEN [h EXCEPT !.zl = DropField(@, ziplistFind(@, field))]
    ELSE [h EXCEPT !.d = ResizeIf(dictGenericDelete(@, field), dictSize(@)), !.v = [f \in DOMAIN @ \ {field} |-> @[f]]]
\* The value of a field, 0 if there is none.
ValueAt(zl, at) == IF at = 0 THEN 0 ELSE zl.es[at + 1].val
hashTypeGetValue(h, field) ==
    IF h.enc = "ziplist" THEN ValueAt(h.zl, ziplistFind(h.zl, field))
    ELSE IF Holding(_dictRehashStep(h.d), field) # {} THEN h.v[field] ELSE 0
FieldValues(h) ==
    IF h.enc = "ht" THEN h.v
    ELSE [f \in {h.zl.es[i].val : i \in {j \in DOMAIN h.zl.es : j % 2 = 1}} |-> hashTypeGetValue(h, f)]
=============================================================================
