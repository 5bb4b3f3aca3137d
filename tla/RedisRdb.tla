------------------------------- MODULE RedisRdb -------------------------------
(***************************************************************************)
(* Values on disk (rdb.c, and the object writers of aof.c).  An RDB file is *)
(* a sequence of bytes, of which some stand for a whole payload; lengths    *)
(* and small integers take as few bytes as they can.  A value is saved in   *)
(* the encoding it has in memory and loaded into the one it would have had  *)
(* if it were new.  A rewritten AOF has commands that build the value.      *)
(*                                                                          *)
(* A byte has 4 bits here, 2 of them behind the type of a length; the       *)
(* lengths of 32 and 64 bits have 2 and 4 bytes, the integers 1, 2 and 4.   *)
(* A string is a number: below Text the integer it shows, from Text on a    *)
(* string of that many characters that shows no integer.                    *)
(***************************************************************************)
EXTENDS RedisCollections

CONSTANTS
    Fill, Depth, MinCompress, MaxLevel, ZsetMaxEntries,
    EmbstrSize,     \* OBJ_ENCODING_EMBSTR_SIZE_LIMIT
    LzfSize,        \* characters of the longest string not worth compressing
    ItemsPerCmd     \* AOF_REWRITE_ITEMS_PER_CMD

Q == INSTANCE RedisQuicklist
Z == INSTANCE RedisSkiplist

Byte == 16
Low == 4

(* ---- strings in memory ---- *)

StrLen(s) == IF s < Text THEN 5 ELSE s - Text
Encoding(s) == IF s < Text THEN "int" ELSE IF StrLen(s) <= EmbstrSize THEN "embstr" ELSE "raw"

\* tryObjectEncoding, and the object that APPEND and SETRANGE work on.
tryObjectEncoding(o) == [o EXCEPT !.enc = IF @ = "int" THEN @ ELSE Encoding(o.str)]
dbUnshareStringValue(o) == [o EXCEPT !.enc = "raw"]

(* ---- lengths ---- *)

Digits(n, k) == [i \in 1..k |-> (n \div Byte^(k - i)) % Byte]
Number(ds) == FoldLeft(LAMBDA n, d : Byte * n + d, 0, ds)
After(f, n) == SubSeq(f, n + 1, Len(f))

rdbSaveLen(len) ==
    IF len < Low THEN <<len>>
    ELSE IF len < Low * Byte THEN <<Low + len \div Byte, len % Byte>>
    ELSE IF len < Byte^2 THEN <<2 * Low>> \o Digits(len, 2)
    ELSE <<2 * Low + 1>> \o Digits(len, 4)

\* The length or, if "enc", the encoding that the file f begins with.
WideLen(f, n) == [len |-> Number(SubSeq(f, 2, 1 + n)), enc |-> FALSE, rest |-> After(f, 1 + n)]
LenOfType(f, type, low) ==
    CASE type = 0 \/ type = 3 -> [len |-> low, enc |-> type = 3, rest |-> After(f, 1)]
      [] type = 1 -> [len |-> low * Byte + f[2], enc |-> FALSE, rest |-> After(f, 2)]
      [] type = 2 -> WideLen(f, IF low = 0 THEN 2 ELSE 4)
rdbLoadLen(f) == LenOfType(f, f[1] \div Low, f[1] % Low)

(* ---- strings ---- *)

INT8 == 0
INT16 == 1
INT32 == 2
LZF == 3
Width(enctype) == CASE enctype = INT8 -> 1 [] enctype = INT16 -> 2 [] enctype = INT32 -> 4

\* Little endian; no bytes if the value is too large.
InBytes(v, e) == <<3 * Low + e>> \o Reverse(Digits(v, Width(e)))
SmallestFor(v, fits) == IF fits = {} THEN <<>> ELSE InBytes(v, Min(fits))
rdbEncodeInteger(v) ==
    SmallestFor(v, {e \in {INT8, INT16, INT32} : -(Byte^Width(e)) <= 2 * v /\ 2 * v < Byte^Width(e)})

Signed(n, w) == IF 2 * n >= Byte^w THEN n - Byte^w ELSE n
LoadInteger(f, w) == [str |-> Signed(Number(Reverse(SubSeq(f, 1, w))), w), rest |-> After(f, w)]
rdbLoadIntegerObject(enctype, f) == LoadInteger(f, Width(enctype))

\* A payload of len bytes, and reading one.
Payload(v, len) == IF len = 0 THEN <<>> ELSE <<[data |-> v, len |-> len]>>
rioRead(f, len) == IF len = 0 THEN [str |-> Text, rest |-> f]
                   ELSE [str |-> IF f[1].len = len THEN f[1].data ELSE -1, rest |-> After(f, 1)]

\* lzf_compress: the length it comes down to, 0 if it does not.
Compressed(len) == IF len > LzfSize /\ len % 2 = 0 THEN len - 4 ELSE 0
rdbSaveLzfBlob(v, clen, len) == <<3 * Low + LZF>> \o rdbSaveLen(clen) \o rdbSaveLen(len) \o Payload(v, clen)
LzfPayload(c, l) == rioRead(l.rest, c.len)
LzfBlob(c) == LzfPayload(c, rdbLoadLen(c.rest))
rdbLoadLzfStringObject(f) == LzfBlob(rdbLoadLen(f))

\* Bytes that are no integer, whatever they are.
Verbatim(v, len) ==
    IF Compressed(len) > 0 THEN rdbSaveLzfBlob(v, Compressed(len), len) ELSE rdbSaveLen(len) \o Payload(v, len)
Either(int, str) == IF int # <<>> THEN int ELSE str
rdbSaveRawString(s) == Either(IF s < Text THEN rdbEncodeInteger(s) ELSE <<>>, Verbatim(s, StrLen(s)))
rdbSaveLongLongAsStringObject(v) == Either(rdbEncodeInteger(v), rdbSaveLen(StrLen(v)) \o Payload(v, StrLen(v)))
rdbSaveStringObject(o) == IF o.enc = "int" THEN rdbSaveLongLongAsStringObject(o.str) ELSE rdbSaveRawString(o.str)

LoadString(l) ==
    IF ~l.enc THEN rioRead(l.rest, l.len)
    ELSE IF l.len = LZF THEN rdbLoadLzfStringObject(l.rest) ELSE rdbLoadIntegerObject(l.len, l.rest)
rdbGenericLoadStringObject(f) == LoadString(rdbLoadLen(f))

\* n strings one after the other.
AlsoRead(strs, s) == [strs |-> Append(strs, s.str), rest |-> s.rest]
LoadStrings(f, n) ==
    FoldLeft(LAMBDA r, i : AlsoRead(r.strs, rdbGenericLoadStringObject(r.rest)),
             [strs |-> <<>>, rest |-> f], [i \in 1..n |-> i])

(* ---- objects ---- *)

RECURSIVE Iterated(_, _)
IteratedOn(d, it) == IF it.entry = -1 THEN <<>> ELSE <<it.entry>> \o Iterated(d, it)
Iterated(d, it) == IteratedOn(d, dictNext(d, it))
dictIterated(d) == Iterated(d, NewIterator)

\* From the tail of a skiplist back: elements and scores.
RECURSIVE FromTail(_, _)
FromTail(zsl, x) == IF x = 0 THEN <<>> ELSE <<<<x, zsl.n[x].score>>>> \o FromTail(zsl, zsl.n[x].back)

\* Small encodings are blobs of memory; a node of a list may be compressed there.
rdbSaveObjectType(kind, o) == IF kind = "list" THEN "quicklist" ELSE o.enc
Each(s, saved) == rdbSaveLen(Len(s)) \o FlattenSeq(saved)
SaveNode(n) == IF n.lzf THEN rdbSaveLzfBlob(n.zl, Len(n.zl), 2 * Len(n.zl)) ELSE Verbatim(n.zl, Len(n.zl))
SaveFields(ks, v) == Each(ks, [i \in DOMAIN ks |-> rdbSaveRawString(ks[i]) \o (IF v = <<>> THEN <<>> ELSE rdbSaveRawString(v[ks[i]]))])
SaveScores(ps) == Each(ps, [i \in DOMAIN ps |-> rdbSaveRawString(ps[i][1]) \o Payload(ps[i][2], 8)])
SaveAs(kind, o, type) ==
    CASE kind = "string" -> rdbSaveStringObject(o)
      [] type = "quicklist" -> Each(o.nodes, [i \in DOMAIN o.nodes |-> SaveNode(o.nodes[i])])
      [] type \in {"intset", "ziplist"} -> IF type = "intset" THEN Verbatim(o.is, 1 + Len(o.is.is)) ELSE Verbatim(o.zl, 3)
      [] type = "ht" -> SaveFields(dictIterated(o.d), IF kind = "hash" THEN o.v ELSE <<>>)
      [] type = "skiplist" -> SaveScores(FromTail(o.zsl, o.zsl.tail))
rdbSaveObject(kind, o) == SaveAs(kind, o, rdbSaveObjectType(kind, o))

\* quicklistAppendZiplist: a node as it was.
quicklistAppendZiplist(ql, zl) ==
    LET n == Len(ql.nodes) IN
    [nodes |-> Q!__quicklistInsertNode(ql.nodes, n + 1, Q!NewNode(zl), n), count |-> ql.count + Len(zl)]

\* A set begins as an intset if it is small, and is converted at the first
\* string that shows no integer.
ConvertAt(s, n) == IF s.enc = "ht" THEN s ELSE [setTypeConvert(s) EXCEPT !.d = dictExpand(@, n)]
LoadMember(s, e, n) ==
    IF s.enc = "intset" /\ e < Text THEN [s EXCEPT !.is = intsetAdd(@, e)]
    ELSE [ConvertAt(s, n) EXCEPT !.d = dictAddRaw(@, e)]
LoadSet(strs) ==
    FoldLeft(LAMBDA s, e : LoadMember(s, e, Len(strs)),
             IF Len(strs) <= SetMaxEntries THEN setTypeCreate(0)
             ELSE [setTypeCreate(Text) EXCEPT !.d = IF Len(strs) > InitialSize THEN dictExpand(@, Len(strs)) ELSE @], strs)

LoadFields(fields, strs) ==
    [hashTypeConvert(hashCreate) EXCEPT
       !.d = FoldLeft(dictAddRaw, @, fields),
       !.v = [f \in ToSet(fields) |-> strs[2 * (CHOOSE i \in DOMAIN fields : fields[i] = f)]]]
LoadHash(strs) ==
    IF Len(strs) \div 2 <= HashMaxEntries
    THEN [hashCreate EXCEPT !.zl = FoldLeft(LAMBDA z, s : __ziplistInsert(z, Len(z.es) + 1, s), @, strs)]
    ELSE LoadFields([i \in 1..(Len(strs) \div 2) |-> strs[2 * i - 1]], strs)

\* Elements from the greatest to the smallest, with heights drawn anew.
LoadScored(r, e, s, h) ==
    [zsl |-> Z!zslInsert(r.zsl, s.str, e.str, h), d |-> (e.str :> s.str) @@ r.d, rest |-> s.rest]
LoadElement(r, e, h) == LoadScored(r, e, rioRead(e.rest, 8), h)
LoadedZset(r) == Z!zsetConvertToZiplistIfNeeded([enc |-> "skiplist", zl |-> <<>>, zsl |-> r.zsl, d |-> r.d])
LoadZset(n, f, height) ==
    LoadedZset(FoldLeft(LAMBDA r, i : LoadElement(r, rdbGenericLoadStringObject(r.rest), (i % 2) * (height - 1) + 1),
                        [zsl |-> Z!zslCreate, d |-> <<>>, rest |-> f], [i \in 1..n |-> i]))

\* A blob is taken as it is, and converted if it is now too long.
AsSet(s) == IF Len(s.is.is) > SetMaxEntries THEN setTypeConvert(s) ELSE s
AsZset(z, height) == IF Len(z.zl) > ZsetMaxEntries THEN Z!zsetConvert(z, [i \in DOMAIN z.zl |-> height]) ELSE z
LoadBlob(kind, type, blob, height) ==
    CASE kind = "string" -> tryObjectEncoding([enc |-> "raw", str |-> blob])
      [] type = "intset" -> AsSet([setTypeCreate(0) EXCEPT !.is = blob])
      [] type = "ziplist" /\ kind = "hash" -> ConvertIf([hashCreate EXCEPT !.zl = blob])
      [] type = "ziplist" /\ kind = "zset" -> AsZset([Z!zsetCreate EXCEPT !.zl = blob], height)
LoadNodes(strs) == FoldLeft(quicklistAppendZiplist, Q!quicklistCreate, strs)
LoadElements(kind, type, n, height) ==
    IF type = "skiplist" THEN LoadZset(n.len, n.rest, height)
    ELSE LET strs == LoadStrings(n.rest, IF kind = "hash" THEN 2 * n.len ELSE n.len).strs IN
         CASE type = "quicklist" -> LoadNodes(strs)
           [] type = "ht" /\ kind = "set" -> LoadSet(strs)
           [] type = "ht" /\ kind = "hash" -> LoadHash(strs)
rdbLoadObject(kind, type, f, height) ==
    IF kind = "string" \/ type \in {"intset", "ziplist"}
    THEN LoadBlob(kind, type, rdbGenericLoadStringObject(f).str, height)
    ELSE LoadElements(kind, type, rdbLoadLen(f), height)

\* Saved and loaded: a restart, a slave's first synchronization, DUMP and RESTORE.
Reloaded(kind, o, height) == rdbLoadObject(kind, rdbSaveObjectType(kind, o), rdbSaveObject(kind, o), height)

(* ---- commands that build a value ---- *)

\* Every command begins with the number of its items, which is written before
\* them: as many as are left, and at most ItemsPerCmd.
Rewritten(items) ==
    LET one(s, x) == [out |-> s.out \o (IF s.count = 0 THEN <<[n |-> Min({s.items, ItemsPerCmd})]>> ELSE <<>>) \o <<x>>,
                      count |-> (s.count + 1) % ItemsPerCmd, items |-> s.items - 1]
    IN FoldLeft(one, [out |-> <<>>, count |-> 0, items |-> Len(items)], items).out

\* The items of the commands as they are read.
RECURSIVE Replayed(_)
Replayed(f) == IF f = <<>> THEN <<>>
               ELSE SubSeq(f, 2, 1 + f[1].n) \o Replayed(SubSeq(f, 2 + f[1].n, Len(f)))

rewriteListObject(o) == Rewritten(Q!Entries(o))
rewriteSetObject(o) == Rewritten(IF o.enc = "intset" THEN o.is.is ELSE dictIterated(o.d))
WithValue(ks, v) == [i \in DOMAIN ks |-> <<ks[i], v[ks[i]]>>]
rewriteSortedSetObject(o) == Rewritten(IF o.enc = "ziplist" THEN o.zl ELSE WithValue(SetToSeq(DOMAIN o.d), o.d))
\* The fields of a hash with their values, as its iterator gives them.
hashTypeIterated(o) ==
    IF o.enc = "ht" THEN WithValue(dictIterated(o.d), o.v)
    ELSE [i \in 1..(Len(o.zl.es) \div 2) |-> <<o.zl.es[2 * i - 1].val, o.zl.es[2 * i].val>>]
rewriteHashObject(o) == Rewritten(hashTypeIterated(o))

\* RPUSH, SADD, ZADD and HMSET from the file.
SetOf(es) == FoldLeft(setTypeAdd, setTypeCreate(IF es = <<>> THEN 0 ELSE es[1]), es)
Rebuilt(kind, o, height) ==
    CASE kind = "list" -> FoldLeft(Q!quicklistPushTail, Q!quicklistCreate, Replayed(rewriteListObject(o)))
      [] kind = "set" -> SetOf(Replayed(rewriteSetObject(o)))
      [] kind = "zset" -> FoldLeft(LAMBDA z, p : Z!zsetAdd(z, p[2], p[1], height), Z!zsetCreate, Replayed(rewriteSortedSetObject(o)))
      [] kind = "hash" -> FoldLeft(LAMBDA h, p : hashTypeSet(h, p[1], p[2]), hashCreate, Replayed(rewriteHashObject(o)))

(* ---- databases ---- *)

\* A database maps keys to times, NoExpire if they stay; the values are as
\* above.  "now" is the time of the save.
NoExpire == -1
rdbSaveKeyValuePair(k, expire, now) ==
    IF expire # NoExpire /\ expire < now THEN <<>>
    ELSE (IF expire # NoExpire THEN <<"EXPIRETIME_MS", expire>> ELSE <<>>) \o <<"STRING">> \o rdbSaveRawString(k)
rdbSaveInfoAuxFields(select) == <<"AUX", "repl-stream-db", select>>
rdbSaveRio(dbs, select, now) ==
    LET keys(j) == SetToSeq(DOMAIN dbs[j])
        header(j) == <<"SELECTDB">> \o rdbSaveLen(j) \o <<"RESIZEDB">> \o rdbSaveLen(Len(keys(j)))
                     \o rdbSaveLen(Cardinality({k \in DOMAIN dbs[j] : dbs[j][k] # NoExpire}))
        body(j) == FoldLeft(LAMBDA f, k : f \o rdbSaveKeyValuePair(k, dbs[j][k], now), <<>>, keys(j))
    IN rdbSaveInfoAuxFields(select)
       \o FoldLeft(LAMBDA f, j : IF dbs[j] = <<>> THEN f ELSE f \o header(j) \o body(j), <<>>, SetToSeq(DOMAIN dbs))
       \o <<"EOF">>

\* Keys that are over are left out by a master; a slave waits for its master.
RECURSIVE rdbLoadRio(_, _, _, _, _)
rdbLoadRio(f, r, j, master, now) ==
    LET timed == f[1] = "EXPIRETIME_MS"
        expire == IF timed THEN f[2] ELSE NoExpire
        key == rdbGenericLoadStringObject(After(f, IF timed THEN 3 ELSE 1))
        keep == ~(master /\ timed /\ expire < now)
        size == rdbLoadLen(After(f, 1))
    IN CASE f[1] = "EOF" -> r
         [] f[1] = "AUX" -> rdbLoadRio(After(f, 3), [r EXCEPT !.select = f[3]], j, master, now)
         [] f[1] = "SELECTDB" -> rdbLoadRio(size.rest, r, size.len, master, now)
         [] f[1] = "RESIZEDB" -> rdbLoadRio(rdbLoadLen(size.rest).rest, r, j, master, now)
         [] OTHER -> rdbLoadRio(key.rest, IF keep THEN [r EXCEPT !.dbs[j] = (key.str :> expire) @@ @] ELSE r, j, master, now)
ReloadedDbs(r, master, now) ==
    rdbLoadRio(rdbSaveRio(r.dbs, r.select, r.now), [dbs |-> [j \in DOMAIN r.dbs |-> <<>>], select |-> NoExpire], 0, master, now)
=============================================================================
