----------------------------- MODULE RedisStrings -----------------------------
(***************************************************************************)
(* The commands on string values (t_string.c, bitops.c).                    *)
(*                                                                          *)
(* A string is a sequence of bytes.  A byte has BitsPerByte = 2 bits, and a *)
(* string of the one byte n + 2 is the decimal text of the number n, with n *)
(* between MinInt and MaxInt, the limits of a long long; the byte 0 is not  *)
(* a digit.  MaxLen stands for the 512 megabytes a string may have.         *)
(***************************************************************************)
EXTENDS RedisDb, FiniteSetsExt

MinInt == -1
MaxInt == 1
MaxLen == 2
BitsPerByte == 2

FromInt(n) == <<n + 2>>
IsInt(s) == Len(s) = 1 /\ s[1] # 0
ToInt(s) == s[1] - 2

\* getLongLongFromObject: a missing key counts as 0.
IntAt(x, p) == IF Has(x, p) THEN ToInt(Val(x, p)) ELSE 0
NotInt(x, p) == Has(x, p) /\ ~IsInt(Val(x, p))

checkStringLength(size) == size <= MaxLen
PutString(x, p, s) == IF Has(x, p) THEN dbOverwrite(x, p, "string", s) ELSE dbAdd(x, p, "string", s)

\* SET [NX | XX] [EX | PX], SETNX, SETEX and PSETEX: "cond" is "", "nx" or
\* "xx", "ttl" is 0 without a time to live.
SetOn(x, c, p) ==
    IF (c.cond = "nx" /\ Has(x, p)) \/ (c.cond = "xx" /\ ~Has(x, p)) THEN x
    ELSE LET y == Dirty(setKey(x, p, "string", c.val)) IN
         IF c.ttl > 0 THEN setExpire(y, p, x.now + c.ttl) ELSE y
setGenericCommand(x, c, p) ==
    IF c.ttl < 0 THEN x ELSE SetOn(IF c.cond = "" THEN x ELSE lookupKeyWrite(x, p), c, p)

SetCommand(k, v, d) == [op |-> "SET", db |-> d, key |-> k, val |-> v, cond |-> "", ttl |-> 0]

StringAt(x, p) == IF Is(x, p, "string") THEN Val(x, p) ELSE None
getGenericCommand(x, c, p) == Reply(x, StringAt(x, p))

getsetCommand(x, c, p) ==
    IF WrongType(x, p, "string") THEN x
    ELSE Dirty(setKey(getGenericCommand(x, c, p), p, "string", c.val))

ZeroPadded(s, n) == [i \in 1..Max({n, Len(s)}) |-> IF i <= Len(s) THEN s[i] ELSE 0]

SetRange(x, c, p, old) ==
    LET grown == ZeroPadded(old, c.offset + Len(c.val))
        new == [i \in 1..Len(grown) |-> IF i - c.offset \in 1..Len(c.val)
                                        THEN c.val[i - c.offset] ELSE grown[i]]
    IN IF \/ WrongType(x, p, "string")
          \/ c.val = <<>>
          \/ ~checkStringLength(c.offset + Len(c.val)) THEN x
       ELSE Modified(PutString(x, p, new), p)
SetRangeOn(x, c, p) == SetRange(x, c, p, IF Has(x, p) THEN Val(x, p) ELSE <<>>)
setrangeCommand(x, c, p) == IF c.offset < 0 THEN x ELSE SetRangeOn(lookupKeyWrite(x, p), c, p)

\* The bounds that GETRANGE and BITCOUNT make of their arguments: 0-based,
\* from the end when negative, and cut to the string.
RangeStart(start, len) == LET s == IF start < 0 THEN len + start ELSE start IN
                          IF s < 0 THEN 0 ELSE s
RangeEnd(end, len) == LET e == RangeStart(end, len) IN IF e >= len THEN len - 1 ELSE e
Reversed(start, end) == start < 0 /\ end < 0 /\ start > end

getrangeCommand(x, c, p) ==
    LET s == StringAt(x, p)
        start == RangeStart(c.start, Len(s))
        end == RangeEnd(c.end, Len(s))
    IN IF s = None \/ Reversed(c.start, c.end) THEN Reply(x, <<>>)
       ELSE Reply(x, IF start > end \/ Len(s) = 0 THEN <<>> ELSE SubSeq(s, start + 1, end + 1))

mgetCommand(x0) ==
    LET one(x1, k) == LET x == lookupKeyWrite(x1, At(x1, k)) IN
                      Reply(x, Append(x.reply, IF Is(x, At(x, k), "string")
                                               THEN Val(x, At(x, k)) ELSE None))
    IN FoldLeft(one, Reply(x0, <<>>), x0.argv.keys)

\* MSET and MSETNX; "pairs" lists keys with their values.
msetGenericCommand(x0) ==
    LET c == x0.argv
        place(kv) == At(x0, kv[1])
        x == IF c.nx THEN FoldLeft(LAMBDA y, kv : lookupKeyWrite(y, place(kv)), x0, c.pairs) ELSE x0
    IN IF c.nx /\ \E i \in DOMAIN c.pairs : Has(x, place(c.pairs[i])) THEN x
       ELSE Dirty(FoldLeft(LAMBDA y, kv : setKey(y, place(kv), "string", kv[2]), x, c.pairs))

\* INCR, DECR, INCRBY and DECRBY.
incrDecrCommand(x, c, p) ==
    LET incr == c.incr
        value == IntAt(x, p)
        new == FromInt(value + incr)
    IN IF WrongType(x, p, "string") \/ NotInt(x, p) THEN x
       ELSE IF \/ incr < 0 /\ value < 0 /\ incr < MinInt - value
               \/ incr > 0 /\ value > 0 /\ incr > MaxInt - value THEN x
       ELSE Reply(Modified(PutString(x, p, new), p), new)

\* Floats are numbers of the same small range here, its limits standing for
\* the infinities.  The command is propagated as a SET of the result.
incrbyfloatCommand(x, c, p) ==
    LET value == IntAt(x, p) + c.incr
        new == FromInt(value)
        y == Modified(PutString(x, p, new), p)
    IN IF WrongType(x, p, "string") \/ NotInt(x, p) \/ value \notin MinInt..MaxInt THEN x
       ELSE [y EXCEPT !.argv = SetCommand(c.key, new, c.db)]

appendCommand(x, c, p) ==
    CASE ~Has(x, p) -> Modified(dbAdd(x, p, "string", c.val), p)
      [] WrongType(x, p, "string") -> x
      [] OTHER -> IF ~checkStringLength(Len(Val(x, p)) + Len(c.val)) THEN x
                  ELSE Modified(dbOverwrite(x, p, "string", Val(x, p) \o c.val), p)

strlenCommand(x, c, p) == Reply(x, IF Is(x, p, "string") THEN Len(Val(x, p)) ELSE 0)

(* ---- bits ---- *)

\* Bit i of a string: the most significant bit of a byte comes first, and
\* beyond the end every bit is 0.
Bit(s, i) == LET byte == (i \div BitsPerByte) + 1 IN
             IF byte > Len(s) THEN 0
             ELSE (s[byte] \div (2 ^ (BitsPerByte - 1 - (i % BitsPerByte)))) % 2
Number(bits) == FoldLeft(LAMBDA v, b : 2 * v + b, 0, bits)
FromBits(bit(_), len) ==
    [n \in 1..len |-> Number([j \in 1..BitsPerByte |-> bit(BitsPerByte * (n - 1) + j - 1)])]

getUnsignedBitfield(s, offset, bits) == Number([j \in 1..bits |-> Bit(s, offset + j - 1)])
getSignedBitfield(s, offset, bits) ==
    LET u == getUnsignedBitfield(s, offset, bits) IN
    IF u >= 2 ^ (bits - 1) THEN u - 2 ^ bits ELSE u

\* A negative value is cast to unsigned: its low bits are those mod 2^bits.
setUnsignedBitfield(s, offset, bits, value) ==
    FromBits(LAMBDA i : IF i - offset \in 0..(bits - 1)
                        THEN ((value % (2 ^ bits)) \div (2 ^ (bits - 1 - (i - offset)))) % 2
                        ELSE Bit(s, i), Len(s))

\* The value a field takes: [new, fails].  "ow" is the overflow policy.
checkUnsignedBitfieldOverflow(value, incr, bits, ow) ==
    LET max == 2 ^ bits - 1
        over == value > max \/ (incr > 0 /\ incr > max - value)
        under == ~over /\ incr < 0 /\ incr < -value
    IN [new |-> CASE (over \/ under) /\ ow = "wrap" -> (value + incr) % (2 ^ bits)
                  [] over /\ ow = "sat" -> max
                  [] under /\ ow = "sat" -> 0
                  [] OTHER -> value + incr,
        fails |-> (over \/ under) /\ ow = "fail"]
checkSignedBitfieldOverflow(value, incr, bits, ow) ==
    LET max == 2 ^ (bits - 1) - 1
        min == -max - 1
        over == value > max \/ incr > max - value
        under == ~over /\ (value < min \/ incr < min - value)
        low == (value + incr) % (2 ^ bits)
    IN [new |-> CASE (over \/ under) /\ ow = "wrap" ->
                       IF low >= 2 ^ (bits - 1) THEN low - 2 ^ bits ELSE low
                  [] over /\ ow = "sat" -> max
                  [] under /\ ow = "sat" -> min
                  [] OTHER -> value + incr,
        fails |-> (over \/ under) /\ ow = "fail"]

\* The string, made or padded with zeroes so that it has the bit maxbit.
PaddedString(x, p, len) ==
    IF ~Has(x, p) THEN dbAdd(x, p, "string", ZeroPadded(<<>>, len))
    ELSE IF WrongType(x, p, "string") THEN x
    ELSE dbOverwrite(x, p, "string", ZeroPadded(Val(x, p), len))
lookupStringForBitCommand(x, p, maxbit) == PaddedString(lookupKeyWrite(x, p), p, (maxbit \div BitsPerByte) + 1)

getBitOffsetFromArgument(offset) == offset >= 0 /\ offset \div BitsPerByte < MaxLen

SetBit(x, c, p) ==
    IF WrongType(x, p, "string") THEN x
    ELSE Reply(Modified(dbOverwrite(x, p, "string", setUnsignedBitfield(Val(x, p), c.offset, 1, c.on)), p),
               Bit(Val(x, p), c.offset))
setbitCommand(x, c, p) ==
    IF ~getBitOffsetFromArgument(c.offset) \/ c.on \notin {0, 1} THEN x
    ELSE SetBit(lookupStringForBitCommand(x, p, c.offset), c, p)

getbitCommand(x0, c, p) ==
    LET x == lookupKeyWrite(x0, p) IN
    IF ~getBitOffsetFromArgument(c.offset) THEN x0
    ELSE Reply(x, IF Is(x, p, "string") THEN Bit(Val(x, p), c.offset) ELSE 0)

\* BITOP AND | OR | XOR | NOT; the result has the length of the longest source.
BitOf(c, srcs, j) ==
    LET bits == {i \in DOMAIN srcs : Bit(srcs[i], j) = 1} IN
    CASE c.bop = "and" -> IF bits = DOMAIN srcs THEN 1 ELSE 0
      [] c.bop = "or" -> IF bits # {} THEN 1 ELSE 0
      [] c.bop = "xor" -> Cardinality(bits) % 2
      [] c.bop = "not" -> 1 - Bit(srcs[1], j)
BitopStore(x, c, p, srcs) ==
    LET maxlen == Max({Len(srcs[i]) : i \in DOMAIN srcs}) IN
    IF maxlen > 0 THEN Dirty(setKey(x, p, "string", FromBits(LAMBDA j : BitOf(c, srcs, j), maxlen)))
    ELSE Dirty(IF Has(x, p) THEN Touch(dbDelete(x, p), p) ELSE x)
BitopOn(r, c) ==
    IF ~r.ok THEN r.x
    ELSE BitopStore(r.x, c, At(r.x, c.dst),
                    [i \in DOMAIN c.keys |-> LET s == StringAt(r.x, At(r.x, c.keys[i])) IN IF s = None THEN <<>> ELSE s])
bitopCommand(x, c) ==
    IF c.bop = "not" /\ Len(c.keys) # 1 THEN x
    ELSE BitopOn(lookupTyped(x, PlacesOf(x, c.keys), {"string"}), c)

bitcountCommand(x, c, p) ==
    LET s == StringAt(x, p)
        bytes == RangeStart(c.start, Len(s))..RangeEnd(c.end, Len(s))
    IN IF s = None \/ Reversed(c.start, c.end) THEN Reply(x, 0)
       ELSE Reply(x, Cardinality({i \in 0..(BitsPerByte * Len(s) - 1) :
                                    Bit(s, i) = 1 /\ i \div BitsPerByte \in bytes}))

\* BITPOS key bit start [end]: without an end the zeroes go on for ever.
bitposCommand(x, c, p) ==
    LET s == StringAt(x, p)
        start == RangeStart(c.start, Len(s))
        end == RangeEnd(IF c.end = None THEN Len(s) - 1 ELSE c.end, Len(s))
        found == {i \in (BitsPerByte * start)..(BitsPerByte * (end + 1) - 1) : Bit(s, i) = c.bit}
    IN IF WrongType(x, p, "string") THEN x
       ELSE Reply(x, CASE s = None -> IF c.bit = 1 THEN -1 ELSE 0
                       [] s # None /\ start > end -> -1
                       [] s # None /\ start <= end /\ found # {} -> Min(found)
                       [] OTHER -> IF c.bit = 1 \/ c.end # None THEN -1
                                   ELSE BitsPerByte * (end + 1))

\* BITFIELD key with one operation: "kind" is "get", "set" or "incrby",
\* "sign" tells signed from unsigned fields of "bits" bits.
FieldIn(s, c) == IF c.sign THEN getSignedBitfield(s, c.offset, c.bits) ELSE getUnsignedBitfield(s, c.offset, c.bits)
CheckOverflow(value, incr, c) == IF c.sign THEN checkSignedBitfieldOverflow(value, incr, c.bits, c.ow)
                                 ELSE checkUnsignedBitfieldOverflow(value, incr, c.bits, c.ow)
SetField(x, c, p, s, old, r) ==
    Reply(Modified(IF r.fails THEN x
                   ELSE dbOverwrite(x, p, "string", setUnsignedBitfield(s, c.offset, c.bits, r.new)), p),
          IF r.fails THEN None ELSE IF c.kind = "set" THEN old ELSE r.new)
Bitfield(x, c, p, s, old) ==
    IF WrongType(x, p, "string") THEN x
    ELSE IF c.kind = "get" THEN Reply(x, old)
    ELSE SetField(x, c, p, s, old, IF c.kind = "incrby" THEN CheckOverflow(old, c.value, c)
                                   ELSE CheckOverflow(c.value, 0, c))
BitfieldAt(x, c, p, s) == Bitfield(x, c, p, s, FieldIn(s, c))
BitfieldOn(x, c, p) == BitfieldAt(x, c, p, IF Has(x, p) THEN Val(x, p) ELSE <<>>)
bitfieldCommand(x, c, p) ==
    IF ~getBitOffsetFromArgument(c.offset) THEN x
    ELSE BitfieldOn(IF c.kind = "get" THEN lookupKeyWrite(x, p)
                    ELSE lookupStringForBitCommand(x, p, c.offset + c.bits - 1), c, p)
=============================================================================
