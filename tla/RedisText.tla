------------------------------ MODULE RedisText ------------------------------
(***************************************************************************)
(* Strings: the header and the growth of an sds (sds.c), words in quotes,   *)
(* numbers and glob patterns (util.c), and the lines of the configuration   *)
(* file (config.c).  A character is a name, CR and LF among them.           *)
(***************************************************************************)
EXTENDS Integers, SequencesExt, FiniteSetsExt

CR == "CR"
LF == "LF"
NUL == "NUL"
Blank == {" ", CR, LF}
DQ == "dq"      \* a double quote
SQ == "sq"      \* a single quote
BS == "bs"      \* a backslash

Drop(s, n) == SubSeq(s, n + 1, Len(s))
LeastOrZero(at) == IF at = {} THEN 0 ELSE Min(at)
\* strchr: the place of the first ch after offset pos, or 0.
Find(s, ch, pos) == LeastOrZero({i \in (pos + 1)..Len(s) : s[i] = ch})

(* ---- strings that grow ---- *)

\* An sds is [type, len, alloc, cs]: how large its header is, the two numbers
\* in it and the characters; "size" is what was allocated for all of it.  The
\* numbers have 2, 3 and 6 bits for 5, 8 and 16; type 1 has no "alloc".
Capacity == <<4, 8, 64>>
sdsHdrSize(type) == <<1, 3, 5>>[type]
sdsReqType(n) == CHOOSE t \in 1..3 : n < Capacity[t] /\ \A u \in 1..(t - 1) : n >= Capacity[u]
MaxPrealloc == 8    \* SDS_MAX_PREALLOC

sdslen(s) == s.len
sdsalloc(s) == IF s.type = 1 THEN s.len ELSE s.alloc
sdsavail(s) == IF s.type = 1 THEN 0 ELSE s.alloc - s.len
sdssetlen(s, n) == [s EXCEPT !.len = n % Capacity[s.type]]
sdssetalloc(s, n) == IF s.type = 1 THEN s ELSE [s EXCEPT !.alloc = n % Capacity[s.type]]

\* An empty string will be appended to.
sdsnewlen(cs) ==
    LET n == Len(cs)
        type == IF n = 0 THEN 2 ELSE sdsReqType(n)
    IN sdssetalloc(sdssetlen([type |-> type, len |-> 0, alloc |-> 0, cs |-> cs, size |-> sdsHdrSize(type) + n + 1], n), n)

\* The same string in a block for n characters behind a header of that type.
Moved(s, type, n) ==
    sdssetalloc(sdssetlen([s EXCEPT !.type = type, !.alloc = 0, !.size = sdsHdrSize(type) + n + 1], s.len), n)
sdsMakeRoomFor(s, addlen) ==
    LET want == s.len + addlen
        newlen == IF want < MaxPrealloc THEN want * 2 ELSE want + MaxPrealloc
        type == Max({2, sdsReqType(newlen)})
    IN IF sdsavail(s) >= addlen THEN s ELSE Moved(s, type, newlen)
\* A header that is still needed, or only a little too large, stays.
sdsRemoveFreeSpace(s) ==
    LET type == sdsReqType(s.len) IN
    Moved(s, IF type > 2 THEN s.type ELSE type, s.len)

Written(s, cs) == sdssetlen([s EXCEPT !.cs = cs], Len(cs))
sdscatlen(s, t) == Written(sdsMakeRoomFor(s, Len(t)), s.cs \o t)
sdscpylen(s, t) == Written(IF sdsalloc(s) < Len(t) THEN sdsMakeRoomFor(s, Len(t) - s.len) ELSE s, t)
sdsgrowzero(s, n) == IF n <= s.len THEN s
                     ELSE Written(sdsMakeRoomFor(s, n - s.len), s.cs \o [i \in 1..(n - s.len) |-> NUL])
sdsclear(s) == Written(s, <<>>)
sdsIncrLen(s, incr) == Written(s, SubSeq(s.cs, 1, s.len + incr))
sdstrim(s, cset) ==
    LET kept == {i \in 1..s.len : s.cs[i] \notin cset} IN
    Written(s, IF kept = {} THEN <<>> ELSE SubSeq(s.cs, Min(kept), Max(kept)))
\* Both ends may count from the end; a range that is out of the string is empty.
sdsrange(s, start, end) ==
    LET From(i) == IF i >= 0 THEN i ELSE IF s.len + i < 0 THEN 0 ELSE s.len + i
        to == Min({From(end), s.len - 1})
    IN IF s.len = 0 THEN s ELSE Written(s, SubSeq(s.cs, From(start) + 1, to + 1))

SdsOK(s) == /\ s.len = Len(s.cs) /\ s.len <= sdsalloc(s)
            /\ sdsHdrSize(s.type) + sdsalloc(s) + 1 <= s.size

\* An empty string has no parts.
RECURSIVE Parts(_, _)
Parts(s, sep) ==
    LET at == {j \in 1..(Len(s) - Len(sep) + 1) : SubSeq(s, j, j + Len(sep) - 1) = sep} IN
    IF at = {} THEN <<s>>
    ELSE <<SubSeq(s, 1, Min(at) - 1)>> \o Parts(Drop(s, Min(at) + Len(sep) - 1), sep)
sdssplitlen(s, sep) == IF s = <<>> THEN <<>> ELSE Parts(s, sep)
sdsjoinsds(tokens, sep) ==
    FoldLeft(LAMBDA s, j : s \o tokens[j] \o (IF j = Len(tokens) THEN <<>> ELSE sep), <<>>, [j \in DOMAIN tokens |-> j])

(* ---- numbers and words ---- *)

Digits == <<"0", "1", "2", "3", "4", "5", "6", "7", "8", "9">>
DigitValue(ch) == CHOOSE d \in 0..9 : Digits[d + 1] = ch
Digital(s) == \A i \in DOMAIN s : s[i] \in ToSet(Digits)
DigitsToInt(ds) == FoldLeft(LAMBDA v, ch : 10 * v + DigitValue(ch), 0, ds)
NoNumber == [ok |-> FALSE, v |-> 0]
UnsignedNumber(ds, sign) ==
    IF ds = <<>> THEN NoNumber
    ELSE IF Digital(ds) /\ ds[1] # "0" THEN [ok |-> TRUE, v |-> sign * DigitsToInt(ds)] ELSE NoNumber
string2ll(s) ==
    IF s = <<"0">> THEN [ok |-> TRUE, v |-> 0]
    ELSE IF s # <<>> /\ Head(s) = "-" THEN UnsignedNumber(Tail(s), -1) ELSE UnsignedNumber(s, 1)

\* Two digits at a time, from the right.
RECURSIVE ll2string(_)
ll2string(v) == IF v < 0 THEN <<"-">> \o ll2string(-v)
                ELSE IF v < 10 THEN <<Digits[v + 1]>>
                ELSE IF v < 100 THEN ll2string(v \div 10) \o ll2string(v % 10)
                ELSE ll2string(v \div 100) \o ll2string((v % 100) \div 10) \o ll2string(v % 10)

\* One digit at a time, turned round at the end.
RECURSIVE DigitsBack(_)
DigitsBack(v) == <<Digits[(v % 10) + 1]>> \o IF v < 10 THEN <<>> ELSE DigitsBack(v \div 10)
sdsll2str(v) == Reverse(DigitsBack(IF v < 0 THEN -v ELSE v) \o IF v < 0 THEN <<"-">> ELSE <<>>)
\* A format is a sequence of characters, strings and numbers; there is always
\* room for one character.
Formatted(s, item) ==
    LET room == IF sdsavail(s) = 0 THEN sdsMakeRoomFor(s, 1) ELSE s
        text == CASE item.kind = "char" -> <<item.v>> [] item.kind = "str" -> item.v [] item.kind = "num" -> sdsll2str(item.v)
        fits == IF item.kind # "char" /\ sdsavail(room) < Len(text) THEN sdsMakeRoomFor(room, Len(text)) ELSE room
    IN Written(fits, s.cs \o text)
sdscatfmt(s, fmt) == FoldLeft(Formatted, s, fmt)

\* An amount of memory with its unit, if it can be written with one.
Units == <<<<"g", "b">>, <<"m", "b">>, <<"k", "b">>>>
Bytes == <<1073741824, 1048576, 1024>>
rewriteConfigFormatMemory(bytes) ==
    LET whole == {i \in 1..3 : bytes # 0 /\ bytes % Bytes[i] = 0} IN
    IF whole = {} THEN ll2string(bytes) ELSE ll2string(bytes \div Bytes[Min(whole)]) \o Units[Min(whole)]
memtoll(s) ==
    LET ends == {i \in DOMAIN s : s[i] \notin ToSet(Digits) /\ ~(i = 1 /\ s[i] = "-")}
        u == IF ends = {} THEN Len(s) + 1 ELSE Min(ends)
        unit == Drop(s, u - 1)
        mul == CASE unit \in {<<>>, <<"b">>} -> 1 [] unit = <<"k">> -> 1000 [] unit = <<"m">> -> 1000000
                 [] unit = <<"g">> -> 1000000000 [] unit \in ToSet(Units) -> Bytes[CHOOSE i \in 1..3 : Units[i] = unit]
                 [] OTHER -> 0
        n == string2ll(SubSeq(s, 1, u - 1))
    IN [ok |-> mul # 0 /\ n.ok, v |-> n.v * mul]

\* The part of a key that is hashed to its slot.
keyHashSlot(key) ==
    LET s == Find(key, "{", 0)
        e == Find(key, "}", s)
    IN IF s = 0 \/ e = 0 \/ e = s + 1 THEN key ELSE SubSeq(key, s + 1, e - 1)

\* A string in quotes.  The only character that is not printable is NUL.
sdscatrepr(s) ==
    LET Repr(ch) == CASE ch \in {BS, DQ} -> <<BS, ch>>
                      [] ch = LF -> <<BS, "n">> [] ch = CR -> <<BS, "r">>
                      [] ch = NUL -> <<BS, "x", "0", "0">> [] OTHER -> <<ch>>
    IN <<DQ>> \o FlattenSeq([i \in DOMAIN s |-> Repr(s[i])]) \o <<DQ>>

\* The words of a line from offset i on, with the one under way: outside of
\* quotes, inside of them, or between two words.
RECURSIVE Words(_, _, _, _)
Words(line, i, word, mode) ==
    LET end == i > Len(line)
        ch == line[i]
        next == IF i + 1 > Len(line) THEN " " ELSE line[i + 1]
        escaped == i < Len(line) /\ ch = BS
        hex == i + 3 <= Len(line) /\ ch = BS /\ SubSeq(line, i + 1, i + 3) = <<"x", "0", "0">>
        Escape(e) == CASE e = "n" -> LF [] e = "r" -> CR [] OTHER -> e
        More(rest) == IF rest.ok THEN [rest EXCEPT !.argv = <<word>> \o @] ELSE rest
        Quoted(quote) ==
            IF end THEN [ok |-> FALSE, argv |-> <<>>]
            ELSE IF hex /\ quote = DQ THEN Words(line, i + 4, Append(word, NUL), mode)
            ELSE IF escaped /\ (quote = DQ \/ next = SQ)
                 THEN Words(line, i + 2, Append(word, IF quote = DQ THEN Escape(next) ELSE next), mode)
            ELSE IF ch # quote THEN Words(line, i + 1, Append(word, ch), mode)
            ELSE IF next \in Blank THEN More(Words(line, i + 1, <<>>, "blank"))
            ELSE [ok |-> FALSE, argv |-> <<>>]
    IN CASE mode = "blank" -> IF end THEN [ok |-> TRUE, argv |-> <<>>]
                              ELSE Words(line, IF ch \in Blank THEN i + 1 ELSE i, <<>>,
                                         IF ch \in Blank THEN "blank" ELSE "word")
         [] mode = "word" -> IF end \/ ch \in Blank THEN More(Words(line, i + 1, <<>>, "blank"))
                             ELSE Words(line, i + 1, IF ch \in {DQ, SQ} THEN word ELSE Append(word, ch),
                                        IF ch \in {DQ, SQ} THEN ch ELSE "word")
         [] mode \in {DQ, SQ} -> Quoted(mode)
sdssplitargs(line) == Words(line, 1, <<>>, "blank")

(* ---- patterns ---- *)

Order == <<"-", "A", "B", "C", "]", "^", "a", "b", "c">>
Place(ch) == SelectInSeq(Order, LAMBDA x : x = ch)
tolower(ch) == CASE ch = "A" -> "a" [] ch = "B" -> "b" [] ch = "C" -> "c" [] OTHER -> ch
Same(x, y, nocase) == IF nocase THEN tolower(x) = tolower(y) ELSE x = y

\* A class of characters, from after its bracket on: whether it holds ch and
\* what follows it.  A class that is not closed ends with the pattern.
RECURSIVE Class(_, _, _)
Class(p, ch, nocase) ==
    LET Low(x) == Place(IF nocase THEN tolower(x) ELSE x)
        between == LET start == IF Place(p[1]) > Place(p[3]) THEN p[3] ELSE p[1]
                       end == IF start = p[1] THEN p[3] ELSE p[1]
                   IN Low(start) <= Low(ch) /\ Low(ch) <= Low(end)
        More(n, match) == LET rest == Class(Drop(p, n), ch, nocase) IN [rest EXCEPT !.match = @ \/ match]
    IN IF p = <<>> THEN [match |-> FALSE, rest |-> <<>>]
       ELSE IF p[1] = BS /\ Len(p) >= 2 THEN More(2, p[2] = ch)
       ELSE IF p[1] = "]" THEN [match |-> FALSE, rest |-> Tail(p)]
       ELSE IF Len(p) >= 3 /\ p[2] = "-" THEN More(3, between)
       ELSE More(1, Same(p[1], ch, nocase))

\* After a character is matched, a string that is used up leaves only stars.
\* A string that is empty from the start is matched by stars alone (the code
\* reads past its end when a class of the pattern is negated).
RECURSIVE stringmatchlen(_, _, _)
stringmatchlen(p, s, nocase) ==
    LET RECURSIVE Stars(_)
        Stars(q) == IF q # <<>> /\ q[1] = "*" THEN Stars(Tail(q)) ELSE q
        Next(q) == IF Len(s) = 1 THEN Stars(q) = <<>> ELSE stringmatchlen(q, Tail(s), nocase)
        not == Len(p) > 1 /\ p[2] = "^"
        class == Class(Drop(p, IF not THEN 2 ELSE 1), s[1], nocase)
        literal == IF p[1] = BS /\ Len(p) >= 2 THEN 2 ELSE 1
    IN IF p = <<>> THEN s = <<>>
       ELSE IF p[1] = "*" THEN \/ Stars(p) = <<>>
                               \/ \E i \in 0..(Len(s) - 1) : stringmatchlen(Stars(p), Drop(s, i), nocase)
       ELSE IF s = <<>> THEN FALSE
       ELSE IF p[1] = "?" THEN Next(Tail(p))
       ELSE IF p[1] = "[" THEN class.match # not /\ Next(class.rest)
       ELSE Same(p[literal], s[1], nocase) /\ Next(Drop(p, literal))

(* ---- the configuration file ---- *)

\* How it is loaded, and how CONFIG REWRITE brings it up to date while its
\* comments stay.  A line is the name of its directive and its arguments;
\* "num" stands for the options that always have a value, "str" for those
\* that may have none.
Line(name, args) == [name |-> name, args |-> args]
BlankLine == Line("", <<>>)
Signature == Line("#", <<0>>)       \* # Generated by CONFIG REWRITE
Padding == Line("#", <<-1>>)        \* ####...
Unparsable(line) == Line("#", <<-2>> \o line.args)
Options == {"num", "str", "save", "slaveof", "limit"}
Defaults == [num |-> 0, str |-> 0, save |-> <<>>, slaveof |-> 0, limit |-> <<0, 0>>]

\* One line of the file: each "save" adds a pair, "save" with an empty string
\* removes them; a line that cannot be split into words is an error.
Directive(state, line) ==
    CASE line.name = "num" -> [state EXCEPT !.conf.num = line.args[1]]
      [] line.name = "str" -> [state EXCEPT !.conf.str = line.args[1]]
      [] line.name = "save" -> [state EXCEPT !.conf.save = IF line.args = <<>> THEN <<>> ELSE @ \o line.args]
      [] line.name = "slaveof" -> [state EXCEPT !.conf.slaveof = line.args[1]]
      [] line.name = "limit" -> [state EXCEPT !.conf.limit[line.args[1]] = line.args[2]]
      [] line.name = "?" -> [state EXCEPT !.ok = FALSE]
      [] OTHER -> state
loadServerConfigFromString(file) == FoldLeft(Directive, [ok |-> TRUE, conf |-> Defaults], file)

configSetCommand(conf, option, v) == IF option = "limit" THEN [conf EXCEPT !.limit[v[1]] = v[2]] ELSE [conf EXCEPT ![option] = v]

\* The state of a rewrite: the lines, for each option those of its lines that
\* were not used again yet, and the options that were dealt with.
rewriteConfigReadOldFile(file) ==
    [lines |-> [i \in DOMAIN file |-> IF file[i].name = "?" THEN Unparsable(file[i]) ELSE file[i]] \o <<>>,
     option_to_line |-> [o \in Options |-> SelectSeq([i \in DOMAIN file |-> i], LAMBDA i : file[i].name = o)],
     rewritten |-> {},
     has_tail |-> \E i \in DOMAIN file : file[i] = Signature]
rewriteConfigMarkAsProcessed(st, option) == [st EXCEPT !.rewritten = @ \cup {option}]
rewriteConfigRewriteLine(st, option, args, force) ==
    LET s == rewriteConfigMarkAsProcessed(st, option)
        l == s.option_to_line[option]
        line == Line(option, args)
    IN IF l # <<>> THEN [s EXCEPT !.lines[Head(l)] = line, !.option_to_line[option] = Tail(l)]
       ELSE IF ~force THEN s
       ELSE [s EXCEPT !.lines = (IF s.has_tail THEN @ ELSE Append(@, Signature)) \o <<line>>, !.has_tail = TRUE]

rewriteConfigNumericalOption(st, option, value, defvalue) == rewriteConfigRewriteLine(st, option, <<value>>, value # defvalue)
\* An option without a value is not in the file at all.
rewriteConfigStringOption(st, option, value) ==
    IF value = 0 THEN rewriteConfigMarkAsProcessed(st, option) ELSE rewriteConfigRewriteLine(st, option, <<value>>, TRUE)
rewriteConfigSaveOption(st, save) ==
    rewriteConfigMarkAsProcessed(FoldLeft(LAMBDA s, p : rewriteConfigRewriteLine(s, "save", <<p>>, TRUE), st, save), "save")
rewriteConfigClientoutputbufferlimitOption(st, limit) ==
    FoldLeft(LAMBDA s, j : rewriteConfigRewriteLine(s, "limit", <<j, limit[j]>>, limit[j] # Defaults.limit[j]), st, <<1, 2>>)

\* What is left of the lines of an option that was dealt with is blanked.
rewriteConfigRemoveOrphaned(st) ==
    LET orphans == UNION {ToSet(st.option_to_line[o]) : o \in st.rewritten} IN
    [st EXCEPT !.lines = [i \in DOMAIN @ |-> IF i \in orphans THEN BlankLine ELSE @[i]] \o <<>>]
rewriteConfigGetContentFromState(st) ==
    FoldLeft(LAMBDA content, line : IF line = BlankLine /\ content # <<>> /\ Last(content) = BlankLine THEN content
                                    ELSE Append(content, line), <<>>, st.lines)
\* One write of the content, padded to the size of the old file, which is then
\* cut off: a process that is stopped in between leaves the padding.
rewriteConfigOverwriteFile(file, content, stopped) ==
    IF stopped /\ Len(content) < Len(file) THEN Append(content, Padding) ELSE content
rewriteConfig(file, conf, stopped) ==
    LET s0 == rewriteConfigReadOldFile(file)
        s1 == rewriteConfigNumericalOption(s0, "num", conf.num, Defaults.num)
        s2 == rewriteConfigSaveOption(s1, conf.save)
        s3 == rewriteConfigStringOption(s2, "slaveof", conf.slaveof)
        s4 == rewriteConfigStringOption(s3, "str", conf.str)
        s5 == rewriteConfigClientoutputbufferlimitOption(s4, conf.limit)
    IN rewriteConfigOverwriteFile(file, rewriteConfigGetContentFromState(rewriteConfigRemoveOrphaned(s5)), stopped)

\* The lines that are not the server's: comments and what it does not rewrite.
KeptLines(file) ==
    LET foreign == SelectSeq(file, LAMBDA line : /\ line.name \in {"#", "?", "other"}
                                                 /\ line \notin {Signature, Padding})
    IN [i \in DOMAIN foreign |-> IF foreign[i].name = "?" THEN Unparsable(foreign[i]) ELSE foreign[i]] \o <<>>
=============================================================================
