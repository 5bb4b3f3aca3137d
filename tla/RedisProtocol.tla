---------------------------- MODULE RedisProtocol ----------------------------
(***************************************************************************)
(* A connection (networking.c): requests taken out of the bytes that read() *)
(* happens to return, and replies put into the buffers that write() happens *)
(* to empty.  A byte of a request is a character, CR and LF two of them; a  *)
(* byte of a reply is a number.                                             *)
(***************************************************************************)
EXTENDS RedisText

CONSTANTS
    IoBuf,      \* PROTO_IOBUF_LEN: bytes asked of one read()
    BigArg,     \* PROTO_MBULK_BIG_ARG
    InlineMax,  \* PROTO_INLINE_MAX_SIZE
    MaxBulk,    \* proto_max_bulk_len
    MaxArgs,    \* the largest number of arguments
    Chunk,      \* PROTO_REPLY_CHUNK_BYTES
    MaxWrites   \* NET_MAX_WRITES_PER_EVENT

(* ---- requests ---- *)

NewQuery(stream, master) ==
    [stream |-> stream, master |-> master,   \* what the peer sends, and who it is
     pos |-> 0, buf |-> <<>>, reqtype |-> "none", multibulklen |-> 0, bulklen |-> -1, argv |-> <<>>,
     cmds |-> <<>>, blocked |-> FALSE, paused |-> FALSE, multi |-> FALSE, close |-> FALSE, open |-> TRUE,
     reploff |-> 0, pending |-> <<>>, relayed |-> <<>>]

\* The reply with the error is the last one; the buffer is cut to the error.
setProtocolError(c, pos) == [c EXCEPT !.close = TRUE, !.buf = Drop(@, pos)]
Failed(c, pos) == [ok |-> FALSE, c |-> setProtocolError(c, pos)]
Unready(c, pos) == [ok |-> FALSE, c |-> [c EXCEPT !.buf = Drop(@, pos)]]

resetClient(c) == [c EXCEPT !.argv = <<>>, !.reqtype = "none", !.multibulklen = 0, !.bulklen = -1]

TakeLine(c, querylen, words) ==
    IF ~words.ok THEN Failed(c, 0)
    ELSE [ok |-> TRUE, c |-> [c EXCEPT !.buf = Drop(@, querylen + 2),
                                       !.argv = SelectSeq(words.argv, LAMBDA w : w # <<>>)]]
InlineLine(c, querylen) == TakeLine(c, querylen, sdssplitargs(SubSeq(c.buf, 1, querylen)))
InlineUntil(c, newline) ==
    IF newline = 0 THEN IF Len(c.buf) > InlineMax THEN Failed(c, 0) ELSE Unready(c, 0)
    ELSE InlineLine(c, IF newline > 1 /\ c.buf[newline - 1] = CR THEN newline - 2 ELSE newline - 1)
processInlineBuffer(c) == InlineUntil(c, Find(c.buf, LF, 0))

\* A large argument is to start at the beginning of the buffer, so that the
\* buffer can become the argument once it holds nothing else.
SetBulkLength(c, pos, newline, ll) ==
    LET big == ll.v >= BigArg IN
    IF c.buf[pos + 1] # "$" \/ ~ll.ok \/ ll.v < 0 \/ ll.v > MaxBulk THEN Failed(c, pos)
    ELSE [ok |-> TRUE, pos |-> IF big THEN 0 ELSE newline + 1,
          c |-> [c EXCEPT !.bulklen = ll.v, !.buf = IF big THEN Drop(@, newline + 1) ELSE @]]
LineComplete(c, newline) == newline # 0 /\ newline < Len(c.buf)
LineMissing(c, pos, newline) == IF newline = 0 /\ Len(c.buf) > InlineMax THEN Failed(c, 0) ELSE Unready(c, pos)
BulkLengthLine(c, pos, newline) ==
    IF LineComplete(c, newline) THEN SetBulkLength(c, pos, newline, string2ll(SubSeq(c.buf, pos + 2, newline - 1)))
    ELSE LineMissing(c, pos, newline)
ReadBulkLength(c, pos) == BulkLengthLine(c, pos, Find(c.buf, CR, pos))
BufferIsArgument(c, pos) == pos = 0 /\ c.bulklen >= BigArg /\ Len(c.buf) = c.bulklen + 2
TakeArgument(c, pos) ==
    LET whole == BufferIsArgument(c, pos)
        arg == IF whole THEN SubSeq(c.buf, 1, Len(c.buf) - 2) ELSE SubSeq(c.buf, pos + 1, pos + c.bulklen)
    IN [pos |-> IF whole THEN 0 ELSE pos + c.bulklen + 2,
        c |-> [c EXCEPT !.argv = Append(@, arg), !.buf = IF whole THEN <<>> ELSE @,
                        !.bulklen = -1, !.multibulklen = @ - 1]]
RECURSIVE ReadArguments(_, _), ReadArgument(_)
ReadArguments(c, pos) ==
    IF c.multibulklen = 0 THEN [ok |-> TRUE, c |-> [c EXCEPT !.buf = Drop(@, pos)]]
    ELSE ReadArgument(IF c.bulklen = -1 THEN ReadBulkLength(c, pos) ELSE [ok |-> TRUE, pos |-> pos, c |-> c])
ReadArgument(head) ==
    IF ~head.ok THEN head
    ELSE IF Len(head.c.buf) - head.pos < head.c.bulklen + 2 THEN Unready(head.c, head.pos)
    ELSE LET next == TakeArgument(head.c, head.pos) IN ReadArguments(next.c, next.pos)

StartMultibulk(c, newline, ll) ==
    IF ~ll.ok \/ ll.v > MaxArgs THEN Failed(c, 0)
    ELSE IF ll.v <= 0 THEN [ok |-> TRUE, c |-> [c EXCEPT !.buf = Drop(@, newline + 1)]]
    ELSE [ok |-> TRUE, c |-> [c EXCEPT !.multibulklen = ll.v], pos |-> newline + 1]
MultibulkLine(c, newline) ==
    IF LineComplete(c, newline) THEN StartMultibulk(c, newline, string2ll(SubSeq(c.buf, 2, newline - 1)))
    ELSE LineMissing(c, 0, newline)
ReadFrom(start) ==
    IF start.ok /\ start.c.multibulklen > 0 THEN ReadArguments(start.c, start.pos) ELSE start
processMultibulkBuffer(c) ==
    ReadFrom(IF c.multibulklen > 0 THEN [ok |-> TRUE, c |-> c, pos |-> 0]
             ELSE MultibulkLine(c, Find(c.buf, CR, 0)))

\* The commands "multi", "exec" and one that blocks are told by their first
\* character.  A transaction of the master counts as applied when it is over.
processCommand(c) ==
    LET name == c.argv[1][1]
        ran == [c EXCEPT !.cmds = Append(@, c.argv), !.blocked = name = "b" /\ ~c.master,
                         !.multi = IF name = "m" THEN TRUE ELSE IF name = "e" THEN FALSE ELSE @]
    IN IF c.master /\ ~ran.multi THEN [ran EXCEPT !.reploff = c.pos - Len(c.buf)] ELSE ran

RECURSIVE processInputBuffer(_), HandleRequest(_)
RequestOf(c) == IF c.reqtype = "inline" THEN processInlineBuffer(c) ELSE processMultibulkBuffer(c)
TypeRequest(c) ==
    [c EXCEPT !.reqtype = IF @ # "none" THEN @ ELSE IF c.buf[1] = "*" THEN "multibulk" ELSE "inline"]
processInputBuffer(c) ==
    IF c.buf = <<>> \/ c.paused \/ c.blocked \/ c.close THEN c ELSE HandleRequest(RequestOf(TypeRequest(c)))
HandleRequest(request) ==
    IF ~request.ok THEN request.c
    ELSE processInputBuffer(resetClient(IF request.c.argv = <<>> THEN request.c ELSE processCommand(request.c)))

\* No more is asked for than a large argument still lacks.
ReadLen(c) ==
    LET remaining == c.bulklen + 2 - Len(c.buf) IN
    IF c.reqtype = "multibulk" /\ c.multibulklen > 0 /\ c.bulklen >= BigArg THEN Min({IoBuf, remaining}) ELSE IoBuf

\* What was applied of the master's stream goes on to the slaves of this one.
replicationFeedSlavesFromMasterStream(c, prev) ==
    LET applied == c.reploff - prev IN
    [c EXCEPT !.relayed = @ \o SubSeq(c.pending, 1, applied), !.pending = Drop(@, applied)]

\* read() returns some bytes; a read of no bytes looks like the end.
Relay(c, prev) == IF c.master THEN replicationFeedSlavesFromMasterStream(c, prev) ELSE c
readQueryFromClient(c, got) ==
    IF got = <<>> THEN [c EXCEPT !.open = FALSE]
    ELSE Relay(processInputBuffer([c EXCEPT !.pos = @ + Len(got), !.buf = @ \o got,
                                            !.pending = IF c.master THEN @ \o got ELSE @]), c.reploff)

\* A pause that ends, or a client that is unblocked: the buffer is looked at
\* again.
pauseClients(c) == [c EXCEPT !.paused = TRUE]
clientsArePaused(c) == processInputBuffer([c EXCEPT !.paused = FALSE])
processUnblockedClients(c) == processInputBuffer([c EXCEPT !.blocked = FALSE])

(* ---- replies ---- *)

\* "out" is what the peer received.
NewReply == [buf |-> <<>>, sentlen |-> 0, reply |-> <<>>, reply_bytes |-> 0, out |-> <<>>, deferred |-> <<>>,
             pending |-> FALSE, handler |-> FALSE, off |-> FALSE, skip |-> FALSE, skipNext |-> FALSE,
             close |-> FALSE, open |-> TRUE]
Word == [empty |-> <<>>, short |-> <<1>>, pair |-> <<2, 3>>, long |-> <<4, 5, 6, 7, 8>>]
Null == <<0>>       \* the place of a length that is not known yet
LengthOf == <<9>>   \* the length

clientHasPendingReplies(c) == c.buf # <<>> \/ c.reply # <<>>
Muted(c) == c.off \/ c.skip
prepareClientToWrite(c) == IF clientHasPendingReplies(c) THEN c ELSE [c EXCEPT !.pending = TRUE]

\* The static buffer takes the reply while the list is empty.
_addReplyToBuffer(c, s) == [c EXCEPT !.buf = @ \o s]
FitsBuffer(c, s) == c.reply = <<>> /\ Len(s) <= Chunk - Len(c.buf)
_addReplyStringToList(c, s) ==
    LET tail == Last(c.reply)
        joins == c.reply # <<>> /\ tail # Null /\ Len(tail) + Len(s) <= Chunk
    IN [c EXCEPT !.reply_bytes = @ + Len(s),
                 !.reply = IF joins THEN Append(Front(@), tail \o s) ELSE Append(@, s)]
addReplyString(c, s) ==
    IF Muted(c) THEN c
    ELSE LET p == prepareClientToWrite(c) IN
         IF p.close THEN p ELSE IF FitsBuffer(p, s) THEN _addReplyToBuffer(p, s) ELSE _addReplyStringToList(p, s)

\* "deferred" are the nodes of the lengths to come, 0 if nothing is sent.
addDeferredMultiBulkLength(c) ==
    IF Muted(c) THEN [c EXCEPT !.deferred = Append(@, 0)]
    ELSE LET p == prepareClientToWrite(c) IN
         [p EXCEPT !.reply = Append(@, Null), !.deferred = Append(@, Len(p.reply) + 1)]
setDeferredMultiBulkLength(c) ==
    LET ln == Last(c.deferred)
        glues == ln < Len(c.reply) /\ c.reply[ln + 1] # Null
        set == [c EXCEPT !.deferred = Front(@)]
    IN IF ln = 0 THEN set
       ELSE [set EXCEPT !.reply_bytes = @ + Len(LengthOf),
                        !.reply = IF glues THEN [RemoveAt(@, ln + 1) EXCEPT ![ln] = LengthOf \o c.reply[ln + 1]]
                                  ELSE [@ EXCEPT ![ln] = LengthOf]]

\* A command adds its replies one after the other; the client is made ready
\* for the next one, of which CLIENT REPLY SKIP drops the reply.
AddReplies(c, items) ==
    FoldLeft(LAMBDA r, item : IF item = "open" THEN addDeferredMultiBulkLength(r)
                              ELSE IF item = "close" THEN setDeferredMultiBulkLength(r)
                              ELSE addReplyString(r, Word[item]), c, items)
ResetReply(c) == [c EXCEPT !.skip = c.skipNext, !.skipNext = FALSE]
RunCommand(c, items) == ResetReply(AddReplies(c, items))
clientReplyCommand(c, mode) ==
    ResetReply(CASE mode = "on" -> AddReplies([c EXCEPT !.off = FALSE, !.skip = FALSE], <<"short">>)
                 [] mode = "off" -> [c EXCEPT !.off = TRUE]
                 [] mode = "skip" -> [c EXCEPT !.skipNext = ~c.off])
quitCommand(c) == ResetReply([AddReplies(c, <<"short">>) EXCEPT !.close = TRUE])

\* write() until the socket, with room for so many bytes, takes no more.
RECURSIVE Writes(_, _, _)
Sent(c, o, n, whole) ==
    [c EXCEPT !.out = @ \o SubSeq(o, c.sentlen + 1, c.sentlen + n), !.sentlen = IF whole THEN 0 ELSE @ + n,
              !.buf = IF whole THEN <<>> ELSE @,
              !.reply = IF c.buf = <<>> /\ whole THEN Tail(@) ELSE @,
              !.reply_bytes = IF c.buf = <<>> /\ whole THEN @ - Len(o) ELSE @]
WriteOn(c, room, total, n) ==
    IF total > MaxWrites THEN c ELSE Writes(c, room - n, total)
WriteSome(c, room, total, o, n) ==
    IF n = 0 THEN c ELSE WriteOn(Sent(c, o, n, c.sentlen + n = Len(o)), room, total + n, n)
WriteBlock(c, room, total, o) ==
    IF o = <<>> THEN Writes([c EXCEPT !.reply = Tail(@)], room, total)
    ELSE WriteSome(c, room, total, o, Min({room, Len(o) - c.sentlen}))
Writes(c, room, total) ==
    IF clientHasPendingReplies(c) THEN WriteBlock(c, room, total, IF c.buf # <<>> THEN c.buf ELSE Head(c.reply)) ELSE c
AfterWrite(w, close) == IF clientHasPendingReplies(w) THEN w ELSE [w EXCEPT !.sentlen = 0, !.handler = FALSE, !.open = ~close]
writeToClient(c, room) == AfterWrite(Writes(c, room, 0), c.close)
InstallHandler(w) == IF w.open /\ clientHasPendingReplies(w) THEN [w EXCEPT !.handler = TRUE] ELSE w
handleClientsWithPendingWrites(c, room) == InstallHandler(writeToClient([c EXCEPT !.pending = FALSE], room))
=============================================================================
