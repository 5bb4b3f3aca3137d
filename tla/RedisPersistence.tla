---------------------------- MODULE RedisPersistence ----------------------------
(***************************************************************************)
(* How a Redis server keeps its data on disk (aof.c, rdb.c, bio.c): the     *)
(* append only file with its buffer, its fsync policy and its rewrite by a  *)
(* child, and the RDB file.  The operators map the state d of the disk and  *)
(* of what the server keeps about it:                                       *)
(*   state     aof_state: "off", "on", or "wait" for the first rewrite      *)
(*   policy    aof_fsync: "always" or "everysec"                            *)
(*   buf       server.aof_buf, in commands                                  *)
(*   postponed aof_flush_postponed_start, Never when no flush waits         *)
(*   lastsync  aof_last_fsync                                               *)
(*   jobs      fsyncs given to the bio thread: of which file, up to where   *)
(*   gen       which file is the AOF: a rewrite replaces it                 *)
(*   base      the data a rewrite put at its start                          *)
(*   tail      the commands written after that                              *)
(*   synced    how many of them are on stable storage                       *)
(*   rewrite   aof_rewrite_scheduled; bgsave rdb_bgsave_scheduled           *)
(*   child     the child: its kind, the data when it was forked, its stage, *)
(*             the diff it has read, the pipe to it, the blocks not yet     *)
(*             sent (diffs), and whether sending has stopped                *)
(*   rdb       the data in the RDB file                                     *)
(*   err       aof_last_write_status; rdberr lastbgsave_status              *)
(*   flush     this step emptied the cache of scripts                       *)
(*   settled   the file is not one that a rewrite has just put in place, of *)
(*             which the fsync that follows has not ended (history)         *)
(***************************************************************************)
EXTENDS RedisClients

Never == -1
NoChild == [kind |-> "none", snap |-> Empty, stage |-> "none", read |-> <<>>, pipe |-> <<>>,
            diffs |-> <<>>, stop |-> FALSE]

Disk(state, policy) ==
    [state |-> state, policy |-> policy, buf |-> <<>>, postponed |-> Never, lastsync |-> 0,
     jobs |-> <<>>, gen |-> 0, base |-> Empty, tail |-> <<>>, synced |-> 0,
     rewrite |-> FALSE, bgsave |-> FALSE, child |-> NoChild, rdb |-> Empty,
     err |-> FALSE, rdberr |-> FALSE, flush |-> FALSE, settled |-> TRUE]

\* Mutant: what a rewrite will have is not written to the old file too.
feedAofOnce(d, log) ==
    LET cs == SelectSeq(log, LAMBDA c : c.op # "PUBLISH") IN
    IF d.state = "off" THEN d
    ELSE IF d.child.kind = "aof" THEN [d EXCEPT !.child.diffs = @ \o cs]
    ELSE [d EXCEPT !.buf = IF d.state = "on" THEN @ \o cs ELSE @]

\* propagate() with AOF on or waiting: into the buffer, and into the blocks
\* for a child that rewrites.  PUBLISH goes to the slaves only.
feedAof(d, log) ==
    LET cs == SelectSeq(log, LAMBDA c : c.op # "PUBLISH") IN
    IF d.state = "off" THEN d
    ELSE [d EXCEPT !.buf = IF d.state = "on" THEN @ \o cs ELSE @,
                   !.child.diffs = IF d.child.kind = "aof" THEN @ \o cs ELSE @]

(* ---- writing ---- *)

aof_background_fsync(d) ==
    [d EXCEPT !.jobs = Append(@, [gen |-> d.gen, upto |-> Len(d.tail)])]

\* Mutant: with "always", fsync is skipped while a child runs.
SyncAfterWriteUnlessChild(d, now) ==
    IF d.policy = "always"
    THEN IF d.child.kind = "none" THEN [d EXCEPT !.synced = Len(d.tail), !.lastsync = now] ELSE d
    ELSE IF now > d.lastsync
    THEN [(IF d.jobs = <<>> THEN aof_background_fsync(d) ELSE d) EXCEPT !.lastsync = now]
    ELSE d

\* The fsync after a write: at once, or by the bio thread in the next second.
SyncAfterWrite(d, now) ==
    IF d.policy = "always" THEN [d EXCEPT !.synced = Len(d.tail), !.lastsync = now]
    ELSE IF now > d.lastsync
    THEN [(IF d.jobs = <<>> THEN aof_background_fsync(d) ELSE d) EXCEPT !.lastsync = now]
    ELSE d

\* A flush is put off while an fsync runs, for less than two seconds.
Postpone(d, now, force) ==
    d.policy = "everysec" /\ ~force /\ d.jobs # <<>> /\ (d.postponed = Never \/ now - d.postponed < 2)

\* flushAppendOnlyFile, when write(2) takes n commands of the buffer: all of
\* them, or fewer when the disk is full, or none when the file is closed.
flushAppendOnlyFile(d, now, force, n) ==
    LET m == IF d.state = "off" THEN 0 ELSE Min({n, Len(d.buf)})
        w == [d EXCEPT !.tail = @ \o SubSeq(d.buf, 1, m), !.buf = SubSeq(@, m + 1, Len(@)),
                       !.postponed = Never, !.err = m < Len(d.buf)]
    IN IF d.buf = <<>> THEN d
       ELSE IF Postpone(d, now, force) THEN [d EXCEPT !.postponed = IF @ = Never THEN now ELSE @]
       ELSE IF w.err THEN w ELSE SyncAfterWrite(w, now)

\* With "always" a write that fails ends the process.
WriteFatal(d, n) == d.policy = "always" /\ n < Len(d.buf)

\* A job of the bio thread ends.
bioFsyncDone(d) ==
    LET j == Head(d.jobs) IN
    [d EXCEPT !.jobs = Tail(@), !.settled = @ \/ j.gen = d.gen,
              !.synced = IF j.gen = d.gen /\ j.upto > @ THEN j.upto ELSE @]

(* ---- rewriting ---- *)

CanFork(d) == d.child.kind = "none"

\* The scripts sent so far are not in the file to come.
rewriteAppendOnlyFileBackground(d, data) ==
    IF ~CanFork(d) THEN d
    ELSE [d EXCEPT !.rewrite = FALSE, !.flush = TRUE, !.child = [NoChild EXCEPT !.kind = "aof", !.snap = data, !.stage = "dump"]]

\* killAppendOnlyChild: the blocks for it go too.
killAppendOnlyChild(d) == IF d.child.kind = "aof" THEN [d EXCEPT !.child = NoChild] ELSE d

\* aofChildWriteDiffData: some of the blocks go down the pipe.
aofChildWriteDiffData(d, n) ==
    [d EXCEPT !.child.pipe = @ \o SubSeq(d.child.diffs, 1, n),
              !.child.diffs = SubSeq(@, n + 1, Len(@))]

aofReadDiffFromParent(d) == [d EXCEPT !.child.read = @ \o d.child.pipe, !.child.pipe = <<>>]

\* The child has the parent's word: it reads what is left in the pipe, and
\* its file is complete.
FinishRewrite(d) == LET r == aofReadDiffFromParent(d) IN [r EXCEPT !.child.stage = "done"]

\* A rewrite that succeeded: the blocks not sent follow, and the file becomes
\* the AOF.  What the buffer held is in it.
SwitchFile(d) ==
    LET c == d.child
        n == [d EXCEPT !.gen = @ + 1, !.base = c.snap, !.tail = c.read \o c.diffs,
                       !.synced = Len(c.read)]
        o == [n EXCEPT !.buf = <<>>]
    IN IF d.state = "off" THEN n
       ELSE IF d.policy = "always" THEN [o EXCEPT !.synced = Len(n.tail)]
       ELSE [aof_background_fsync(o) EXCEPT !.settled = FALSE]

backgroundRewriteDoneHandler(d) ==
    LET s == IF d.child.stage = "done" THEN SwitchFile(d) ELSE d IN
    [s EXCEPT !.child = NoChild,
              !.state = IF @ = "wait" /\ d.child.stage = "done" THEN "on" ELSE @,
              !.rewrite = IF d.state = "wait" /\ d.child.stage # "done" THEN TRUE ELSE @]

bgrewriteaofCommand(d, data) ==
    IF d.child.kind = "aof" THEN d
    ELSE IF d.child.kind = "rdb" THEN [d EXCEPT !.rewrite = TRUE]
    ELSE rewriteAppendOnlyFileBackground(d, data)

startAppendOnly(d, data, now) ==
    LET w == [d EXCEPT !.state = "wait", !.lastsync = now] IN
    IF d.child.kind = "rdb" THEN [w EXCEPT !.rewrite = TRUE]
    ELSE rewriteAppendOnlyFileBackground(killAppendOnlyChild(w), data)

\* Everything that could be written is flushed and synced.
stopAppendOnly(d, now, n) ==
    LET f == flushAppendOnlyFile(d, now, TRUE, n) IN
    killAppendOnlyChild([f EXCEPT !.synced = Len(f.tail), !.state = "off"])

(* ---- the RDB file ---- *)

rdbSaveBackground(d, data) ==
    IF ~CanFork(d) THEN d
    ELSE [d EXCEPT !.child = [NoChild EXCEPT !.kind = "rdb", !.snap = data, !.stage = "dump"]]

bgsaveCommand(d, data, schedule) ==
    CASE d.child.kind = "rdb" -> d
      [] d.child.kind = "aof" -> [d EXCEPT !.bgsave = @ \/ schedule]
      [] d.child.kind = "none" -> rdbSaveBackground(d, data)

\* SAVE, and the save of a shutdown.
rdbSave(d, data) == [d EXCEPT !.rdb = data, !.rdberr = FALSE]

\* The child renames its file before it ends.
backgroundSaveDoneHandler(d) ==
    [d EXCEPT !.child = NoChild, !.rdberr = d.child.stage # "done"]

\* serverCron on what concerns the disk.
RewriteIfScheduled(d, data) ==
    IF CanFork(d) /\ d.rewrite THEN rewriteAppendOnlyFileBackground(d, data) ELSE d
ChildEnded(d) ==
    IF d.child.stage \notin {"done", "failed"} THEN d
    ELSE IF d.child.kind = "aof" THEN backgroundRewriteDoneHandler(d)
    ELSE backgroundSaveDoneHandler(d)
FlushIfLate(d, now, n) ==
    IF d.postponed # Never \/ d.err THEN flushAppendOnlyFile(d, now, FALSE, n) ELSE d
SaveIfScheduled(d, data) ==
    IF CanFork(d) /\ d.bgsave THEN [rdbSaveBackground(d, data) EXCEPT !.bgsave = FALSE] ELSE d

persistenceCron(d, data, now, n) ==
    SaveIfScheduled(FlushIfLate(ChildEnded(RewriteIfScheduled(d, data)), now, n), data)

(* ---- loading ---- *)

\* loadAppendOnlyFile: a fake client runs the handlers one by one, so the
\* commands of a transaction run as they are read.
Loaded(data, cs) ==
    FoldLeft(LAMBDA e, c : proc(e, None, c).e, Server("loading", data, {None}), cs).db
=============================================================================
