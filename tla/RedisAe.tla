------------------------------- MODULE RedisAe -------------------------------
(***************************************************************************)
(* The event loop's library (ae.c, ae_epoll.c): handlers of descriptors     *)
(* that are ready, then handlers of timers that are due.  A handler may     *)
(* register and remove any event while the loop is in the middle of a list. *)
(*                                                                          *)
(* A loop is [ev, epoll, maxfd, te, next, last, now, pc, fired, stage,      *)
(* invert, calls, left, first, maxId, inside]: for every descriptor its     *)
(* mask and procedures, the kernel's interest set, the timers (newest       *)
(* first) with lastTime and the clock in milliseconds, and where            *)
(* aeProcessEvents is.  "left" counts the timers from te to the end of the  *)
(* list, "first" is prev = NULL, and "inside" is the handler that runs.     *)
(* The fields behind it are what was seen: events reported and not handled, *)
(* descriptors read under a barrier, timers called in this pass, the time   *)
(* it began.                                                                *)
(***************************************************************************)
EXTENDS Integers, SequencesExt, FiniteSetsExt

Fd == 0..1
Second == 2         \* milliseconds of a second, here
Deleted == -1       \* AE_DELETED_EVENT_ID

aeCreateEventLoop ==
    [ev |-> [fd \in Fd |-> [mask |-> {}, rproc |-> "read", wproc |-> "write"]], epoll |-> [fd \in Fd |-> {}], maxfd |-> -1,
     te |-> <<>>, next |-> 0, last |-> 2, now |-> 2 * Second, pc |-> "main", fired |-> <<>>, stage |-> 0, invert |-> FALSE,
     calls |-> 0, left |-> 0, first |-> TRUE, maxId |-> -1, inside |-> <<>>,
     ready |-> {}, readFirst |-> {}, called |-> {}, began |-> 0]

aeApiAddEvent(el, fd, mask) == [el EXCEPT !.epoll[fd] = (mask \cup el.ev[fd].mask) \ {"b"}]
aeApiDelEvent(el, fd, mask) == [el EXCEPT !.epoll[fd] = (el.ev[fd].mask \ mask) \ {"b"}]
aeCreateFileEvent(el, fd, mask, proc) ==
    [aeApiAddEvent(el, fd, mask) EXCEPT
        !.ev[fd] = [mask |-> @.mask \cup mask, rproc |-> IF "r" \in mask THEN proc ELSE @.rproc,
                    wproc |-> IF "w" \in mask THEN proc ELSE @.wproc],
        !.maxfd = Max({@, fd})]
aeDeleteFileEvent(el, fd, mask) ==
    LET del == IF "w" \in mask THEN mask \cup {"b"} ELSE mask
        new == [aeApiDelEvent(el, fd, del) EXCEPT !.ev[fd].mask = @ \ del]
    IN IF el.ev[fd].mask = {} THEN el
       ELSE IF fd = el.maxfd /\ new.ev[fd].mask = {}
            THEN [new EXCEPT !.maxfd = Max({-1} \cup {j \in Fd : j < fd /\ new.ev[j].mask # {}})]
       ELSE new

aeAddMillisecondsToNow(now, ms) ==
    LET sec == (now \div Second) + (ms \div Second)
        rest == (now % Second) + (ms % Second)
    IN IF rest >= Second THEN [sec |-> sec + 1, ms |-> rest - Second] ELSE [sec |-> sec, ms |-> rest]
aeCreateTimeEvent(el, ms) ==
    [el EXCEPT !.te = <<[id |-> el.next, when |-> aeAddMillisecondsToNow(el.now, ms)]>> \o @, !.next = @ + 1]
aeDeleteTimeEvent(el, id) == [el EXCEPT !.te = [i \in DOMAIN @ |-> IF @[i].id = id THEN [@[i] EXCEPT !.id = Deleted] ELSE @[i]]]

Milliseconds(when) == when.sec * Second + when.ms
\* How long poll() may sleep: until the nearest timer, -1 for ever.
aeSearchNearestTimer(el) ==
    LET at == {Milliseconds(el.te[i].when) : i \in DOMAIN el.te} IN
    IF at = {} THEN -1 ELSE Max({0, Min(at) - el.now})

\* The events "ready" of the kernel; an error makes a descriptor writable too.
aeApiPoll(el, ready, error) ==
    LET Mask(fd) == {m \in {"r", "w"} : <<fd, m>> \in ready /\ m \in el.epoll[fd]} \cup
                    (IF error = fd /\ el.epoll[fd] # {} THEN {"w"} ELSE {})
        fds == SetToSortSeq({fd \in Fd : Mask(fd) # {}}, <)
    IN [el EXCEPT !.pc = "file", !.stage = 0, !.fired = [i \in DOMAIN fds |-> [fd |-> fds[i], mask |-> Mask(fds[i])]],
                  !.ready = UNION {{fd} \X Mask(fd) : fd \in Fd}, !.readFirst = {}]

\* The handler of a file event begins.
CallFile(el, fd, m, stage) ==
    [el EXCEPT !.inside = <<m, fd>>, !.stage = stage, !.calls = @ + 1, !.ready = @ \ {<<fd, m>>},
               !.readFirst = IF m = "r" /\ "b" \in el.ev[fd].mask THEN @ \cup {fd} ELSE @]

\* A clock that was set back makes every timer due.
StartTimers(el) ==
    LET now == el.now \div Second IN
    [el EXCEPT !.pc = "time", !.last = now, !.left = Len(el.te), !.first = TRUE, !.maxId = el.next - 1,
               !.te = IF now < el.last THEN [i \in DOMAIN @ |-> [@[i] EXCEPT !.when.sec = 0]] ELSE @,
               !.stage = 0, !.invert = FALSE, !.calls = 0, !.called = {}, !.began = el.now]
\* A timer that was deleted is taken out of the list.
RemoveTimer(el) ==
    LET at == Len(el.te) - el.left + 1 IN
    [el EXCEPT !.te = IF el.first THEN SubSeq(@, at + 1, Len(@)) ELSE RemoveAt(@, at), !.left = @ - 1]

\* aeProcessEvents from where it is to the next handler it calls, the timers'
\* turn, or its end.
RECURSIVE Proceed(_)
Proceed(el) ==
    LET f == Head(el.fired)
        fe == el.ev[f.fd]
        valid == fe.mask \cap f.mask
        again == el.calls = 0 \/ fe.wproc # fe.rproc
        te == el.te[Len(el.te) - el.left + 1]
        Pass(m, stage) == Proceed([el EXCEPT !.stage = stage, !.ready = IF m \in fe.mask /\ fe.wproc # fe.rproc THEN @ ELSE @ \ {<<f.fd, m>>}])
    IN CASE el.pc = "file" /\ el.fired = <<>> -> StartTimers(el)
         [] el.pc = "file" /\ el.fired # <<>> ->
              (CASE el.stage = 0 -> Proceed([el EXCEPT !.stage = 1, !.invert = "b" \in fe.mask, !.calls = 0])
                 [] el.stage = 1 -> IF ~el.invert /\ "r" \in valid THEN CallFile(el, f.fd, "r", 2) ELSE Pass(IF el.invert THEN "w" ELSE "r", 2)
                 [] el.stage = 2 -> IF "w" \in valid /\ again THEN CallFile(el, f.fd, "w", 3) ELSE Pass("w", 3)
                 [] el.stage = 3 -> IF el.invert /\ "r" \in valid /\ again THEN CallFile(el, f.fd, "r", 4) ELSE Pass("r", 4)
                 [] el.stage = 4 -> Proceed([el EXCEPT !.stage = 0, !.fired = Tail(@)]))
         [] el.pc = "time" /\ el.left = 0 -> [el EXCEPT !.pc = "main"]
         [] el.pc = "time" /\ el.left > 0 ->
              IF te.id = Deleted THEN Proceed(RemoveTimer(el))
              ELSE IF te.id > el.maxId THEN Proceed([el EXCEPT !.left = @ - 1])
              ELSE IF el.now >= Milliseconds(te.when) THEN [el EXCEPT !.inside = <<"t", te.id>>, !.called = @ \cup {te.id}]
              ELSE Proceed([el EXCEPT !.left = @ - 1, !.first = FALSE])

\* A handler is over.  That of a timer says when it is due again, -1 for never;
\* it may have been deleted while it ran.
Return(el, retval) ==
    LET at == Len(el.te) - el.left + 1
        te == el.te[at]
    IN IF el.pc = "file" THEN [el EXCEPT !.inside = <<>>]
       ELSE [el EXCEPT !.inside = <<>>, !.left = @ - 1, !.first = FALSE,
                       !.te[at] = IF retval = -1 THEN [te EXCEPT !.id = Deleted]
                                  ELSE [te EXCEPT !.when = aeAddMillisecondsToNow(el.now, retval)]]

Timers(el) == [id \in {el.te[i].id : i \in DOMAIN el.te} \ {Deleted} |->
                 Milliseconds(el.te[SelectInSeq(el.te, LAMBDA t : t.id = id)].when)]

\* The kernel waits for what is registered; maxfd is the highest of those.
AeOK(el) == /\ \A fd \in Fd : el.epoll[fd] = el.ev[fd].mask \ {"b"}
            /\ el.maxfd = Max({-1} \cup {fd \in Fd : el.ev[fd].mask # {}})
=============================================================================
