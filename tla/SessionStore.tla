----------------------------- MODULE SessionStore -----------------------------
(***************************************************************************)
(* RedisSessionDAO: Shiro sessions in Redis, with a copy of every session  *)
(* that a thread has read kept in the thread for InMemoryTimeout, and the  *)
(* Redis managers below it, which store a value and its lifetime with two  *)
(* commands.                                                               *)
(*                                                                         *)
(* What a session contains is a version: every save stores a new one.  A   *)
(* thread reads a session, holds it as long as it likes, and meanwhile     *)
(* changes and saves it, deletes it, or lets it go.                        *)
(***************************************************************************)
EXTENDS Integers

CONSTANTS
    Threads,           \* servlet threads, of all nodes
    Sessions,          \* session ids
    Expire,            \* lifetime of a session in Redis, in ticks
    InMemoryTimeout,   \* sessionInMemoryTimeout, in ticks
    MaxTime,           \* bound: the clock
    MaxSaves,          \* bound: SET commands
    MaxFaults,         \* bound: Redis commands that fail
    None               \* Java's null

ASSUME StoreConstants ==
    /\ Expire \in Nat \ {0} /\ InMemoryTimeout \in Nat
    /\ MaxTime \in Nat /\ MaxSaves \in Nat /\ MaxFaults \in Nat
    /\ None \notin Sessions \cup Nat

VARIABLES
    now,               \* the clock of every process and of Redis
    redis,             \* the session under each key and when it lapses
    sessionsInThread,  \* per thread, the copies
    thread,            \* control: what each thread does, and with which session
    created,           \* ids that generateSessionId has handed out
    saves,             \* versions stored so far
    until,             \* when a version was replaced, deleted or lapsed
    faults             \* Redis commands that failed

vars == <<now, redis, sessionsInThread, thread, created, saves, until, faults>>

Dirty == 0                 \* a changed session that has not been stored
Versions == 1..MaxSaves
Holding == {"holds", "set", "expire"}

Absent == [ver |-> None, expiry |-> None]
Idle == [pc |-> "idle", id |-> None, ver |-> None, readAt |-> 0]

\* An entry whose session is null is read like none at all.  The lag, by which
\* the stamp of a copy is later than its content, is kept for a property.
NoCopy == [ver |-> None, createTime |-> 0, lag |-> 0]

Init ==
    /\ now = 0 /\ saves = 0 /\ faults = 0
    /\ redis = [s \in Sessions |-> Absent]
    /\ sessionsInThread = [t \in Threads |-> [s \in Sessions |-> NoCopy]]
    /\ thread = [t \in Threads |-> Idle]
    /\ created = {}
    /\ until = [n \in Versions |-> None]

\* The version of s that is stored is stored no longer.
Ended(s) == [n \in Versions |-> IF n = redis[s].ver THEN now ELSE until[n]]

-----------------------------------------------------------------------------
(* Redis                                                                   *)

Lapses(s) == redis[s].expiry # None /\ redis[s].expiry <= now + 1

Tick ==
    /\ now < MaxTime
    /\ now' = now + 1
    /\ redis' = [s \in Sessions |-> IF Lapses(s) THEN Absent ELSE redis[s]]
    /\ until' = [n \in Versions |->
                   IF \E s \in Sessions : Lapses(s) /\ redis[s].ver = n THEN now' ELSE until[n]]
    /\ UNCHANGED <<sessionsInThread, thread, created, saves, faults>>

-----------------------------------------------------------------------------
(* RedisSessionDAO                                                         *)

\* doCreate: an id nobody has, then saveSession.
DoCreate(t, s) ==
    /\ thread[t].pc = "idle" /\ s \notin created
    /\ created' = created \cup {s}
    /\ thread' = [thread EXCEPT ![t] = [Idle EXCEPT !.pc = "set", !.id = s, !.ver = Dirty]]
    /\ UNCHANGED <<now, redis, sessionsInThread, saves, until, faults>>

FreshAtLimit(t, s) == now - sessionsInThread[t][s].createTime <= InMemoryTimeout   \* mutant: <=
Fresh(t, s) == now - sessionsInThread[t][s].createTime < InMemoryTimeout

\* A mutant of the next action: a hit makes the copy young again.
DoReadSessionRenewing(t, s) ==
    LET copy == sessionsInThread[t][s]
        hit == copy.ver # None /\ Fresh(t, s)
    IN /\ thread[t].pc = "idle"
       /\ thread' = [thread EXCEPT ![t] =
                       [pc |-> IF hit THEN "holds" ELSE "get", id |-> s,
                        ver |-> IF hit THEN copy.ver ELSE None, readAt |-> 0]]
       /\ sessionsInThread' = [sessionsInThread EXCEPT ![t][s] =
                                 IF hit THEN [copy EXCEPT !.createTime = now] ELSE NoCopy]
       /\ UNCHANGED <<now, redis, created, saves, until, faults>>

\* doReadSession up to the call to Redis: a copy that is young enough is the
\* result, any other one is removed.
DoReadSession(t, s) ==
    LET copy == sessionsInThread[t][s]
        hit == copy.ver # None /\ Fresh(t, s)
    IN /\ thread[t].pc = "idle"
       /\ thread' = [thread EXCEPT ![t] =
                       [pc |-> IF hit THEN "holds" ELSE "get", id |-> s,
                        ver |-> IF hit THEN copy.ver ELSE None, readAt |-> 0]]
       /\ sessionsInThread' = [sessionsInThread EXCEPT ![t][s] = IF hit THEN copy ELSE NoCopy]
       /\ UNCHANGED <<now, redis, created, saves, until, faults>>

Get(t) ==
    /\ thread[t].pc = "get"
    /\ thread' = [thread EXCEPT ![t].pc = "remember", ![t].ver = redis[thread[t].id].ver,
                                ![t].readAt = now]
    /\ UNCHANGED <<now, redis, sessionsInThread, created, saves, until, faults>>

\* setSessionToThreadLocal stamps the copy with a later time than Redis was read.
Remember(t) ==
    LET th == thread[t]
    IN /\ th.pc = "remember"
       /\ sessionsInThread' = [sessionsInThread EXCEPT ![t][th.id] =
                                 [ver |-> th.ver, createTime |-> now, lag |-> now - th.readAt]]
       /\ thread' = [thread EXCEPT ![t] = IF th.ver = None THEN Idle
                                          ELSE [th EXCEPT !.pc = "holds"]]
       /\ UNCHANGED <<now, redis, created, saves, until, faults>>

\* The copy is the object that the thread holds: what is done to the one is
\* done to the other.  A session that was just created has no copy.
Stamped(t, n) ==
    [sessionsInThread EXCEPT ![t][thread[t].id] =
       IF @.ver = None THEN @ ELSE [@ EXCEPT !.ver = n]]

\* The session is changed (touched, an attribute set) and update is called.
Update(t) ==
    /\ thread[t].pc = "holds"
    /\ thread' = [thread EXCEPT ![t].pc = "set", ![t].ver = Dirty]
    /\ sessionsInThread' = Stamped(t, Dirty)
    /\ UNCHANGED <<now, redis, created, saves, until, faults>>

SetForever(t) ==   \* mutant: the lifetime is not set
    LET s == thread[t].id
        n == saves + 1
    IN /\ thread[t].pc = "set" /\ saves < MaxSaves
       /\ saves' = n
       /\ redis' = [redis EXCEPT ![s] = [ver |-> n, expiry |-> None]]
       /\ until' = Ended(s)
       /\ thread' = [thread EXCEPT ![t].pc = "holds", ![t].ver = n]
       /\ sessionsInThread' = Stamped(t, n)
       /\ UNCHANGED <<now, created, faults>>

\* SET stores the session whether or not the key is still there, and takes the
\* lifetime of the key away.
Set(t) ==
    LET s == thread[t].id
        n == saves + 1
    IN /\ thread[t].pc = "set" /\ saves < MaxSaves
       /\ saves' = n
       /\ redis' = [redis EXCEPT ![s] = [ver |-> n, expiry |-> None]]
       /\ until' = Ended(s)
       /\ thread' = [thread EXCEPT ![t].pc = "expire", ![t].ver = n]
       /\ sessionsInThread' = Stamped(t, n)
       /\ UNCHANGED <<now, created, faults>>

\* EXPIRE does nothing to a key that is not there.
SetExpire(t) ==
    LET s == thread[t].id
    IN /\ thread[t].pc = "expire"
       /\ redis' = IF redis[s].ver = None THEN redis
                   ELSE [redis EXCEPT ![s].expiry = now + Expire]
       /\ thread' = [thread EXCEPT ![t].pc = "holds"]
       /\ UNCHANGED <<now, sessionsInThread, created, saves, until, faults>>

\* delete leaves the copies of all threads alone, that of its own included.
Delete(t) ==
    LET s == thread[t].id
    IN /\ thread[t].pc = "holds"
       /\ redis' = [redis EXCEPT ![s] = Absent]
       /\ until' = Ended(s)
       /\ thread' = [thread EXCEPT ![t] = Idle]
       /\ UNCHANGED <<now, sessionsInThread, created, saves, faults>>

Release(t) ==
    /\ thread[t].pc = "holds"
    /\ thread' = [thread EXCEPT ![t] = Idle]
    /\ UNCHANGED <<now, redis, sessionsInThread, created, saves, until, faults>>

\* A command throws.  One that takes effect and throws is the command followed
\* by a failure of the next, or by Release.
CommandFails(t) ==
    /\ faults < MaxFaults
    /\ faults' = faults + 1
    /\ thread[t].pc \in {"get", "set", "expire"}
    /\ thread' = [thread EXCEPT ![t] = Idle]
    /\ UNCHANGED <<now, redis, sessionsInThread, created, saves, until>>

-----------------------------------------------------------------------------
Next ==
    \/ Tick
    \/ \E t \in Threads :
         \/ \E s \in Sessions : DoCreate(t, s) \/ DoReadSession(t, s)
         \/ Get(t) \/ Remember(t) \/ Update(t) \/ Set(t) \/ SetExpire(t)
         \/ Delete(t) \/ Release(t) \/ CommandFails(t)

Spec == Init /\ [][Next]_vars

-----------------------------------------------------------------------------
(* Properties                                                              *)

\* The shapes of the state; nobody works with a session that was not found.
TypeOK ==
    /\ now \in Nat /\ saves \in 0..MaxSaves /\ faults \in Nat
    /\ created \subseteq Sessions
    /\ redis \in [Sessions -> [ver: Versions \cup {None}, expiry: Nat \cup {None}]]
    /\ sessionsInThread \in
         [Threads -> [Sessions -> [ver: {Dirty, None} \cup Versions,
                                   createTime: Nat, lag: Nat]]]
    /\ thread \in
         [Threads -> [pc: {"idle", "get", "remember"} \cup Holding, id: Sessions \cup {None},
                      ver: {Dirty, None} \cup Versions, readAt: Nat]]
    /\ until \in [Versions -> Nat \cup {None}]
    /\ \A t \in Threads :
         /\ thread[t].pc # "idle" => thread[t].id # None
         /\ thread[t].pc \in Holding => thread[t].ver # None

\* What a read returns was in Redis at most InMemoryTimeout ago, apart from the
\* time that passed between reading Redis and stamping the copy: however often
\* a thread reads a session, it does not miss a change for longer.
ReadFresh ==
    [][\A t \in Threads, s \in Sessions :
         LET copy == sessionsInThread'[t][s]
             n == copy.ver
         IN /\ thread[t].pc \in {"idle", "remember"} /\ thread'[t].pc = "holds"
            /\ thread'[t].id = s /\ n \in Versions
            => \/ until[n] = None
               \/ now <= until[n] + InMemoryTimeout + copy.lag]_vars

\* Somebody has s in hand, or can still find a copy that is young enough.
Held(s) ==
    \E t \in Threads :
      \/ thread[t].id = s /\ thread[t].pc \in Holding
      \/ thread[t].id = s /\ thread[t].pc = "remember" /\ thread[t].ver # None
      \/ /\ sessionsInThread[t][s].ver # None
         /\ now - sessionsInThread[t][s].createTime < InMemoryTimeout

Dead(s) == s \in created /\ redis[s].ver = None /\ ~Held(s)

\* A session that has left Redis may come back, since update stores it again
\* unseen, but only from somebody who held it then: once the last holder has
\* let go and the copies are too old, it is gone for good.
DeletedStays == [][\A s \in Sessions : Dead(s) => Dead(s)']_vars

\* The two commands of a save together: whatever they are interleaved with, a
\* session has a lifetime unless its save is under way or a command has failed.
LifetimeSet ==
    \A s \in Sessions :
      redis[s].ver # None /\ redis[s].expiry = None /\ faults = 0 =>
        \E t \in Threads : thread[t].id = s /\ thread[t].pc = "expire"
=============================================================================
