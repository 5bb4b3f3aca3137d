-------------------------- MODULE SessionStoreProofs --------------------------
(***************************************************************************)
(* What the session store promises, for any number of threads, sessions,   *)
(* saves and failures and for any lifetimes.                               *)
(***************************************************************************)
EXTENDS SessionStore, TLAPS

-----------------------------------------------------------------------------
(* The inductive invariant                                                 *)

Entry == [ver: Versions \cup {None}, expiry: Nat \cup {None}]
Copy == [ver: {Dirty, None} \cup Versions, createTime: Nat, lag: Nat]
Thread == [pc: {"idle", "get", "remember"} \cup Holding, id: Sessions \cup {None},
           ver: {Dirty, None} \cup Versions, readAt: Nat]

\* The version n was in Redis at the time d or later.
StoredAt(n, d) == until[n] = None \/ d <= until[n]

\* A copy was stamped lag after it was read, and both are past.
CopyOK(t, s) ==
    LET c == sessionsInThread[t][s]
    IN /\ c.createTime <= now
       /\ c.ver \in Versions => StoredAt(c.ver, c.createTime - c.lag)

\* A thread that has read Redis and not yet stamped its copy.
ReadOK(t) ==
    thread[t].pc = "remember" =>
      /\ thread[t].readAt <= now
      /\ thread[t].ver \in Versions => StoredAt(thread[t].ver, thread[t].readAt)

\* What is in Redis has not been replaced, and no two keys share a version.
CurrentOK ==
    /\ \A s \in Sessions : redis[s].ver # None =>
         /\ until[redis[s].ver] = None /\ redis[s].ver <= saves
         /\ \A r \in Sessions : redis[r].ver = redis[s].ver => r = s
    /\ \A n \in Versions : n > saves => until[n] = None

StoreInv ==
    /\ TypeOK
    /\ \A t \in Threads : ReadOK(t) /\ \A s \in Sessions : CopyOK(t, s)
    /\ CurrentOK

-----------------------------------------------------------------------------
LEMMA Types ==
    ASSUME StoreInv
    PROVE  /\ now \in Nat /\ saves \in Nat /\ saves <= MaxSaves /\ faults \in Nat
           /\ \A n \in Versions : n \in Nat /\ n # None /\ n # Dirty /\ n <= MaxSaves
           /\ \A s \in Sessions : redis[s] \in Entry /\ s # None
           /\ \A t \in Threads : /\ thread[t] \in Thread
                                 /\ thread[t].pc # "idle" => thread[t].id \in Sessions
                                 /\ \A s \in Sessions : sessionsInThread[t][s] \in Copy
           /\ \A n \in Versions : until[n] \in Nat \cup {None}
           /\ None \notin Nat
BY StoreConstants DEF StoreInv, TypeOK, Versions, Dirty, Entry, Thread, Copy

\* Every version that ends now was in Redis at any earlier time.
LEMMA EndsNow ==
    ASSUME StoreInv, NEW n \in Versions, NEW d \in Int, d <= now,
           StoredAt(n, d), until'[n] = until[n] \/ until'[n] = now \/ until'[n] = now + 1
    PROVE  StoredAt(n, d)'
BY Types DEF StoredAt

\* Steps that leave Redis alone.
LEMMA RedisKept ==
    ASSUME StoreInv, now' = now, saves' = saves, until' = until, redis' = redis
    PROVE  /\ CurrentOK'
           /\ \A t \in Threads, s \in Sessions :
                sessionsInThread'[t][s] = sessionsInThread[t][s] => CopyOK(t, s)'
           /\ \A t \in Threads : thread'[t] = thread[t] => ReadOK(t)'
<1>1. CurrentOK'
  BY DEF StoreInv, CurrentOK
<1>2. \A t \in Threads, s \in Sessions :
        sessionsInThread'[t][s] = sessionsInThread[t][s] => CopyOK(t, s)'
  BY DEF StoreInv, CopyOK, StoredAt
<1>3. \A t \in Threads : thread'[t] = thread[t] => ReadOK(t)'
  BY DEF StoreInv, ReadOK, StoredAt
<1> QED
  BY <1>1, <1>2, <1>3

\* Steps that end versions now, or at the next tick.
LEMMA ReadersKept ==
    ASSUME StoreInv, now' = now \/ now' = now + 1,
           \A n \in Versions : until'[n] = until[n] \/ until'[n] = now \/ until'[n] = now + 1
    PROVE  /\ \A t \in Threads, s \in Sessions :
                sessionsInThread'[t][s] = sessionsInThread[t][s] => CopyOK(t, s)'
           /\ \A t \in Threads : thread'[t] = thread[t] => ReadOK(t)'
<1>1. ASSUME NEW t \in Threads, NEW s \in Sessions,
             sessionsInThread'[t][s] = sessionsInThread[t][s]
      PROVE  CopyOK(t, s)'
  <2> PICK c \in Copy : c = sessionsInThread[t][s]
    BY Types
  <2>1. /\ c.createTime \in Nat /\ c.lag \in Nat /\ now \in Nat /\ c.createTime <= now
        /\ c.ver \in Versions => StoredAt(c.ver, c.createTime - c.lag)
    BY Types DEF StoreInv, CopyOK, Copy
  <2>2. c.createTime - c.lag \in Int /\ c.createTime - c.lag <= now /\ c.createTime <= now'
    BY <2>1
  <2>3. c.ver \in Versions => StoredAt(c.ver, c.createTime - c.lag)'
    BY <2>1, <2>2, EndsNow
  <2> QED
    BY <1>1, <2>2, <2>3 DEF CopyOK
<1>2. ASSUME NEW t \in Threads, thread'[t] = thread[t]
      PROVE  ReadOK(t)'
  <2> SUFFICES ASSUME thread[t].pc = "remember" PROVE ReadOK(t)'
    BY <1>2 DEF ReadOK
  <2> PICK th \in Thread : th = thread[t]
    BY Types
  <2>1. /\ th.readAt \in Nat /\ now \in Nat /\ th.readAt <= now
        /\ th.ver \in Versions => StoredAt(th.ver, th.readAt)
    BY Types DEF StoreInv, ReadOK, Thread
  <2>2. th.ver \in Versions => StoredAt(th.ver, th.readAt)'
    BY <2>1, EndsNow
  <2>3. th.readAt <= now'
    BY <2>1
  <2> QED
    BY <1>2, <2>2, <2>3 DEF ReadOK
<1> QED
  BY <1>1, <1>2

\* The version of s ends and, if a save is the reason, a new one takes its place.
LEMMA CurrentKept ==
    ASSUME StoreInv, NEW s \in Sessions, NEW e \in Entry,
           redis' = [redis EXCEPT ![s] = e], until' = Ended(s),
           \/ e.ver = None /\ saves' = saves
           \/ e.ver = saves + 1 /\ saves' = saves + 1 /\ saves < MaxSaves
    PROVE  /\ CurrentOK'
           /\ redis' \in [Sessions -> Entry] /\ until' \in [Versions -> Nat \cup {None}]
           /\ \A n \in Versions : until'[n] = until[n] \/ until'[n] = now
           /\ \A n \in Versions : n > saves => until'[n] = None
<1>1. /\ redis \in [Sessions -> Entry] /\ until \in [Versions -> Nat \cup {None}]
      /\ now \in Nat /\ saves \in Nat /\ MaxSaves \in Nat
  BY StoreConstants, Types DEF StoreInv, TypeOK, Entry
<1>2. /\ redis' \in [Sessions -> Entry] /\ redis'[s] = e
      /\ \A r \in Sessions : r # s => redis'[r] = redis[r]
  BY <1>1
<1>3. /\ until' \in [Versions -> Nat \cup {None}]
      /\ \A n \in Versions : until'[n] = IF n = redis[s].ver THEN now ELSE until[n]
  BY <1>1 DEF Ended
<1>4. \A r \in Sessions : redis[r].ver \in Versions \cup {None}
  BY <1>1 DEF Entry
<1>5. /\ \A r \in Sessions : redis[r].ver # None =>
           /\ until[redis[r].ver] = None /\ redis[r].ver <= saves
           /\ \A q \in Sessions : redis[q].ver = redis[r].ver => q = r
      /\ \A n \in Versions : n > saves => until[n] = None
  BY DEF StoreInv, CurrentOK
<1>6. \A n \in Versions : n \in Nat /\ n # None
  BY Types
<1>7. \A n \in Versions : n > saves => until'[n] = None
  <2> SUFFICES ASSUME NEW n \in Versions, n > saves PROVE until'[n] = None
    OBVIOUS
  <2>1. n # redis[s].ver
    BY <1>1, <1>4, <1>5, <1>6
  <2> QED
    BY <1>3, <1>5, <2>1
<1>8. ASSUME NEW r \in Sessions, redis'[r].ver # None
      PROVE  /\ until'[redis'[r].ver] = None /\ redis'[r].ver <= saves'
             /\ \A q \in Sessions : redis'[q].ver = redis'[r].ver => q = r
  <2>1. CASE r = s
    <3>1. /\ e.ver = saves + 1 /\ saves' = saves + 1 /\ redis'[r].ver = saves + 1
          /\ saves + 1 \in Versions
      BY <1>1, <1>2, <1>8, <2>1 DEF Versions
    <3>2. \A q \in Sessions : q # s => redis[q].ver # saves + 1
      BY <1>1, <1>4, <1>5, <1>6, <3>1
    <3> QED
      BY <1>1, <1>2, <1>7, <2>1, <3>1, <3>2
  <2>2. CASE r # s
    <3>1. redis'[r].ver = redis[r].ver /\ redis[r].ver \in Versions
      BY <1>2, <1>4, <1>8, <2>2
    <3>2. redis[r].ver # redis[s].ver
      BY <1>5, <2>2, <3>1, <1>6
    <3>3. until'[redis[r].ver] = None /\ redis[r].ver <= saves
      BY <1>3, <1>5, <1>6, <3>1, <3>2
    <3>4. e.ver # redis[r].ver /\ redis[r].ver <= saves'
      BY <1>1, <1>6, <3>1, <3>3
    <3>5. \A q \in Sessions : redis'[q].ver = redis[r].ver => q = r
      BY <1>2, <1>5, <1>6, <3>1, <3>4
    <3> QED
      BY <3>1, <3>3, <3>4, <3>5
  <2> QED
    BY <2>1, <2>2
<1>9. \A n \in Versions : n > saves' => until'[n] = None
  BY <1>1, <1>6, <1>7
<1> QED
  BY <1>2, <1>3, <1>7, <1>8, <1>9 DEF CurrentOK

LEMMA InitStore == Init => StoreInv
<1> SUFFICES ASSUME Init PROVE StoreInv
  OBVIOUS
<1>1. TypeOK
  BY StoreConstants DEF Init, TypeOK, Absent, NoCopy, Idle, Versions, Holding, Dirty
<1>2. \A t \in Threads : ReadOK(t) /\ \A s \in Sessions : CopyOK(t, s)
  <2> TAKE t \in Threads
  <2>1. thread[t].pc = "idle"
    BY DEF Init, Idle
  <2>2. \A s \in Sessions : sessionsInThread[t][s] = NoCopy
    BY DEF Init
  <2>3. None \notin Versions
    BY StoreConstants DEF Versions
  <2> QED
    BY <2>1, <2>2, <2>3 DEF ReadOK, CopyOK, NoCopy, Init
<1>3. CurrentOK
  BY DEF Init, CurrentOK, Absent
<1> QED
  BY <1>1, <1>2, <1>3 DEF StoreInv

\* A step of the thread t that leaves Redis alone keeps the invariant if the
\* thread and the copies it changes are as they should be.
LEMMA MoveThread ==
    ASSUME StoreInv, NEW t \in Threads,
           now' = now, saves' = saves, until' = until, redis' = redis,
           created' \subseteq Sessions, faults' \in Nat,
           thread' \in [Threads -> Thread],
           sessionsInThread' \in [Threads -> [Sessions -> Copy]],
           \A u \in Threads : u # t => thread'[u] = thread[u],
           \A u \in Threads, r \in Sessions :
             sessionsInThread'[u][r] = sessionsInThread[u][r] \/ CopyOK(u, r)',
           thread'[t].pc # "idle" => thread'[t].id # None,
           thread'[t].pc \in Holding => thread'[t].ver # None,
           ReadOK(t)'
    PROVE  StoreInv'
<1>1. TypeOK'
  BY DEF StoreInv, TypeOK, Thread, Copy
<1>2. CurrentOK'
  BY RedisKept
<1>3. \A u \in Threads : ReadOK(u)'
  BY RedisKept
<1>4. \A u \in Threads, r \in Sessions : CopyOK(u, r)'
  BY RedisKept
<1> QED
  BY <1>1, <1>2, <1>3, <1>4 DEF StoreInv

LEMMA CreateStore ==
    ASSUME StoreInv, NEW t \in Threads, NEW s \in Sessions, DoCreate(t, s)
    PROVE  StoreInv'
<1> DEFINE th == [Idle EXCEPT !.pc = "set", !.id = s, !.ver = Dirty]
<1>1. /\ thread' = [thread EXCEPT ![t] = th] /\ sessionsInThread' = sessionsInThread
      /\ now' = now /\ saves' = saves /\ until' = until /\ redis' = redis
      /\ created' = created \cup {s} /\ faults' = faults
  BY DEF DoCreate
<1>2. th \in Thread /\ th.pc = "set" /\ th.id = s /\ th.ver = Dirty
  BY DEF Idle, Thread, Holding
<1>3. /\ thread \in [Threads -> Thread] /\ created \subseteq Sessions /\ faults \in Nat
      /\ sessionsInThread \in [Threads -> [Sessions -> Copy]]
  BY DEF StoreInv, TypeOK, Thread, Copy
<1> HIDE DEF th
<1>4. thread' \in [Threads -> Thread] /\ thread'[t] = th
      /\ \A u \in Threads : u # t => thread'[u] = thread[u]
  BY <1>1, <1>2, <1>3
<1>5. ReadOK(t)'
  BY <1>2, <1>4 DEF ReadOK
<1>6. s # None /\ Dirty # None
  BY StoreConstants DEF Dirty
<1> QED
  BY <1>1, <1>2, <1>3, <1>4, <1>5, <1>6, MoveThread

LEMMA ReadStore ==
    ASSUME StoreInv, NEW t \in Threads, NEW s \in Sessions, DoReadSession(t, s)
    PROVE  StoreInv'
<1> DEFINE copy == sessionsInThread[t][s]
           hit == copy.ver # None /\ Fresh(t, s)
           th == [pc |-> IF hit THEN "holds" ELSE "get", id |-> s,
                  ver |-> IF hit THEN copy.ver ELSE None, readAt |-> 0]
           c == IF hit THEN copy ELSE NoCopy
<1>1. /\ thread' = [thread EXCEPT ![t] = th]
      /\ sessionsInThread' = [sessionsInThread EXCEPT ![t][s] = c]
      /\ now' = now /\ saves' = saves /\ until' = until /\ redis' = redis
      /\ created' = created /\ faults' = faults
  BY DEF DoReadSession
<1>2. copy \in Copy /\ NoCopy \in Copy
  BY Types DEF NoCopy, Copy
<1>3. /\ th \in Thread /\ th.pc # "remember" /\ th.id = s /\ s # None
      /\ th.pc \in Holding => th.ver # None
  <2>1. /\ copy.ver \in {Dirty, None} \cup Versions
        /\ s # None
    BY <1>2, Types DEF Copy
  <2>2. CASE hit
    <3>1. th = [pc |-> "holds", id |-> s, ver |-> copy.ver, readAt |-> 0]
      BY <2>2
    <3> QED
      BY <2>1, <2>2, <3>1 DEF Thread, Holding
  <2>3. CASE ~hit
    <3>1. th = [pc |-> "get", id |-> s, ver |-> None, readAt |-> 0]
      BY <2>3
    <3> QED
      BY <2>1, <3>1 DEF Thread, Holding
  <2> QED
    BY <2>2, <2>3
<1>4. c \in Copy /\ (c = copy \/ c = NoCopy)
  BY <1>2
<1>5. created \subseteq Sessions /\ faults \in Nat /\ now \in Nat /\ None \notin Versions
  BY Types DEF StoreInv, TypeOK
<1> HIDE DEF th, c
<1>6. /\ thread' \in [Threads -> Thread]
      /\ sessionsInThread' \in [Threads -> [Sessions -> Copy]]
      /\ thread'[t] = th /\ sessionsInThread'[t][s] = c
      /\ \A u \in Threads : u # t => thread'[u] = thread[u]
      /\ \A u \in Threads, r \in Sessions :
           ~(u = t /\ r = s) => sessionsInThread'[u][r] = sessionsInThread[u][r]
  <2>1. /\ thread \in [Threads -> Thread]
        /\ sessionsInThread \in [Threads -> [Sessions -> Copy]]
    BY DEF StoreInv, TypeOK, Thread, Copy
  <2> QED
    BY <1>1, <1>3, <1>4, <2>1
<1>7. c = copy \/ CopyOK(t, s)'
  BY <1>1, <1>4, <1>5, <1>6 DEF CopyOK, NoCopy
<1>8. \A u \in Threads, r \in Sessions :
        sessionsInThread'[u][r] = sessionsInThread[u][r] \/ CopyOK(u, r)'
  BY <1>6, <1>7
<1>9. ReadOK(t)'
  BY <1>3, <1>6 DEF ReadOK
<1> QED
  BY <1>1, <1>3, <1>5, <1>6, <1>8, <1>9, MoveThread

LEMMA GetStore ==
    ASSUME StoreInv, NEW t \in Threads, Get(t)
    PROVE  StoreInv'
<1> DEFINE s == thread[t].id
           th == [thread[t] EXCEPT !.pc = "remember", !.ver = redis[s].ver, !.readAt = now]
<1>1. /\ thread' = [thread EXCEPT ![t] = th] /\ sessionsInThread' = sessionsInThread
      /\ now' = now /\ saves' = saves /\ until' = until /\ redis' = redis
      /\ created' = created /\ faults' = faults
  BY DEF Get
<1>2. s \in Sessions /\ s # None /\ thread[t] \in Thread /\ redis[s] \in Entry /\ now \in Nat
  BY Types DEF Get
<1>3. /\ th \in Thread /\ th.pc = "remember" /\ th.id = s
      /\ th.ver = redis[s].ver /\ th.readAt = now
  BY <1>2 DEF Thread, Entry
<1>4. /\ thread \in [Threads -> Thread] /\ created \subseteq Sessions /\ faults \in Nat
      /\ sessionsInThread \in [Threads -> [Sessions -> Copy]]
  BY DEF StoreInv, TypeOK, Thread, Copy
<1>5. redis[s].ver \in Versions => until[redis[s].ver] = None
  BY <1>2, Types DEF StoreInv, CurrentOK
<1> HIDE DEF th
<1>6. thread' \in [Threads -> Thread] /\ thread'[t] = th
      /\ \A u \in Threads : u # t => thread'[u] = thread[u]
  BY <1>1, <1>3, <1>4
<1>7. ReadOK(t)'
  BY <1>1, <1>2, <1>3, <1>5, <1>6 DEF ReadOK, StoredAt
<1>8. th.pc \notin Holding
  BY <1>3 DEF Holding
<1> QED
  BY <1>1, <1>2, <1>3, <1>4, <1>6, <1>7, <1>8, MoveThread

LEMMA RememberStore ==
    ASSUME StoreInv, NEW t \in Threads, Remember(t)
    PROVE  StoreInv'
<1> PICK s \in Sessions : s = thread[t].id
  BY Types DEF Remember
<1> DEFINE th == IF thread[t].ver = None THEN Idle ELSE [thread[t] EXCEPT !.pc = "holds"]
<1>1. /\ thread' = [thread EXCEPT ![t] = th]
      /\ sessionsInThread' =
           [sessionsInThread EXCEPT ![t][s] =
              [ver |-> thread[t].ver, createTime |-> now, lag |-> now - thread[t].readAt]]
      /\ now' = now /\ saves' = saves /\ until' = until /\ redis' = redis
      /\ created' = created /\ faults' = faults
      /\ thread[t].pc = "remember"
  BY DEF Remember
<1>2. /\ s # None /\ thread[t] \in Thread /\ now \in Nat
      /\ created \subseteq Sessions /\ faults \in Nat
      /\ thread \in [Threads -> Thread]
      /\ sessionsInThread \in [Threads -> [Sessions -> Copy]]
  BY <1>1, Types DEF StoreInv, TypeOK, Thread, Copy
<1>3. /\ thread[t].readAt \in Nat /\ thread[t].readAt <= now
      /\ thread[t].ver \in Versions => StoredAt(thread[t].ver, thread[t].readAt)
      /\ thread[t].ver \in {Dirty, None} \cup Versions
  BY <1>1, <1>2 DEF StoreInv, ReadOK, Thread
<1>4. PICK c \in Copy :
        c = [ver |-> thread[t].ver, createTime |-> now, lag |-> now - thread[t].readAt]
  <2>1. now - thread[t].readAt \in Nat
    BY <1>2, <1>3
  <2>2. [ver |-> thread[t].ver, createTime |-> now, lag |-> now - thread[t].readAt] \in Copy
    BY <1>2, <1>3, <2>1 DEF Copy
  <2> QED
    BY <2>2
<1>5. /\ th \in Thread /\ th.pc # "remember" /\ (th.pc # "idle" => th.id # None)
      /\ th.pc \in Holding => th.ver # None
  <2>1. CASE thread[t].ver = None
    BY <2>1 DEF Idle, Thread, Holding
  <2>2. CASE thread[t].ver # None
    BY <1>2, <2>2 DEF Thread, Holding
  <2> QED
    BY <2>1, <2>2
<1> HIDE DEF th
<1>6. /\ thread' \in [Threads -> Thread]
      /\ sessionsInThread' \in [Threads -> [Sessions -> Copy]]
      /\ thread'[t] = th /\ sessionsInThread'[t][s] = c
      /\ \A u \in Threads : u # t => thread'[u] = thread[u]
      /\ \A u \in Threads, r \in Sessions :
           ~(u = t /\ r = s) => sessionsInThread'[u][r] = sessionsInThread[u][r]
  <2>1. sessionsInThread' = [sessionsInThread EXCEPT ![t][s] = c]
    BY <1>1, <1>4
  <2> QED
    BY <1>1, <1>2, <1>5, <2>1
<1>7. CopyOK(t, s)'
  <2>1. c.createTime <= now' /\ c.createTime - c.lag = thread[t].readAt
    BY <1>1, <1>2, <1>3, <1>4
  <2>2. c.ver \in Versions => StoredAt(c.ver, c.createTime - c.lag)'
    BY <1>1, <1>3, <1>4, <2>1 DEF StoredAt
  <2> QED
    BY <1>6, <2>1, <2>2 DEF CopyOK
<1>8. \A u \in Threads, r \in Sessions :
        sessionsInThread'[u][r] = sessionsInThread[u][r] \/ CopyOK(u, r)'
  BY <1>6, <1>7
<1>9. ReadOK(t)'
  BY <1>5, <1>6 DEF ReadOK
<1> QED
  BY <1>1, <1>2, <1>5, <1>6, <1>8, <1>9, MoveThread

\* A thread that holds a session changes nothing in its copy but the version.
LEMMA StampedCopies ==
    ASSUME StoreInv, NEW t \in Threads, thread[t].pc \in Holding,
           NEW n \in {Dirty} \cup Versions, sessionsInThread' = Stamped(t, n)
    PROVE  /\ sessionsInThread' \in [Threads -> [Sessions -> Copy]]
           /\ \A u \in Threads, r \in Sessions :
                \/ sessionsInThread'[u][r] = sessionsInThread[u][r]
                \/ /\ sessionsInThread'[u][r].ver = n
                   /\ sessionsInThread'[u][r].createTime = sessionsInThread[u][r].createTime
                   /\ sessionsInThread'[u][r].lag = sessionsInThread[u][r].lag
<1> DEFINE s == thread[t].id
           old == sessionsInThread[t][s]
           c == IF old.ver = None THEN old ELSE [old EXCEPT !.ver = n]
<1>1. s \in Sessions
  BY Types DEF Holding
<1>2. old \in Copy
  BY <1>1, Types
<1>3. c \in Copy /\ (c = old \/ (c.ver = n /\ c.createTime = old.createTime /\ c.lag = old.lag))
  BY <1>2 DEF Copy
<1>4. sessionsInThread' = [sessionsInThread EXCEPT ![t][s] = c]
  BY DEF Stamped
<1>5. sessionsInThread \in [Threads -> [Sessions -> Copy]]
  BY DEF StoreInv, TypeOK, Copy
<1> HIDE DEF c
<1>6. /\ sessionsInThread' \in [Threads -> [Sessions -> Copy]]
      /\ sessionsInThread'[t][s] = c
      /\ \A u \in Threads, r \in Sessions :
           ~(u = t /\ r = s) => sessionsInThread'[u][r] = sessionsInThread[u][r]
  BY <1>1, <1>3, <1>4, <1>5
<1> QED
  BY <1>3, <1>6

LEMMA UpdateStore ==
    ASSUME StoreInv, NEW t \in Threads, Update(t)
    PROVE  StoreInv'
<1> DEFINE th == [thread[t] EXCEPT !.pc = "set", !.ver = Dirty]
<1>1. /\ thread' = [thread EXCEPT ![t] = th] /\ sessionsInThread' = Stamped(t, Dirty)
      /\ now' = now /\ saves' = saves /\ until' = until /\ redis' = redis
      /\ created' = created /\ faults' = faults
      /\ thread[t].pc = "holds"
  BY DEF Update
<1>2. /\ thread[t] \in Thread /\ thread[t].id # None /\ Dirty # None /\ Dirty \notin Versions
      /\ created \subseteq Sessions /\ faults \in Nat
      /\ thread \in [Threads -> Thread] /\ thread[t].pc \in Holding
  BY <1>1, Types DEF StoreInv, TypeOK, Dirty, Versions, Thread, Holding
<1>3. th \in Thread /\ th.pc = "set" /\ th.id = thread[t].id /\ th.ver = Dirty
  BY <1>2 DEF Thread, Holding
<1> HIDE DEF th
<1>4. thread' \in [Threads -> Thread] /\ thread'[t] = th
      /\ \A u \in Threads : u # t => thread'[u] = thread[u]
  BY <1>1, <1>2, <1>3
<1>5. /\ sessionsInThread' \in [Threads -> [Sessions -> Copy]]
      /\ \A u \in Threads, r \in Sessions :
           \/ sessionsInThread'[u][r] = sessionsInThread[u][r]
           \/ /\ sessionsInThread'[u][r].ver = Dirty
              /\ sessionsInThread'[u][r].createTime = sessionsInThread[u][r].createTime
  BY <1>1, <1>2, StampedCopies
<1>6. \A u \in Threads, r \in Sessions :
        sessionsInThread'[u][r] = sessionsInThread[u][r] \/ CopyOK(u, r)'
  BY <1>1, <1>2, <1>5 DEF StoreInv, CopyOK
<1>7. ReadOK(t)'
  BY <1>3, <1>4 DEF ReadOK
<1> QED
  BY <1>1, <1>2, <1>3, <1>4, <1>5, <1>6, <1>7, MoveThread

LEMMA LetGoStore ==
    ASSUME StoreInv, NEW t \in Threads, Release(t) \/ CommandFails(t)
    PROVE  StoreInv'
<1>1. /\ thread' = [thread EXCEPT ![t] = Idle] /\ sessionsInThread' = sessionsInThread
      /\ now' = now /\ saves' = saves /\ until' = until /\ redis' = redis
      /\ created' = created /\ faults' \in {faults, faults + 1}
  BY DEF Release, CommandFails
<1>2. /\ created \subseteq Sessions /\ faults \in Nat /\ thread \in [Threads -> Thread]
      /\ sessionsInThread \in [Threads -> [Sessions -> Copy]]
  BY DEF StoreInv, TypeOK, Thread, Copy
<1>3. Idle \in Thread /\ Idle.pc = "idle" /\ "idle" \notin Holding
  BY DEF Idle, Thread, Holding
<1>4. thread' \in [Threads -> Thread] /\ thread'[t] = Idle
      /\ \A u \in Threads : u # t => thread'[u] = thread[u]
  BY <1>1, <1>2, <1>3
<1>5. ReadOK(t)'
  BY <1>3, <1>4 DEF ReadOK
<1> QED
  BY <1>1, <1>2, <1>3, <1>4, <1>5, MoveThread

LEMMA SetStore ==
    ASSUME StoreInv, NEW t \in Threads, Set(t)
    PROVE  StoreInv'
<1> PICK s \in Sessions : s = thread[t].id
  BY Types DEF Set
<1> PICK n \in Nat : n = saves + 1
  BY Types
<1> DEFINE th == [thread[t] EXCEPT !.pc = "expire", !.ver = n]
           e == [ver |-> n, expiry |-> None]
<1>1. /\ thread' = [thread EXCEPT ![t] = th] /\ sessionsInThread' = Stamped(t, n)
      /\ redis' = [redis EXCEPT ![s] = e] /\ until' = Ended(s)
      /\ now' = now /\ saves' = n /\ created' = created /\ faults' = faults
      /\ thread[t].pc = "set" /\ saves < MaxSaves
  BY DEF Set
<1>2. /\ thread[t] \in Thread /\ thread \in [Threads -> Thread] /\ saves \in Nat
      /\ created \subseteq Sessions /\ faults \in Nat /\ now \in Nat /\ None \notin Nat
      /\ MaxSaves \in Nat /\ s # None
  BY StoreConstants, Types DEF StoreInv, TypeOK, Thread
<1>3. n \in Versions /\ n # None /\ thread[t].pc \in Holding
  BY <1>1, <1>2 DEF Versions, Holding
<1>4. th \in Thread /\ th.pc = "expire" /\ th.id = s /\ th.ver = n
  BY <1>2, <1>3 DEF Thread, Holding
<1>5. e \in Entry /\ e.ver = n
  BY <1>3 DEF Entry
<1> HIDE DEF th, e
<1>6. /\ thread' \in [Threads -> Thread] /\ thread'[t] = th
      /\ \A u \in Threads : u # t => thread'[u] = thread[u]
  BY <1>1, <1>2, <1>4
<1>7. /\ CurrentOK'
      /\ redis' \in [Sessions -> Entry] /\ until' \in [Versions -> Nat \cup {None}]
      /\ \A m \in Versions : until'[m] = until[m] \/ until'[m] = now
      /\ \A m \in Versions : m > saves => until'[m] = None
  BY <1>1, <1>5, CurrentKept
<1>8. /\ sessionsInThread' \in [Threads -> [Sessions -> Copy]]
      /\ \A u \in Threads, r \in Sessions :
           \/ sessionsInThread'[u][r] = sessionsInThread[u][r]
           \/ /\ sessionsInThread'[u][r].ver = n
              /\ sessionsInThread'[u][r].createTime = sessionsInThread[u][r].createTime
  BY <1>1, <1>3, StampedCopies
<1>9. TypeOK'
  <2>1. \A u \in Threads : /\ thread'[u].pc # "idle" => thread'[u].id # None
                           /\ thread'[u].pc \in Holding => thread'[u].ver # None
    BY <1>2, <1>3, <1>4, <1>6 DEF StoreInv, TypeOK
  <2>2. n \in 0..MaxSaves
    BY <1>1, <1>2
  <2> QED
    BY <1>1, <1>2, <1>6, <1>7, <1>8, <2>1, <2>2 DEF TypeOK, Thread, Copy, Entry
<1>10. \A u \in Threads : ReadOK(u)'
  <2>1. ReadOK(t)'
    BY <1>4, <1>6 DEF ReadOK
  <2> QED
    BY <1>1, <1>6, <1>7, <2>1, ReadersKept
<1>11. \A u \in Threads, r \in Sessions : CopyOK(u, r)'
  <2> SUFFICES ASSUME NEW u \in Threads, NEW r \in Sessions PROVE CopyOK(u, r)'
    OBVIOUS
  <2>1. CASE sessionsInThread'[u][r] = sessionsInThread[u][r]
    BY <1>1, <1>7, <2>1, ReadersKept
  <2>2. CASE sessionsInThread'[u][r].ver = n
             /\ sessionsInThread'[u][r].createTime = sessionsInThread[u][r].createTime
    <3>1. until'[n] = None
      BY <1>2, <1>3, <1>7
    <3>2. sessionsInThread[u][r].createTime <= now'
      BY <1>1 DEF StoreInv, CopyOK
    <3> QED
      BY <2>2, <3>1, <3>2 DEF CopyOK, StoredAt
  <2> QED
    BY <1>8, <2>1, <2>2
<1> QED
  BY <1>7, <1>9, <1>10, <1>11 DEF StoreInv

LEMMA DeleteStore ==
    ASSUME StoreInv, NEW t \in Threads, Delete(t)
    PROVE  StoreInv'
<1> PICK s \in Sessions : s = thread[t].id
  BY Types DEF Delete
<1>1. /\ thread' = [thread EXCEPT ![t] = Idle] /\ sessionsInThread' = sessionsInThread
      /\ redis' = [redis EXCEPT ![s] = Absent] /\ until' = Ended(s)
      /\ now' = now /\ saves' = saves /\ created' = created /\ faults' = faults
  BY DEF Delete
<1>2. Absent \in Entry /\ Absent.ver = None /\ Idle \in Thread /\ Idle.pc = "idle"
      /\ "idle" \notin Holding
  BY DEF Absent, Entry, Idle, Thread, Holding
<1>3. /\ CurrentOK'
      /\ redis' \in [Sessions -> Entry] /\ until' \in [Versions -> Nat \cup {None}]
      /\ \A m \in Versions : until'[m] = until[m] \/ until'[m] = now
  BY <1>1, <1>2, CurrentKept
<1>4. thread \in [Threads -> Thread]
  BY DEF StoreInv, TypeOK, Thread
<1>5. /\ thread' \in [Threads -> Thread] /\ thread'[t] = Idle
      /\ \A u \in Threads : u # t => thread'[u] = thread[u]
  BY <1>1, <1>2, <1>4
<1>6. TypeOK'
  <2>1. \A u \in Threads : /\ thread'[u].pc # "idle" => thread'[u].id # None
                           /\ thread'[u].pc \in Holding => thread'[u].ver # None
    BY <1>2, <1>5 DEF StoreInv, TypeOK
  <2> QED
    BY <1>1, <1>3, <1>5, <2>1 DEF StoreInv, TypeOK, Thread, Entry
<1>7. \A u \in Threads : ReadOK(u)'
  <2>1. ReadOK(t)'
    BY <1>2, <1>5 DEF ReadOK
  <2> QED
    BY <1>1, <1>3, <1>5, <2>1, ReadersKept
<1>8. \A u \in Threads, r \in Sessions : CopyOK(u, r)'
  BY <1>1, <1>3, ReadersKept
<1> QED
  BY <1>3, <1>6, <1>7, <1>8 DEF StoreInv

LEMMA SetExpireStore ==
    ASSUME StoreInv, NEW t \in Threads, SetExpire(t)
    PROVE  StoreInv'
<1> PICK s \in Sessions : s = thread[t].id
  BY Types DEF SetExpire
<1> DEFINE th == [thread[t] EXCEPT !.pc = "holds"]
<1>1. /\ thread' = [thread EXCEPT ![t] = th] /\ sessionsInThread' = sessionsInThread
      /\ redis' = redis \/ redis' = [redis EXCEPT ![s].expiry = now + Expire]
      /\ now' = now /\ saves' = saves /\ created' = created /\ faults' = faults
      /\ until' = until /\ thread[t].pc = "expire"
  BY DEF SetExpire
<1>2. /\ thread[t] \in Thread /\ thread \in [Threads -> Thread] /\ thread[t].ver # None
      /\ redis \in [Sessions -> Entry] /\ now + Expire \in Nat /\ s # None
  BY <1>1, StoreConstants DEF StoreInv, TypeOK, Thread, Holding, Entry
<1>3. th \in Thread /\ th.pc = "holds" /\ th.id = s /\ th.ver = thread[t].ver
  BY <1>2 DEF Thread, Holding
<1> HIDE DEF th
<1>4. /\ thread' \in [Threads -> Thread] /\ thread'[t] = th
      /\ \A u \in Threads : u # t => thread'[u] = thread[u]
  BY <1>1, <1>2, <1>3
<1>5. /\ redis' \in [Sessions -> Entry]
      /\ \A r \in Sessions : redis'[r].ver = redis[r].ver
  <2>1. CASE redis' = redis
    BY <1>2, <2>1
  <2>2. CASE redis' = [redis EXCEPT ![s].expiry = now + Expire]
    BY <1>2, <2>2 DEF Entry
  <2> QED
    BY <1>1, <2>1, <2>2
<1>6. TypeOK'
  <2>1. \A u \in Threads : /\ thread'[u].pc # "idle" => thread'[u].id # None
                           /\ thread'[u].pc \in Holding => thread'[u].ver # None
    BY <1>2, <1>3, <1>4 DEF StoreInv, TypeOK
  <2> QED
    BY <1>1, <1>4, <1>5, <2>1 DEF StoreInv, TypeOK, Thread, Entry
<1>7. CurrentOK'
  BY <1>1, <1>5 DEF StoreInv, CurrentOK
<1>8. \A u \in Threads : ReadOK(u)'
  <2>1. ReadOK(t)'
    BY <1>3, <1>4 DEF ReadOK
  <2> QED
    BY <1>1, <1>4, <2>1, ReadersKept
<1>9. \A u \in Threads, r \in Sessions : CopyOK(u, r)'
  BY <1>1, ReadersKept
<1> QED
  BY <1>6, <1>7, <1>8, <1>9 DEF StoreInv

LEMMA TickStore == StoreInv /\ Tick => StoreInv'
<1> SUFFICES ASSUME StoreInv, Tick PROVE StoreInv'
  OBVIOUS
<1>1. /\ now' = now + 1 /\ now \in Nat
      /\ sessionsInThread' = sessionsInThread /\ thread' = thread
      /\ saves' = saves /\ created' = created /\ faults' = faults
      /\ redis \in [Sessions -> Entry] /\ until \in [Versions -> Nat \cup {None}]
  BY DEF Tick, StoreInv, TypeOK, Entry
<1>2. /\ redis' \in [Sessions -> Entry]
      /\ \A r \in Sessions : redis'[r].ver # None => redis'[r] = redis[r] /\ ~Lapses(r)
  <2>1. Absent \in Entry /\ Absent.ver = None
    BY DEF Absent, Entry
  <2> QED
    BY <1>1, <2>1 DEF Tick
<1>3. /\ until' \in [Versions -> Nat \cup {None}]
      /\ \A n \in Versions : until'[n] = until[n] \/ until'[n] = now + 1
      /\ \A n \in Versions :
           until'[n] = until[n] \/ \E s \in Sessions : Lapses(s) /\ redis[s].ver = n
  BY <1>1 DEF Tick
<1>4. /\ \A r \in Sessions : redis[r].ver \in Versions \cup {None}
      /\ \A n \in Versions : n \in Nat /\ n # None
      /\ saves \in Nat
  BY <1>1, Types DEF Entry
<1>5. /\ \A r \in Sessions : redis[r].ver # None =>
           /\ until[redis[r].ver] = None /\ redis[r].ver <= saves
           /\ \A q \in Sessions : redis[q].ver = redis[r].ver => q = r
      /\ \A n \in Versions : n > saves => until[n] = None
  BY DEF StoreInv, CurrentOK
<1>6. CurrentOK'
  <2>1. ASSUME NEW r \in Sessions, redis'[r].ver # None
        PROVE  /\ until'[redis'[r].ver] = None /\ redis'[r].ver <= saves'
               /\ \A q \in Sessions : redis'[q].ver = redis'[r].ver => q = r
    <3>1. redis'[r] = redis[r] /\ ~Lapses(r) /\ redis[r].ver \in Versions
      BY <1>2, <1>4, <2>1
    <3>2. until'[redis[r].ver] = until[redis[r].ver]
      BY <1>3, <1>4, <1>5, <3>1
    <3>3. \A q \in Sessions : redis'[q].ver = redis[r].ver => q = r
      BY <1>2, <1>4, <1>5, <3>1
    <3> QED
      BY <1>1, <1>4, <1>5, <3>1, <3>2, <3>3
  <2>2. ASSUME NEW n \in Versions, n > saves PROVE until'[n] = None
    <3>1. \A s \in Sessions : redis[s].ver # n
      BY <1>4, <1>5, <2>2
    <3> QED
      BY <1>3, <1>5, <2>2, <3>1
  <2> QED
    BY <1>1, <2>1, <2>2 DEF CurrentOK
<1>7. TypeOK'
  BY <1>1, <1>2, <1>3 DEF StoreInv, TypeOK, Entry
<1>8. \A t \in Threads : ReadOK(t)' /\ \A s \in Sessions : CopyOK(t, s)'
  BY <1>1, <1>3, ReadersKept
<1> QED
  BY <1>6, <1>7, <1>8 DEF StoreInv

LEMMA NextStore == StoreInv /\ [Next]_vars => StoreInv'
<1> SUFFICES ASSUME StoreInv, [Next]_vars PROVE StoreInv'
  OBVIOUS
<1>1. CASE Tick
  BY <1>1, TickStore
<1>2. ASSUME NEW t \in Threads, NEW s \in Sessions, DoCreate(t, s) \/ DoReadSession(t, s)
      PROVE  StoreInv'
  BY <1>2, CreateStore, ReadStore
<1>3. ASSUME NEW t \in Threads, Get(t) \/ Remember(t) \/ Update(t) PROVE StoreInv'
  BY <1>3, GetStore, RememberStore, UpdateStore
<1>4. ASSUME NEW t \in Threads, Set(t) \/ SetExpire(t) \/ Delete(t) PROVE StoreInv'
  BY <1>4, SetStore, SetExpireStore, DeleteStore
<1>5. ASSUME NEW t \in Threads, Release(t) \/ CommandFails(t) PROVE StoreInv'
  BY <1>5, LetGoStore
<1>6. CASE UNCHANGED vars
  <2>1. /\ now' = now /\ redis' = redis /\ sessionsInThread' = sessionsInThread
        /\ thread' = thread /\ created' = created /\ saves' = saves /\ until' = until
        /\ faults' = faults
    BY <1>6 DEF vars
  <2>2. TypeOK'
    BY <2>1 DEF StoreInv, TypeOK
  <2> QED
    BY <2>1, <2>2, RedisKept DEF StoreInv
<1> QED
  BY <1>1, <1>2, <1>3, <1>4, <1>5, <1>6 DEF Next

\* The inductive invariant holds: readers and copies have versions that were in
\* Redis when they were read, and what is in Redis has not been replaced.
THEOREM StoreInvariant == Spec => []StoreInv
BY InitStore, NextStore, PTL DEF Spec

-----------------------------------------------------------------------------
(* Theorems                                                                *)

\* The shapes of the state, and nobody works with a session that a read of the
\* store did not find.
THEOREM StoreTypeCorrect == Spec => []TypeOK
<1>1. StoreInv => TypeOK
  BY DEF StoreInv
<1> QED
  BY <1>1, StoreInvariant, PTL

-----------------------------------------------------------------------------
(* Copies are not too old                                                  *)

\* A read ends with a copy that is young enough, or with one that it has just
\* made.
LEMMA ReadEnds ==
    ASSUME StoreInv, [Next]_vars, NEW t \in Threads, NEW s \in Sessions,
           thread[t].pc \in {"idle", "remember"}, thread'[t].pc = "holds", thread'[t].id = s
    PROVE  /\ now' = now /\ until' = until
           /\ \/ sessionsInThread'[t][s].createTime = now
              \/ now - sessionsInThread'[t][s].createTime < InMemoryTimeout
<1>1. /\ thread \in [Threads -> Thread] /\ now \in Nat
      /\ sessionsInThread \in [Threads -> [Sessions -> Copy]]
      /\ thread'[t] # thread[t]
  BY DEF StoreInv, TypeOK, Thread, Copy
<1>2. CASE Remember(t)
  <2>1. thread[t].id = s
    BY <1>1, <1>2 DEF Remember, Thread, Idle
  <2> QED
    BY <1>1, <1>2, <2>1 DEF Remember
<1>3. ASSUME NEW r \in Sessions, DoReadSession(t, r)
      PROVE  r = s /\ now' = now /\ until' = until
             /\ now - sessionsInThread'[t][s].createTime < InMemoryTimeout
  <2> DEFINE copy == sessionsInThread[t][r]
             hit == copy.ver # None /\ Fresh(t, r)
  <2>1. thread'[t] = [pc |-> IF hit THEN "holds" ELSE "get", id |-> r,
                      ver |-> IF hit THEN copy.ver ELSE None, readAt |-> 0]
    BY <1>1, <1>3 DEF DoReadSession
  <2>2. r = s /\ hit
    BY <2>1
  <2>3. sessionsInThread'[t][r] = copy
    BY <1>1, <1>3, <2>2 DEF DoReadSession
  <2> QED
    BY <1>3, <2>2, <2>3 DEF DoReadSession, Fresh
<1>4. ASSUME NEW r \in Sessions, DoCreate(t, r) PROVE FALSE
  BY <1>1, <1>4 DEF DoCreate, Idle, Thread
<1>5. ~Get(t) /\ ~Update(t) /\ ~Set(t) /\ ~SetExpire(t)
  BY DEF Get, Update, Set, SetExpire
<1>6. ~Delete(t) /\ ~Release(t) /\ ~CommandFails(t)
  BY <1>1 DEF Delete, Release, CommandFails
<1>7. ASSUME NEW u \in Threads, u # t,
             \/ \E r \in Sessions : DoCreate(u, r) \/ DoReadSession(u, r)
             \/ Get(u) \/ Remember(u) \/ Update(u) \/ Set(u) \/ SetExpire(u)
             \/ Delete(u) \/ Release(u) \/ CommandFails(u)
      PROVE  thread'[t] = thread[t]
  <2>1. CASE \E r \in Sessions : DoCreate(u, r) \/ DoReadSession(u, r)
    BY <1>1, <1>7, <2>1 DEF DoCreate, DoReadSession
  <2>2. CASE Get(u) \/ Remember(u) \/ Update(u) \/ Set(u) \/ SetExpire(u)
    BY <1>1, <1>7, <2>2 DEF Get, Remember, Update, Set, SetExpire
  <2>3. CASE Delete(u) \/ Release(u) \/ CommandFails(u)
    BY <1>1, <1>7, <2>3 DEF Delete, Release, CommandFails
  <2> QED
    BY <1>7, <2>1, <2>2, <2>3
<1>8. ~Tick /\ ~(UNCHANGED vars)
  BY <1>1 DEF Tick, vars
<1>9. PICK u \in Threads :
             \/ \E r \in Sessions : DoCreate(u, r) \/ DoReadSession(u, r)
             \/ Get(u) \/ Remember(u) \/ Update(u) \/ Set(u) \/ SetExpire(u)
             \/ Delete(u) \/ Release(u) \/ CommandFails(u)
  BY <1>8 DEF Next
<1>10. u = t
  BY <1>1, <1>7, <1>9
<1> QED
  BY <1>2, <1>3, <1>4, <1>5, <1>6, <1>9, <1>10

\* However often a thread reads a session, what it gets was in Redis at most
\* InMemoryTimeout ago, apart from the lag between reading and stamping.
THEOREM ReadsAreFresh == Spec => ReadFresh
<1>1. StoreInv /\ StoreInv' /\ [Next]_vars =>
        [\A t \in Threads, s \in Sessions :
           LET copy == sessionsInThread'[t][s]
               n == copy.ver
           IN /\ thread[t].pc \in {"idle", "remember"} /\ thread'[t].pc = "holds"
              /\ thread'[t].id = s /\ n \in Versions
              => \/ until[n] = None
                 \/ now <= until[n] + InMemoryTimeout + copy.lag]_vars
  <2> SUFFICES ASSUME StoreInv, StoreInv', [Next]_vars, NEW t \in Threads, NEW s \in Sessions,
                      thread[t].pc \in {"idle", "remember"}, thread'[t].pc = "holds",
                      thread'[t].id = s, sessionsInThread'[t][s].ver \in Versions
               PROVE  LET copy == sessionsInThread'[t][s]
                      IN \/ until[copy.ver] = None
                         \/ now <= until[copy.ver] + InMemoryTimeout + copy.lag
    OBVIOUS
  <2>1. /\ now' = now /\ until' = until
        /\ \/ sessionsInThread'[t][s].createTime = now
           \/ now - sessionsInThread'[t][s].createTime < InMemoryTimeout
    BY ReadEnds
  <2>2. sessionsInThread'[t][s] \in Copy /\ until \in [Versions -> Nat \cup {None}]
        /\ now \in Nat /\ InMemoryTimeout \in Nat
    BY StoreConstants DEF StoreInv, TypeOK, Copy
  <2>3. PICK c \in Copy : c = sessionsInThread'[t][s]
    BY <2>2
  <2>4. c.createTime \in Nat /\ c.lag \in Nat /\ until[c.ver] \in Nat \cup {None}
    BY <2>2, <2>3 DEF Copy
  <2>5. until[c.ver] = None \/ c.createTime - c.lag <= until[c.ver]
    BY <2>1, <2>3 DEF StoreInv, CopyOK, StoredAt
  <2>6. until[c.ver] = None \/ now <= until[c.ver] + InMemoryTimeout + c.lag
    BY <2>1, <2>2, <2>3, <2>4, <2>5
  <2> QED
    BY <2>3, <2>6
<1> QED
  BY <1>1, StoreInvariant, PTL DEF Spec, ReadFresh

-----------------------------------------------------------------------------
(* Sessions that are gone stay gone                                        *)

HeldBy(t, s) ==
    \/ thread[t].id = s /\ thread[t].pc \in Holding
    \/ thread[t].id = s /\ thread[t].pc = "remember" /\ thread[t].ver # None
    \/ /\ sessionsInThread[t][s].ver # None
       /\ now - sessionsInThread[t][s].createTime < InMemoryTimeout

\* A step of the thread t with another session, or with none.
LEMMA OtherSession ==
    ASSUME StoreInv, NEW t \in Threads, NEW s \in Sessions, Dead(s),
           s \in created', redis'[s] = redis[s], now' = now,
           \A u \in Threads : u # t => thread'[u] = thread[u],
           \A u \in Threads : u # t => sessionsInThread'[u][s] = sessionsInThread[u][s],
           ~HeldBy(t, s)'
    PROVE  Dead(s)'
<1>1. \A u \in Threads : ~HeldBy(u, s)
  BY DEF Dead, Held, HeldBy
<1>2. ASSUME NEW u \in Threads PROVE ~HeldBy(u, s)'
  <2>1. CASE u = t
    BY <2>1 DEF HeldBy
  <2>2. CASE u # t
    BY <1>1, <2>2 DEF HeldBy
  <2> QED
    BY <2>1, <2>2
<1> QED
  BY <1>2 DEF Dead, Held, HeldBy

LEMMA DeadReads ==
    ASSUME StoreInv, NEW t \in Threads, NEW s \in Sessions, Dead(s),
           \/ \E r \in Sessions : DoCreate(t, r) \/ DoReadSession(t, r)
           \/ Get(t) \/ Remember(t)
    PROVE  Dead(s)'
<1>1. /\ thread \in [Threads -> Thread] /\ now \in Nat /\ s \in created /\ redis[s].ver = None
      /\ sessionsInThread \in [Threads -> [Sessions -> Copy]]
      /\ ~HeldBy(t, s) /\ s # None
  BY StoreConstants DEF StoreInv, TypeOK, Thread, Copy, Dead, Held, HeldBy
<1>2. ASSUME NEW r \in Sessions, DoCreate(t, r) PROVE Dead(s)'
  <2>1. r # s /\ thread'[t].id = r /\ sessionsInThread' = sessionsInThread
        /\ s \in created' /\ redis' = redis /\ now' = now
        /\ \A u \in Threads : u # t => thread'[u] = thread[u]
    BY <1>1, <1>2 DEF DoCreate, Idle
  <2>2. ~HeldBy(t, s)'
    BY <1>1, <2>1 DEF HeldBy
  <2> QED
    BY <2>1, <2>2, OtherSession
<1>3. ASSUME NEW r \in Sessions, DoReadSession(t, r) PROVE Dead(s)'
  <2> DEFINE copy == sessionsInThread[t][r]
             hit == copy.ver # None /\ Fresh(t, r)
  <2>1. /\ redis' = redis /\ now' = now /\ created' = created
        /\ \A u \in Threads : u # t => thread'[u] = thread[u]
                               /\ sessionsInThread'[u] = sessionsInThread[u]
        /\ thread'[t] = [pc |-> IF hit THEN "holds" ELSE "get", id |-> r,
                         ver |-> IF hit THEN copy.ver ELSE None, readAt |-> 0]
        /\ sessionsInThread'[t][r] = IF hit THEN copy ELSE NoCopy
        /\ r # s => sessionsInThread'[t][s] = sessionsInThread[t][s]
    BY <1>1, <1>3 DEF DoReadSession
  <2>2. r = s => ~hit
    BY <1>1 DEF HeldBy, Fresh
  <2>3. ~HeldBy(t, s)'
    <3>1. CASE r = s
      <4>1. thread'[t].pc = "get" /\ sessionsInThread'[t][s] = NoCopy
        BY <2>1, <2>2, <3>1
      <4> QED
        BY <4>1 DEF HeldBy, NoCopy, Holding
    <3>2. CASE r # s
      BY <1>1, <2>1, <3>2 DEF HeldBy
    <3> QED
      BY <3>1, <3>2
  <2> QED
    BY <1>1, <2>1, <2>3, OtherSession
<1>4. CASE Get(t)
  <2>1. /\ redis' = redis /\ now' = now /\ created' = created
        /\ sessionsInThread' = sessionsInThread
        /\ \A u \in Threads : u # t => thread'[u] = thread[u]
        /\ thread'[t].pc = "remember" /\ thread'[t].id = thread[t].id
        /\ thread'[t].ver = redis[thread[t].id].ver
    BY <1>1, <1>4 DEF Get, Thread
  <2>2. ~HeldBy(t, s)'
    BY <1>1, <2>1 DEF HeldBy, Holding
  <2> QED
    BY <1>1, <2>1, <2>2, OtherSession
<1>5. CASE Remember(t)
  <2> PICK r \in Sessions : r = thread[t].id
    BY <1>5, Types DEF Remember
  <2>1. /\ redis' = redis /\ now' = now /\ created' = created /\ thread[t].pc = "remember"
        /\ \A u \in Threads : u # t => thread'[u] = thread[u]
                               /\ sessionsInThread'[u] = sessionsInThread[u]
        /\ thread'[t] = IF thread[t].ver = None THEN Idle ELSE [thread[t] EXCEPT !.pc = "holds"]
        /\ sessionsInThread'[t][r] =
             [ver |-> thread[t].ver, createTime |-> now, lag |-> now - thread[t].readAt]
        /\ r # s => sessionsInThread'[t][s] = sessionsInThread[t][s]
    BY <1>1, <1>5 DEF Remember
  <2>2. ~HeldBy(t, s)'
    <3>1. CASE r = s
      <4>1. thread[t].ver = None
        BY <1>1, <2>1, <3>1 DEF HeldBy
      <4>2. thread'[t] = Idle /\ sessionsInThread'[t][s].ver = None
        BY <2>1, <3>1, <4>1
      <4> QED
        BY <1>1, <4>2 DEF HeldBy, Idle
    <3>2. CASE r # s
      <4>1. thread'[t].id # s
        BY <1>1, <2>1, <3>2 DEF Idle, Thread
      <4> QED
        BY <1>1, <2>1, <3>2, <4>1 DEF HeldBy
    <3> QED
      BY <3>1, <3>2
  <2> QED
    BY <1>1, <2>1, <2>2, OtherSession
<1> QED
  BY <1>2, <1>3, <1>4, <1>5

LEMMA DeadWrites ==
    ASSUME StoreInv, NEW t \in Threads, NEW s \in Sessions, Dead(s),
           \/ Update(t) \/ Set(t) \/ SetExpire(t) \/ Delete(t) \/ Release(t)
           \/ CommandFails(t)
    PROVE  Dead(s)'
<1>1. /\ thread \in [Threads -> Thread] /\ s \in created /\ redis[s].ver = None
      /\ sessionsInThread \in [Threads -> [Sessions -> Copy]]
      /\ redis \in [Sessions -> Entry]
      /\ ~HeldBy(t, s) /\ s # None
  BY StoreConstants DEF StoreInv, TypeOK, Thread, Copy, Entry, Dead, Held, HeldBy
<1>2. thread[t].pc \in Holding \/ CommandFails(t)
  BY DEF Update, Set, SetExpire, Delete, Release, Holding
<1>3. CASE CommandFails(t) \/ Release(t)
  <2>1. /\ thread'[t] = Idle /\ redis' = redis /\ now' = now /\ created' = created
        /\ sessionsInThread' = sessionsInThread
        /\ \A u \in Threads : u # t => thread'[u] = thread[u]
    BY <1>1, <1>3 DEF CommandFails, Release
  <2>2. ~HeldBy(t, s)'
    BY <1>1, <2>1 DEF HeldBy, Idle
  <2> QED
    BY <1>1, <2>1, <2>2, OtherSession
<1>4. CASE Update(t) \/ Set(t) \/ SetExpire(t) \/ Delete(t)
  <2>1. thread[t].id # s /\ thread[t].pc \in Holding
    BY <1>1, <1>4 DEF HeldBy, Update, Set, SetExpire, Delete, Holding
  <2>2. now' = now /\ created' = created /\ \A u \in Threads : u # t => thread'[u] = thread[u]
    BY <1>1, <1>4 DEF Update, Set, SetExpire, Delete
  <2>3. redis'[s] = redis[s]
    BY <1>1, <1>4, <2>1 DEF Update, Set, SetExpire, Delete
  <2>4. thread'[t].id = thread[t].id \/ thread'[t].id = None
    BY <1>1, <1>4 DEF Update, Set, SetExpire, Delete, Idle, Thread
  <2>5. \A u \in Threads : sessionsInThread'[u][s] = sessionsInThread[u][s]
    <3>1. CASE sessionsInThread' = sessionsInThread
      BY <3>1
    <3>2. ASSUME NEW n, sessionsInThread' = Stamped(t, n)
          PROVE  \A u \in Threads : sessionsInThread'[u][s] = sessionsInThread[u][s]
      BY <1>1, <2>1, <3>2 DEF Stamped
    <3> QED
      BY <1>4, <3>1, <3>2 DEF Update, Set, SetExpire, Delete
  <2>6. ~HeldBy(t, s)'
    BY <1>1, <2>1, <2>2, <2>4, <2>5 DEF HeldBy
  <2> QED
    BY <1>1, <2>2, <2>3, <2>5, <2>6, OtherSession
<1> QED
  BY <1>3, <1>4

LEMMA DeadTick ==
    ASSUME StoreInv, NEW s \in Sessions, Dead(s), Tick
    PROVE  Dead(s)'
<1>1. /\ now' = now + 1 /\ now \in Nat /\ InMemoryTimeout \in Nat
      /\ sessionsInThread' = sessionsInThread /\ thread' = thread /\ created' = created
      /\ redis'[s].ver = None
  BY StoreConstants DEF Tick, StoreInv, TypeOK, Dead, Absent
<1>2. \A u \in Threads : ~HeldBy(u, s)
  BY DEF Dead, Held, HeldBy
<1>3. \A u \in Threads : sessionsInThread[u][s].createTime \in Nat
  BY Types DEF Copy
<1>4. \A u \in Threads : ~HeldBy(u, s)'
  BY <1>1, <1>2, <1>3 DEF HeldBy
<1> QED
  BY <1>1, <1>4 DEF Dead, Held, HeldBy

\* Once nobody holds a session that has left Redis and no copy of it is young
\* enough, no sequence of reads, updates and failures brings it back.
THEOREM DeletedForGood == Spec => DeletedStays
<1>1. StoreInv /\ [Next]_vars => [\A s \in Sessions : Dead(s) => Dead(s)']_vars
  <2> SUFFICES ASSUME StoreInv, Next PROVE \A s \in Sessions : Dead(s) => Dead(s)'
    OBVIOUS
  <2> TAKE s \in Sessions
  <2> HAVE Dead(s)
  <2>1. CASE Tick
    BY <2>1, DeadTick
  <2>2. ASSUME NEW t \in Threads,
               \/ \E r \in Sessions : DoCreate(t, r) \/ DoReadSession(t, r)
               \/ Get(t) \/ Remember(t)
        PROVE  Dead(s)'
    BY <2>2, DeadReads
  <2>3. ASSUME NEW t \in Threads,
               \/ Update(t) \/ Set(t) \/ SetExpire(t) \/ Delete(t) \/ Release(t)
               \/ CommandFails(t)
        PROVE  Dead(s)'
    BY <2>3, DeadWrites
  <2> QED
    BY <2>1, <2>2, <2>3 DEF Next
<1> QED
  BY <1>1, StoreInvariant, PTL DEF Spec, DeletedStays

-----------------------------------------------------------------------------
(* Saves set a lifetime                                                    *)

\* A step of the thread t that does not store s and does not leave "expire".
LEMMA LifetimeKept ==
    ASSUME LifetimeSet, NEW t \in Threads, NEW s \in Sessions, thread[t].pc # "expire",
           redis'[s] = redis[s] \/ redis'[s].ver = None, faults' = faults,
           \A u \in Threads : u # t => thread'[u] = thread[u],
           redis'[s].ver # None, redis'[s].expiry = None, faults' = 0
    PROVE  \E u \in Threads : thread'[u].id = s /\ thread'[u].pc = "expire"
<1>1. PICK u \in Threads : thread[u].id = s /\ thread[u].pc = "expire"
  BY DEF LifetimeSet
<1> QED
  BY <1>1

LEMMA NextLifetime == StoreInv /\ LifetimeSet /\ [Next]_vars => LifetimeSet'
<1> SUFFICES ASSUME StoreInv, LifetimeSet, [Next]_vars, NEW s \in Sessions,
                    redis'[s].ver # None, redis'[s].expiry = None, faults' = 0
             PROVE  \E u \in Threads : thread'[u].id = s /\ thread'[u].pc = "expire"
  BY DEF LifetimeSet
<1>1. /\ thread \in [Threads -> Thread] /\ redis \in [Sessions -> Entry]
      /\ now \in Nat /\ faults \in Nat /\ Expire \in Nat /\ None \notin Nat
  BY StoreConstants DEF StoreInv, TypeOK, Thread, Entry
<1>2. CASE Tick \/ UNCHANGED vars
  <2>1. thread' = thread /\ faults' = faults /\ redis'[s] = redis[s]
    BY <1>2 DEF Tick, vars, Absent
  <2> QED
    BY <2>1 DEF LifetimeSet
<1>3. ASSUME NEW t \in Threads, NEW r \in Sessions, DoCreate(t, r) \/ DoReadSession(t, r)
      PROVE  \E u \in Threads : thread'[u].id = s /\ thread'[u].pc = "expire"
  <2>1. /\ thread[t].pc # "expire" /\ redis'[s] = redis[s] /\ faults' = faults
        /\ \A u \in Threads : u # t => thread'[u] = thread[u]
    BY <1>1, <1>3 DEF DoCreate, DoReadSession
  <2> QED
    BY <2>1, LifetimeKept
<1>4. ASSUME NEW t \in Threads, Get(t) \/ Remember(t) \/ Update(t) \/ Delete(t) \/ Release(t)
      PROVE  \E u \in Threads : thread'[u].id = s /\ thread'[u].pc = "expire"
  <2>1. /\ thread[t].pc # "expire" /\ faults' = faults
        /\ \A u \in Threads : u # t => thread'[u] = thread[u]
    BY <1>1, <1>4 DEF Get, Remember, Update, Delete, Release
  <2>2. redis'[s] = redis[s] \/ redis'[s].ver = None
    BY <1>1, <1>4 DEF Get, Remember, Update, Delete, Release, Absent
  <2> QED
    BY <2>1, <2>2, LifetimeKept
<1>5. ASSUME NEW t \in Threads, Set(t)
      PROVE  \E u \in Threads : thread'[u].id = s /\ thread'[u].pc = "expire"
  <2>1. /\ thread[t].pc = "set" /\ faults' = faults
        /\ thread'[t].pc = "expire" /\ thread'[t].id = thread[t].id
        /\ \A u \in Threads : u # t => thread'[u] = thread[u]
        /\ thread[t].id # s => redis'[s] = redis[s]
    BY <1>1, <1>5 DEF Set, Thread
  <2>2. CASE thread[t].id = s
    BY <2>1, <2>2
  <2>3. CASE thread[t].id # s
    BY <2>1, <2>3, LifetimeKept
  <2> QED
    BY <2>2, <2>3
<1>6. ASSUME NEW t \in Threads, SetExpire(t)
      PROVE  \E u \in Threads : thread'[u].id = s /\ thread'[u].pc = "expire"
  <2>1. /\ faults' = faults
        /\ \A u \in Threads : u # t => thread'[u] = thread[u]
        /\ thread[t].id # s => redis'[s] = redis[s]
        /\ thread[t].id = s => redis'[s].ver = None \/ redis'[s].expiry = now + Expire
    BY <1>1, <1>6 DEF SetExpire, Entry
  <2>2. now + Expire # None
    BY <1>1
  <2>3. thread[t].id # s /\ redis'[s] = redis[s]
    BY <2>1, <2>2
  <2>4. PICK u \in Threads : thread[u].id = s /\ thread[u].pc = "expire"
    BY <2>1, <2>3 DEF LifetimeSet
  <2> QED
    BY <2>1, <2>3, <2>4
<1>7. ASSUME NEW t \in Threads, CommandFails(t) PROVE FALSE
  BY <1>1, <1>7 DEF CommandFails
<1> QED
  BY <1>2, <1>3, <1>4, <1>5, <1>6, <1>7 DEF Next

\* SET and EXPIRE of several threads, deletions and lapses may interleave as
\* they like: without failures every session in Redis has a lifetime or is
\* about to get one.
THEOREM LifetimesAreSet == Spec => []LifetimeSet
<1>1. Init => LifetimeSet
  BY DEF Init, LifetimeSet, Absent
<1> QED
  BY <1>1, NextLifetime, StoreInvariant, PTL DEF Spec
=============================================================================
