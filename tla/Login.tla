-------------------------------- MODULE Login --------------------------------
(***************************************************************************)
(* Logging in to the shop and being recognised afterwards:                 *)
(* LoginController.do_login and UserServiceImlp with its bloom filter, its *)
(* cache of user rows and its distributed lock, and AccessInterceptor,     *)
(* which turns the token cookie of every request into the UserContext of   *)
(* the servlet thread.                                                     *)
(*                                                                         *)
(* Servlet threads are pooled: a thread runs one request after another and *)
(* keeps its ThreadLocal between them.  Every call to Redis or MySQL is    *)
(* one atomic step, and threads interleave between calls.  RLock is        *)
(* Redisson's: reentrant, owned by a thread of a process, and kept alive   *)
(* by that process, so that it lapses some time after the process died or  *)
(* stood still for too long.                                               *)
(***************************************************************************)
EXTENDS Integers, FiniteSets

CONSTANTS
    Nodes,           \* processes running cfs-shop-web
    Threads,         \* servlet threads of all the nodes
    NodeOf,          \* the node a thread belongs to
    Mobiles,         \* mobile numbers a client may log in with
    Users,           \* ids of the rows in miaosha_user
    FalsePositives,  \* numbers without a row that the full filter accepts
    MaxRequests,     \* bound: requests served
    MaxFaults,       \* bound: failed calls and lapsed locks
    MaxCrashes,      \* bound: crashes of nodes
    None             \* Java's null

ASSUME LoginConstants ==
    /\ IsFiniteSet(Threads) /\ "dead" \notin Threads
    /\ NodeOf \in [Threads -> Nodes]
    /\ Users \subseteq Mobiles
    /\ FalsePositives \subseteq Mobiles \ Users
    /\ MaxRequests \in Nat /\ MaxFaults \in Nat /\ MaxCrashes \in Nat
    /\ None \notin Users \cup Threads \cup Nat

VARIABLES
    up,           \* nodes that take requests
    thread,       \* what each servlet thread is doing
    context,      \* UserContext.userHolder of each thread
    cookies,      \* tokens that browsers have received
    \* Redis
    bloom,        \* "BloomFilter": the ids added to it
    userCache,    \* RMapCache "user": the ids with a row in it
    lock,         \* RLock "user"
    tokenUser,    \* RMap "token_user"
    miaoShaUser,  \* RMap "miao_sha_user": the ids with an entry
    \* history and bounds
    queries,      \* times getById asked MySQL for an id
    served, faults, crashes

redisVars  == <<bloom, userCache, lock, tokenUser, miaoShaUser>>
countVars  == <<queries, served, faults, crashes>>
vars == <<up, thread, context, cookies, redisVars, countVars>>

Tokens == 1..MaxRequests

\* The control points between the calls.
InGetById == {"contains", "get", "lock", "reget", "query", "put", "unlock"}
InLogin   == InGetById \cup {"verify", "token", "miaosha", "cookie"}
Answers   == {"MOBILE_NOT_EXIST", "PASSWORD_ERROR", "success", "error", "page"}

Idle == [pc |-> "idle", token |-> None, mobile |-> None, pass |-> FALSE,
         issue |-> None, failed |-> FALSE, answer |-> None]

Init ==
    /\ up = {}
    /\ thread = [t \in Threads |-> Idle]
    /\ context = [t \in Threads |-> None]
    /\ cookies = {}
    /\ bloom = {}
    /\ userCache = {}
    /\ lock = [owner |-> None, count |-> 0]
    /\ tokenUser = [k \in Tokens |-> None]
    /\ miaoShaUser = {}
    /\ queries = [m \in Mobiles |-> 0]
    /\ served = 0 /\ faults = 0 /\ crashes = 0

-----------------------------------------------------------------------------
(* Nodes                                                                   *)

\* afterPropertiesSet adds every id to the filter before the node serves; the
\* filter is shared and only grows, so the loop counts as one step.
Boot(n) ==
    /\ n \notin up
    /\ up' = up \cup {n}
    /\ bloom' = bloom \cup Users
    /\ UNCHANGED <<thread, context, cookies, userCache, lock, tokenUser, miaoShaUser,
                   countVars>>

\* The process dies with its threads.  Nobody can release the lock it held.
Crash(n) ==
    /\ n \in up /\ crashes < MaxCrashes
    /\ crashes' = crashes + 1
    /\ up' = up \ {n}
    /\ thread' = [t \in Threads |-> IF NodeOf[t] = n THEN Idle ELSE thread[t]]
    /\ context' = [t \in Threads |-> IF NodeOf[t] = n THEN None ELSE context[t]]
    /\ lock' = IF lock.owner \in Threads /\ NodeOf[lock.owner] = n
               THEN [lock EXCEPT !.owner = "dead"] ELSE lock
    /\ UNCHANGED <<cookies, bloom, userCache, tokenUser, miaoShaUser, queries, served,
                   faults>>

\* The lock of a dead process lapses.
LockLapses ==
    /\ lock.owner = "dead"
    /\ lock' = [owner |-> None, count |-> 0]
    /\ UNCHANGED <<up, thread, context, cookies, bloom, userCache, tokenUser, miaoShaUser,
                   countVars>>

\* A live process stands still so long that its lock lapses under it.
LockLost ==
    /\ lock.owner \in Threads /\ faults < MaxFaults
    /\ faults' = faults + 1
    /\ lock' = [owner |-> None, count |-> 0]
    /\ UNCHANGED <<up, thread, context, cookies, bloom, userCache, tokenUser, miaoShaUser,
                   queries, served, crashes>>

-----------------------------------------------------------------------------
(* A request reaches a handler                                             *)

SessionOfStale(t, k) ==   \* mutant: setUser only when a session was found
    IF k \in Tokens /\ tokenUser[k] # None THEN tokenUser[k] ELSE context[t]
SessionOf(t, k) == IF k \in Tokens THEN tokenUser[k] ELSE None

\* AccessInterceptor.preHandle, then the handler.  A browser sends a token it
\* was given, or none.
Accept(t, k, request) ==
    /\ thread[t].pc = "idle" /\ NodeOf[t] \in up /\ served < MaxRequests
    /\ served' = served + 1
    /\ context' = [context EXCEPT ![t] = SessionOf(t, k)]
    /\ thread' = [thread EXCEPT ![t] = request]
    /\ UNCHANGED <<up, cookies, redisVars, queries, faults, crashes>>

\* Any handler that asks BaseController.sessionUser() who is there.
AcceptPage(t, k) == Accept(t, k, [Idle EXCEPT !.pc = "page", !.token = k])

\* do_login with a mobile number and a right or wrong password.
AcceptLogin(t, k, m, pass) ==
    Accept(t, k, [Idle EXCEPT !.pc = "contains", !.token = k, !.mobile = m, !.pass = pass])

\* The request is over; the thread goes back to the pool, with its ThreadLocal.
Answer(t, a) ==
    thread' = [thread EXCEPT ![t] = [Idle EXCEPT !.answer = a, !.mobile = thread[t].mobile]]

Goto(t, pc) == thread' = [thread EXCEPT ![t].pc = pc]

ServePage(t) ==
    /\ thread[t].pc = "page"
    /\ Answer(t, "page")
    /\ UNCHANGED <<up, context, cookies, redisVars, countVars>>

-----------------------------------------------------------------------------
(* UserServiceImlp.getById                                                 *)

CheckFilter(t) ==
    LET m == thread[t].mobile
        contains == m \in bloom \/ (m \in FalsePositives /\ Users \subseteq bloom)
    IN /\ thread[t].pc = "contains"
       /\ IF contains THEN Goto(t, "get") ELSE Answer(t, "MOBILE_NOT_EXIST")
       /\ UNCHANGED <<up, context, cookies, redisVars, countVars>>

Cached(t) == thread[t].mobile \in userCache

GetCached(t) ==
    /\ thread[t].pc = "get"
    /\ Goto(t, IF Cached(t) THEN "verify" ELSE "lock")
    /\ UNCHANGED <<up, context, cookies, redisVars, countVars>>

Lock(t) ==
    /\ thread[t].pc = "lock"
    /\ lock.owner \in {None, t}
    /\ lock' = [owner |-> t, count |-> lock.count + 1]
    /\ Goto(t, "reget")
    /\ UNCHANGED <<up, context, cookies, bloom, userCache, tokenUser, miaoShaUser, countVars>>

GetAgain_NoFinally(t) ==   \* mutant: return the cached row from inside the lock
    /\ thread[t].pc = "reget"
    /\ Goto(t, IF Cached(t) THEN "verify" ELSE "query")
    /\ UNCHANGED <<up, context, cookies, redisVars, countVars>>

GetAgain_NoRecheck(t) ==   \* mutant: do not look in the cache again
    /\ thread[t].pc = "reget"
    /\ Goto(t, "query")
    /\ UNCHANGED <<up, context, cookies, redisVars, countVars>>

GetAgain(t) ==
    /\ thread[t].pc = "reget"
    /\ Goto(t, IF Cached(t) THEN "unlock" ELSE "query")
    /\ UNCHANGED <<up, context, cookies, redisVars, countVars>>

QueryUser(t) ==
    /\ thread[t].pc = "query"
    /\ queries' = [queries EXCEPT ![thread[t].mobile] = @ + 1]
    /\ Goto(t, "put")
    /\ UNCHANGED <<up, context, cookies, redisVars, served, faults, crashes>>

\* RMapCache.put refuses a null value: for a number without a row it throws,
\* and the finally block runs with the exception pending.
Storable(m) == m \in Users

PutCached_Negative(t) ==   \* mutant: an empty user is cached for an unknown number
    /\ thread[t].pc = "put"
    /\ userCache' = userCache \cup {thread[t].mobile}
    /\ Goto(t, "unlock")
    /\ UNCHANGED <<up, context, cookies, bloom, lock, tokenUser, miaoShaUser, countVars>>

PutCached(t) ==
    LET m == thread[t].mobile
    IN /\ thread[t].pc = "put"
       /\ userCache' = IF Storable(m) THEN userCache \cup {m} ELSE userCache
       /\ thread' = [thread EXCEPT ![t].pc = "unlock", ![t].failed = ~Storable(m)]
       /\ UNCHANGED <<up, context, cookies, bloom, lock, tokenUser, miaoShaUser, countVars>>

\* unlock by a thread that is not the owner throws and leaves the lock alone.
MayUnlock(t) == lock.owner = t
Released(t) == IF ~MayUnlock(t) THEN lock
               ELSE IF lock.count <= 1 THEN [owner |-> None, count |-> 0]
               ELSE [lock EXCEPT !.count = @ - 1]

Unlock(t) ==
    /\ thread[t].pc = "unlock"
    /\ lock' = Released(t)
    /\ IF thread[t].failed \/ ~MayUnlock(t) THEN Answer(t, "error") ELSE Goto(t, "verify")
    /\ UNCHANGED <<up, context, cookies, bloom, userCache, tokenUser, miaoShaUser, countVars>>

-----------------------------------------------------------------------------
(* UserServiceImlp.login and addCookie                                     *)

Verify(t) ==
    /\ thread[t].pc = "verify"
    /\ IF thread[t].pass THEN Goto(t, "token") ELSE Answer(t, "PASSWORD_ERROR")
    /\ UNCHANGED <<up, context, cookies, redisVars, countVars>>

\* A fresh UUID is put with the session user.
PutToken(t) ==
    LET k == CHOOSE k \in Tokens : tokenUser[k] = None
    IN /\ thread[t].pc = "token"
       /\ tokenUser' = [tokenUser EXCEPT ![k] = thread[t].mobile]
       /\ thread' = [thread EXCEPT ![t].pc = "miaosha", ![t].issue = k]
       /\ UNCHANGED <<up, context, cookies, bloom, userCache, lock, miaoShaUser, countVars>>

PutMiaoShaUser_Skip(t) ==   \* mutant: the shorter addCookie, without this put
    /\ thread[t].pc = "miaosha"
    /\ Goto(t, "cookie")
    /\ UNCHANGED <<up, context, cookies, redisVars, countVars>>

PutMiaoShaUser(t) ==
    /\ thread[t].pc = "miaosha"
    /\ miaoShaUser' = miaoShaUser \cup {thread[t].mobile}
    /\ Goto(t, "cookie")
    /\ UNCHANGED <<up, context, cookies, bloom, userCache, lock, tokenUser, countVars>>

SendCookie(t) ==
    /\ thread[t].pc = "cookie"
    /\ cookies' = cookies \cup {thread[t].issue}
    /\ Answer(t, "success")
    /\ UNCHANGED <<up, context, redisVars, countVars>>

\* A call to Redis or MySQL throws.  Inside the try the finally block still runs,
\* then the exception leaves the handler.  Calls to the lock may take effect and
\* throw; any other such call is the call followed by a failure of the next.
CallFails(t) ==
    /\ faults < MaxFaults
    /\ faults' = faults + 1
    /\ \/ /\ thread[t].pc \in {"contains", "get", "token", "miaosha"}
          /\ Answer(t, "error")
          /\ lock' = lock
       \/ /\ thread[t].pc \in {"lock", "reget", "query", "put"}
          /\ thread' = [thread EXCEPT ![t].pc = "unlock", ![t].failed = TRUE]
          /\ \/ lock' = lock
             \/ /\ thread[t].pc = "lock" /\ lock.owner \in {None, t}
                /\ lock' = [owner |-> t, count |-> lock.count + 1]
       \/ /\ thread[t].pc = "unlock"
          /\ Answer(t, "error")
          /\ lock' \in {lock, Released(t)}
    /\ UNCHANGED <<up, context, cookies, bloom, userCache, tokenUser, miaoShaUser, queries,
                   served, crashes>>

-----------------------------------------------------------------------------
LoginStep(t) ==
    \/ CheckFilter(t) \/ GetCached(t) \/ Lock(t) \/ GetAgain(t) \/ QueryUser(t)
    \/ PutCached(t) \/ Unlock(t) \/ Verify(t) \/ PutToken(t) \/ PutMiaoShaUser(t)
    \/ SendCookie(t)

Next ==
    \/ \E n \in Nodes : Boot(n) \/ Crash(n)
    \/ LockLapses \/ LockLost
    \/ \E t \in Threads :
         \/ \E k \in cookies \cup {None} :
              \/ AcceptPage(t, k)
              \/ \E m \in Mobiles, pass \in BOOLEAN : AcceptLogin(t, k, m, pass)
         \/ ServePage(t) \/ LoginStep(t) \/ CallFails(t)

\* Threads run, and Redis drops the lock of a process that no longer renews it.
Fairness == WF_vars(LockLapses) /\ \A t \in Threads : WF_vars(ServePage(t) \/ LoginStep(t))

Spec == Init /\ [][Next]_vars
FairSpec == Spec /\ Fairness

-----------------------------------------------------------------------------
(* Properties                                                              *)

\* The shapes of the state; the row cache only ever holds rows that exist.
TypeOK ==
    /\ up \subseteq Nodes
    /\ thread \in [Threads ->
         [pc: {"idle", "page"} \cup InLogin, token: Tokens \cup {None},
          mobile: Mobiles \cup {None}, pass: BOOLEAN, issue: Tokens \cup {None},
          failed: BOOLEAN, answer: Answers \cup {None}]]
    /\ context \in [Threads -> Users \cup {None}]
    /\ cookies \subseteq Tokens
    /\ bloom \subseteq Users
    /\ userCache \subseteq Users
    /\ lock \in [owner: Threads \cup {None, "dead"}, count: Nat]
    /\ tokenUser \in [Tokens -> Users \cup {None}]
    /\ miaoShaUser \subseteq Users
    /\ queries \in [Mobiles -> Nat]
    /\ served \in 0..MaxRequests /\ faults \in 0..MaxFaults /\ crashes \in 0..MaxCrashes

\* A token a browser holds is that of a logged in user who also has the
\* MiaoshaUser entry that do_miaosha reads, so no flash-sale message is ever
\* sent without its user: addCookie publishes the token last.
SessionComplete ==
    \A k \in cookies : tokenUser[k] # None /\ tokenUser[k] \in miaoShaUser

\* While a handler runs, UserContext holds the user of this request's cookie,
\* never that of an earlier request the pooled thread has served.
ContextIsOwn ==
    \A t \in Threads :
      thread[t].pc # "idle" =>
        context[t] = IF thread[t].token = None THEN None ELSE tokenUser[thread[t].token]

\* The double check under the lock: MySQL is asked for a user once, plus at
\* most once for every call that failed, lock that lapsed or node that died.
LoadedOnce == \A u \in Users : queries[u] <= 1 + faults + crashes

\* Every request is answered (or dies with its node), though the lock may be
\* held by a process that no longer exists.  Only a call that fails can keep
\* requests waiting: when unlock throws, the thread goes back to the pool with
\* a lock that its living process renews for ever.
RequestsEnd == \A t \in Threads : []<>(thread[t].pc = "idle" \/ faults > 0)

=============================================================================
