----------------------------- MODULE LoginProofs -----------------------------
(***************************************************************************)
(* Proofs about Login, for any number of nodes, threads, users, requests,  *)
(* crashes and failures.                                                   *)
(***************************************************************************)
EXTENDS Login, FiniteSetTheorems, TLAPS

-----------------------------------------------------------------------------
(* The inductive invariant of sessions                                     *)

ThreadState ==
    [pc: {"idle", "page"} \cup InLogin, token: Tokens \cup {None},
     mobile: Mobiles \cup {None}, pass: BOOLEAN, issue: Tokens \cup {None},
     failed: BOOLEAN, answer: Answers \cup {None}]

\* What a thread at a control point has: a token that some browser received, a
\* number to log in with, which is that of a row once getById has returned, a
\* token of its own once it is put, and the MiaoshaUser before the cookie.
RequestOK(r) ==
    /\ r.pc # "idle" => r.token \in cookies \cup {None}
    /\ r.pc \in InLogin => r.mobile \in Mobiles
    /\ r.pc \in {"verify", "token", "miaosha", "cookie"} => r.mobile \in Users
    /\ r.pc = "unlock" /\ ~r.failed => r.mobile \in Users
    /\ r.pc \in {"miaosha", "cookie"} => r.issue \in Tokens /\ tokenUser[r.issue] = r.mobile
    /\ r.pc = "cookie" => r.mobile \in miaoShaUser

RequestsOK == \A t \in Threads : RequestOK(thread[t])

\* There are tokens enough for the logins under way.
BeforeToken == InGetById \cup {"verify", "token"}
Pending == {t \in Threads : thread[t].pc \in BeforeToken}
Used == {k \in Tokens : tokenUser[k] # None}
TokensSuffice == Cardinality(Used) + Cardinality(Pending) <= served

SessionInv == TypeOK /\ RequestsOK /\ SessionComplete /\ ContextIsOwn /\ TokensSuffice

\* The part of it that a step of a thread can disturb.
ThreadsInv ==
    /\ thread \in [Threads -> ThreadState]
    /\ RequestsOK /\ SessionComplete /\ ContextIsOwn /\ TokensSuffice

-----------------------------------------------------------------------------
LEMMA FiniteSets1 ==
    /\ IsFiniteSet(Pending) /\ Cardinality(Pending) \in Nat
    /\ IsFiniteSet(Used) /\ Cardinality(Used) \in Nat
    /\ IsFiniteSet(Tokens) /\ Cardinality(Tokens) = MaxRequests
<1>1. IsFiniteSet(Threads) /\ MaxRequests \in Nat
  BY LoginConstants
<1>2. IsFiniteSet(Pending)
  BY <1>1, FS_Subset DEF Pending
<1>3. IsFiniteSet(Tokens) /\ Cardinality(Tokens) = MaxRequests
  BY <1>1, FS_Interval DEF Tokens
<1>4. IsFiniteSet(Used)
  BY <1>3, FS_Subset DEF Used
<1> QED
  BY <1>2, <1>3, <1>4, FS_CardinalityType

\* A number of threads that does not grow.
LEMMA PendingShrinks ==
    ASSUME Pending' \subseteq Pending
    PROVE  Cardinality(Pending') \in Nat /\ Cardinality(Pending') <= Cardinality(Pending)
BY FiniteSets1, FS_Subset, FS_CardinalityType

\* A thread t that serves a request takes a step to r, and nothing that other
\* threads rely on changes.
LEMMA ThreadStep ==
    ASSUME SessionInv, NEW t \in Threads, NEW r \in ThreadState,
           thread' = [thread EXCEPT ![t] = r],
           RequestOK(r),
           r.pc # "idle" => thread[t].pc # "idle" /\ r.token = thread[t].token,
           r.pc \in BeforeToken => thread[t].pc \in BeforeToken,
           UNCHANGED <<context, cookies, tokenUser, miaoShaUser, served>>
    PROVE  ThreadsInv'
<1> USE DEF SessionInv
<1>1. thread \in [Threads -> ThreadState]
  BY DEF TypeOK, ThreadState
<1>2. thread' \in [Threads -> ThreadState]
  BY <1>1
<1>3. \A s \in Threads : thread'[s] = IF s = t THEN r ELSE thread[s]
  BY <1>1
<1>4. \A q : RequestOK(q) => RequestOK(q)'
  BY DEF RequestOK
<1>5. RequestsOK'
  BY <1>3, <1>4 DEF RequestsOK
<1>6. SessionComplete'
  BY DEF SessionComplete
<1>7. ContextIsOwn'
  BY <1>3 DEF ContextIsOwn
<1>8. TokensSuffice'
  <2>1. Pending' \subseteq Pending
    BY <1>3 DEF Pending
  <2>2. Cardinality(Used') = Cardinality(Used)
    BY DEF Used
  <2>3. served' = served /\ served \in Nat
    BY LoginConstants DEF TypeOK
  <2> QED
    BY <2>1, <2>2, <2>3, PendingShrinks, FiniteSets1 DEF TokensSuffice
<1> QED
  BY <1>2, <1>5, <1>6, <1>7, <1>8 DEF ThreadsInv

LEMMA AnswerStep ==
    ASSUME SessionInv, NEW t \in Threads, NEW a \in Answers, Answer(t, a),
           UNCHANGED <<context, cookies, tokenUser, miaoShaUser, served>>
    PROVE  ThreadsInv'
<1> DEFINE r == [Idle EXCEPT !.answer = a, !.mobile = thread[t].mobile]
<1>1. thread[t].mobile \in Mobiles \cup {None}
  BY DEF SessionInv, TypeOK
<1>2. r \in ThreadState /\ r.pc = "idle"
  BY <1>1 DEF ThreadState, Idle
<1>3. RequestOK(r)
  BY <1>2 DEF RequestOK, InLogin, InGetById
<1>4. thread' = [thread EXCEPT ![t] = r]
  BY DEF Answer
<1>5. r.pc \notin BeforeToken
  BY <1>2 DEF BeforeToken, InGetById
<1> HIDE DEF r
<1> QED
  BY <1>2, <1>3, <1>4, <1>5, ThreadStep

\* A login goes on to pc, with or without an exception pending.
LEMMA MoveStep ==
    ASSUME SessionInv, NEW t \in Threads, NEW pc \in InLogin, NEW failed \in BOOLEAN,
           thread' = [thread EXCEPT ![t] = [thread[t] EXCEPT !.pc = pc, !.failed = failed]],
           thread[t].pc \in InLogin,
           pc \in BeforeToken => thread[t].pc \in BeforeToken,
           pc \in {"verify", "token"} => thread[t].mobile \in Users,
           pc = "unlock" /\ ~failed => thread[t].mobile \in Users,
           pc \in {"miaosha", "cookie"} => FALSE,
           UNCHANGED <<context, cookies, tokenUser, miaoShaUser, served>>
    PROVE  ThreadsInv'
<1> DEFINE r == [thread[t] EXCEPT !.pc = pc, !.failed = failed]
<1>1. thread[t] \in ThreadState /\ RequestOK(thread[t])
  BY DEF SessionInv, TypeOK, ThreadState, RequestsOK
<1>2. /\ r \in ThreadState
      /\ r.pc = pc /\ r.failed = failed
      /\ r.token = thread[t].token /\ r.mobile = thread[t].mobile
  BY <1>1 DEF ThreadState
<1>3. thread[t].pc # "idle"
  BY DEF InLogin, InGetById
<1>4. RequestOK(r)
  <2>1. r.token \in cookies \cup {None} /\ r.mobile \in Mobiles
    BY <1>1, <1>2, <1>3 DEF RequestOK
  <2> HIDE DEF r
  <2> QED
    BY <1>2, <2>1 DEF RequestOK
<1> HIDE DEF r
<1> QED
  BY <1>2, <1>3, <1>4, ThreadStep DEF r

LEMMA GotoStep ==
    ASSUME SessionInv, NEW t \in Threads, NEW pc \in InLogin, Goto(t, pc),
           thread[t].pc \in InLogin,
           pc \in BeforeToken => thread[t].pc \in BeforeToken,
           pc \in {"verify", "token"} => thread[t].mobile \in Users,
           pc = "unlock" => thread[t].mobile \in Users,
           pc \in {"miaosha", "cookie"} => FALSE,
           UNCHANGED <<context, cookies, tokenUser, miaoShaUser, served>>
    PROVE  ThreadsInv'
<1>1. thread[t] \in ThreadState
  BY DEF SessionInv, TypeOK, ThreadState
<1>2. thread[t].failed \in BOOLEAN
  BY <1>1 DEF ThreadState
<1>3. [thread[t] EXCEPT !.pc = pc] = [thread[t] EXCEPT !.pc = pc, !.failed = thread[t].failed]
  BY <1>1 DEF ThreadState
<1>4. thread' = [thread EXCEPT ![t] = [thread[t] EXCEPT !.pc = pc, !.failed = thread[t].failed]]
  BY <1>3 DEF Goto
<1> QED
  BY <1>2, <1>4, MoveStep

\* The steps that leave the threads and the sessions alone.
LEMMA EnvironmentStep ==
    ASSUME SessionInv, UNCHANGED <<thread, context, cookies, tokenUser, miaoShaUser, served>>
    PROVE  ThreadsInv'
<1>1. thread \in [Threads -> ThreadState]
  BY DEF SessionInv, TypeOK, ThreadState
<1>2. RequestsOK'
  BY DEF SessionInv, RequestsOK, RequestOK
<1>3. SessionComplete' /\ ContextIsOwn'
  BY DEF SessionInv, SessionComplete, ContextIsOwn
<1>4. TokensSuffice'
  BY DEF SessionInv, TokensSuffice, Used, Pending
<1> QED
  BY <1>1, <1>2, <1>3, <1>4 DEF ThreadsInv

\* A request is accepted: one more login may be under way.
LEMMA AcceptStep ==
    ASSUME SessionInv, NEW t \in Threads, NEW k \in cookies \cup {None}, NEW r \in ThreadState,
           r.token = k, r.pc \in {"page", "contains"}, r.pc = "contains" => r.mobile \in Mobiles,
           Accept(t, k, r)
    PROVE  SessionInv'
<1> USE DEF SessionInv
<1>1. thread \in [Threads -> ThreadState]
  BY DEF TypeOK, ThreadState
<1>2. /\ thread[t].pc = "idle" /\ served < MaxRequests /\ served' = served + 1
      /\ context' = [context EXCEPT ![t] = SessionOf(t, k)]
      /\ thread' = [thread EXCEPT ![t] = r]
      /\ UNCHANGED <<up, cookies, redisVars, queries, faults, crashes>>
  BY DEF Accept
<1>3. UNCHANGED <<bloom, userCache, lock, tokenUser, miaoShaUser>>
  BY <1>2 DEF redisVars
<1>4. k \in Tokens \cup {None} /\ None \notin Tokens
  BY LoginConstants DEF TypeOK, Tokens
<1>5. SessionOf(t, k) \in Users \cup {None}
  BY <1>4 DEF TypeOK, SessionOf
<1>6. served \in Nat /\ served' \in 0..MaxRequests
  BY <1>2, LoginConstants DEF TypeOK
<1>7. TypeOK'
  BY <1>1, <1>2, <1>3, <1>5, <1>6 DEF TypeOK, ThreadState
<1>8. \A s \in Threads : thread'[s] = IF s = t THEN r ELSE thread[s]
  BY <1>1, <1>2
<1>9. RequestsOK'
  <2>1. \A q : RequestOK(q) => RequestOK(q)'
    BY <1>2, <1>3 DEF RequestOK
  <2>2. RequestOK(r)
    BY DEF RequestOK, InLogin, InGetById
  <2> QED
    BY <1>8, <2>1, <2>2 DEF RequestsOK
<1>10. SessionComplete'
  BY <1>2, <1>3 DEF SessionComplete
<1>11. ContextIsOwn'
  <2>1. context'[t] = SessionOf(t, k) /\ \A s \in Threads : s # t => context'[s] = context[s]
    BY <1>2 DEF TypeOK
  <2>2. SessionOf(t, k) = IF k = None THEN None ELSE tokenUser[k]
    BY <1>4 DEF SessionOf
  <2> QED
    BY <1>3, <1>8, <2>1, <2>2 DEF ContextIsOwn
<1>12. TokensSuffice'
  <2>1. Pending' \subseteq Pending \cup {t}
    BY <1>8 DEF Pending
  <2>2. IsFiniteSet(Pending \cup {t}) /\ Cardinality(Pending \cup {t}) <= Cardinality(Pending) + 1
    <3>1. IsFiniteSet(Pending \cup {t})
          /\ Cardinality(Pending \cup {t})
               = IF t \in Pending THEN Cardinality(Pending) ELSE Cardinality(Pending) + 1
      BY FiniteSets1, FS_AddElement
    <3> QED
      BY <3>1, FiniteSets1
  <2>3. Cardinality(Pending') <= Cardinality(Pending) + 1 /\ Cardinality(Pending') \in Nat
    BY <2>1, <2>2, FS_Subset, FS_CardinalityType, FiniteSets1
  <2>4. Cardinality(Used') = Cardinality(Used)
    BY <1>3 DEF Used
  <2> QED
    BY <1>2, <1>6, <2>3, <2>4, FiniteSets1 DEF TokensSuffice
<1> QED
  BY <1>7, <1>9, <1>10, <1>11, <1>12

\* There is a token nobody has used for a login that has come to putting one.
LEMMA FreshToken ==
    ASSUME SessionInv, NEW t \in Threads, thread[t].pc = "token"
    PROVE  \E k \in Tokens : tokenUser[k] = None
<1>1. SUFFICES ASSUME Used = Tokens PROVE FALSE
  BY DEF Used
<1>2. t \in Pending
  BY DEF Pending, BeforeToken
<1>3. Cardinality(Pending) # 0
  BY <1>2, FiniteSets1, FS_EmptySet
<1>4. served <= MaxRequests /\ served \in Nat /\ MaxRequests \in Nat
  BY LoginConstants DEF SessionInv, TypeOK
<1> QED
  BY <1>1, <1>3, <1>4, FiniteSets1 DEF SessionInv, TokensSuffice

LEMMA PutTokenStep ==
    ASSUME SessionInv, NEW t \in Threads, PutToken(t)
    PROVE  SessionInv'
<1> USE DEF SessionInv
<1>1. /\ thread[t].pc = "token"
      /\ UNCHANGED <<up, context, cookies, bloom, userCache, lock, miaoShaUser, countVars>>
  BY DEF PutToken
<1>2. PICK k \in Tokens :
        /\ tokenUser[k] = None
        /\ tokenUser' = [tokenUser EXCEPT ![k] = thread[t].mobile]
        /\ thread' = [thread EXCEPT ![t] = [thread[t] EXCEPT !.pc = "miaosha", !.issue = k]]
  <2> DEFINE j == CHOOSE k \in Tokens : tokenUser[k] = None
  <2>1. j \in Tokens /\ tokenUser[j] = None
    BY <1>1, FreshToken
  <2>2. /\ tokenUser' = [tokenUser EXCEPT ![j] = thread[t].mobile]
        /\ thread' = [thread EXCEPT ![t].pc = "miaosha", ![t].issue = j]
    BY DEF PutToken
  <2> HIDE DEF j
  <2> QED
    BY <2>1, <2>2
<1>3. UNCHANGED <<queries, served, faults, crashes>>
  BY <1>1 DEF countVars
<1>4. thread \in [Threads -> ThreadState] /\ tokenUser \in [Tokens -> Users \cup {None}]
  BY DEF TypeOK, ThreadState
<1>5. thread[t].mobile \in Users /\ thread[t].token \in cookies \cup {None} /\ RequestOK(thread[t])
  BY <1>1 DEF RequestsOK, RequestOK
<1>6. PICK r \in ThreadState :
        /\ thread' = [thread EXCEPT ![t] = r]
        /\ r.pc = "miaosha" /\ r.issue = k
        /\ r.mobile = thread[t].mobile /\ r.token = thread[t].token
  <2> DEFINE q == [thread[t] EXCEPT !.pc = "miaosha", !.issue = k]
  <2>1. thread[t] \in ThreadState
    BY <1>4
  <2>2. /\ q \in ThreadState /\ q.pc = "miaosha" /\ q.issue = k
        /\ q.mobile = thread[t].mobile /\ q.token = thread[t].token
    BY <2>1 DEF ThreadState, InLogin
  <2>3. thread' = [thread EXCEPT ![t] = q]
    BY <1>2
  <2> HIDE DEF q
  <2> QED
    BY <2>2, <2>3
<1>7. /\ tokenUser' \in [Tokens -> Users \cup {None}]
      /\ tokenUser'[k] = thread[t].mobile
      /\ \A j \in Tokens : j # k => tokenUser'[j] = tokenUser[j]
  BY <1>2, <1>4, <1>5
<1>8. None \notin Users /\ Users \subseteq Mobiles /\ None \notin Tokens
  BY LoginConstants DEF Tokens
<1>9. \A s \in Threads : thread'[s] = IF s = t THEN r ELSE thread[s]
  BY <1>4, <1>6
<1>10. TypeOK'
  BY <1>1, <1>3, <1>4, <1>6, <1>7 DEF TypeOK, ThreadState
<1>11. \A q \in ThreadState : RequestOK(q) => RequestOK(q)'
  BY <1>1, <1>2, <1>7, <1>8 DEF RequestOK
<1>12. RequestOK(r)'
  BY <1>1, <1>2, <1>5, <1>6, <1>7, <1>8 DEF RequestOK
<1>13. RequestsOK'
  BY <1>4, <1>9, <1>11, <1>12 DEF RequestsOK
<1>14. SessionComplete'
  BY <1>1, <1>2, <1>7 DEF SessionComplete, TypeOK
<1>15. ContextIsOwn'
  <2>1. \A s \in Threads : thread[s].pc # "idle" =>
          (thread[s].token # None => tokenUser'[thread[s].token] = tokenUser[thread[s].token])
    BY <1>2, <1>7 DEF RequestsOK, RequestOK, SessionComplete, TypeOK
  <2> QED
    BY <1>1, <1>6, <1>9, <2>1 DEF ContextIsOwn
<1>16. TokensSuffice'
  <2>1. t \in Pending /\ Pending' \subseteq Pending \ {t}
    BY <1>1, <1>6, <1>9 DEF Pending, BeforeToken, InGetById
  <2>2. IsFiniteSet(Pending \ {t}) /\ Cardinality(Pending \ {t}) = Cardinality(Pending) - 1
    BY <2>1, FiniteSets1, FS_RemoveElement
  <2>3. Cardinality(Pending') <= Cardinality(Pending) - 1 /\ Cardinality(Pending') \in Nat
    BY <2>1, <2>2, FS_Subset, FS_CardinalityType
  <2>4. Used' = Used \cup {k}
    BY <1>2, <1>5, <1>7, <1>8 DEF Used
  <2>5. Cardinality(Used') <= Cardinality(Used) + 1 /\ Cardinality(Used') \in Nat
    <3>1. IsFiniteSet(Used \cup {k})
          /\ Cardinality(Used \cup {k})
               = IF k \in Used THEN Cardinality(Used) ELSE Cardinality(Used) + 1
      BY FiniteSets1, FS_AddElement
    <3> QED
      BY <2>4, <3>1, FiniteSets1
  <2>6. served' = served /\ served \in Nat
    BY <1>3, LoginConstants DEF TypeOK
  <2> QED
    BY <2>3, <2>5, <2>6, FiniteSets1 DEF TokensSuffice
<1> QED
  BY <1>10, <1>13, <1>14, <1>15, <1>16

\* From the threads to the whole invariant: what else may change keeps its type.
LEMMA WithThreads ==
    ASSUME SessionInv, ThreadsInv', UNCHANGED <<up, context, cookies, tokenUser, miaoShaUser, served>>,
           bloom' \subseteq Users, userCache' \subseteq Users,
           lock' \in [owner: Threads \cup {None, "dead"}, count: Nat],
           queries' \in [Mobiles -> Nat], faults' \in 0..MaxFaults, crashes' \in 0..MaxCrashes
    PROVE  SessionInv'
<1>1. TypeOK'
  BY DEF SessionInv, ThreadsInv, TypeOK, ThreadState
<1> QED
  BY <1>1 DEF SessionInv, ThreadsInv

LEMMA PutMiaoShaUserStep ==
    ASSUME SessionInv, NEW t \in Threads, PutMiaoShaUser(t)
    PROVE  SessionInv'
<1> USE DEF SessionInv
<1>1. /\ thread[t].pc = "miaosha"
      /\ miaoShaUser' = miaoShaUser \cup {thread[t].mobile}
      /\ UNCHANGED <<up, context, cookies, bloom, userCache, lock, tokenUser, countVars>>
  BY DEF PutMiaoShaUser
<1>2. UNCHANGED <<queries, served, faults, crashes>>
  BY <1>1 DEF countVars
<1>3. thread \in [Threads -> ThreadState]
  BY DEF TypeOK, ThreadState
<1>4. RequestOK(thread[t])
  BY DEF RequestsOK
<1>5. /\ thread[t].mobile \in Users /\ thread[t].token \in cookies \cup {None}
      /\ thread[t].mobile \in Mobiles
      /\ thread[t].issue \in Tokens /\ tokenUser[thread[t].issue] = thread[t].mobile
  BY <1>1, <1>4 DEF RequestOK, InLogin
<1>6. PICK r \in ThreadState :
        /\ thread' = [thread EXCEPT ![t] = r]
        /\ r.pc = "cookie" /\ r.issue = thread[t].issue
        /\ r.mobile = thread[t].mobile /\ r.token = thread[t].token
  <2> DEFINE q == [thread[t] EXCEPT !.pc = "cookie"]
  <2>1. thread[t] \in ThreadState
    BY <1>3
  <2>2. /\ q \in ThreadState /\ q.pc = "cookie" /\ q.issue = thread[t].issue
        /\ q.mobile = thread[t].mobile /\ q.token = thread[t].token
    BY <2>1 DEF ThreadState, InLogin
  <2>3. thread' = [thread EXCEPT ![t] = q]
    BY DEF PutMiaoShaUser, Goto
  <2> HIDE DEF q
  <2> QED
    BY <2>2, <2>3
<1>7. \A s \in Threads : thread'[s] = IF s = t THEN r ELSE thread[s]
  BY <1>3, <1>6
<1>8. TypeOK'
  BY <1>1, <1>2, <1>3, <1>5, <1>6 DEF TypeOK, ThreadState
<1>9. \A q : RequestOK(q) => RequestOK(q)'
  BY <1>1 DEF RequestOK
<1>10. RequestOK(r)'
  BY <1>1, <1>5, <1>6 DEF RequestOK
<1>11. RequestsOK'
  BY <1>7, <1>9, <1>10 DEF RequestsOK
<1>12. SessionComplete'
  BY <1>1 DEF SessionComplete
<1>13. ContextIsOwn'
  BY <1>1, <1>6, <1>7 DEF ContextIsOwn
<1>14. TokensSuffice'
  <2>1. Pending' \subseteq Pending
    BY <1>6, <1>7 DEF Pending, BeforeToken, InGetById
  <2>2. Cardinality(Used') = Cardinality(Used)
    BY <1>1 DEF Used
  <2>3. served' = served /\ served \in Nat
    BY <1>2, LoginConstants DEF TypeOK
  <2> QED
    BY <2>1, <2>2, <2>3, PendingShrinks, FiniteSets1 DEF TokensSuffice
<1> QED
  BY <1>8, <1>11, <1>12, <1>13, <1>14

\* The browser receives a token whose entries are both in Redis.
LEMMA SendCookieStep ==
    ASSUME SessionInv, NEW t \in Threads, SendCookie(t)
    PROVE  SessionInv'
<1> USE DEF SessionInv
<1>1. /\ thread[t].pc = "cookie"
      /\ cookies' = cookies \cup {thread[t].issue}
      /\ UNCHANGED <<up, context, redisVars, countVars>>
  BY DEF SendCookie
<1>2. UNCHANGED <<bloom, userCache, lock, tokenUser, miaoShaUser, queries, served, faults, crashes>>
  BY <1>1 DEF countVars, redisVars
<1>3. thread \in [Threads -> ThreadState]
  BY DEF TypeOK, ThreadState
<1>4. /\ thread[t].mobile \in Users /\ thread[t].mobile \in miaoShaUser
      /\ thread[t].issue \in Tokens /\ tokenUser[thread[t].issue] = thread[t].mobile
  BY <1>1 DEF RequestsOK, RequestOK
<1>5. PICK r \in ThreadState : thread' = [thread EXCEPT ![t] = r] /\ r.pc = "idle"
  <2> DEFINE q == [Idle EXCEPT !.answer = "success", !.mobile = thread[t].mobile]
  <2>1. thread[t].mobile \in Mobiles \cup {None}
    BY <1>3 DEF ThreadState
  <2>2. q \in ThreadState /\ q.pc = "idle"
    BY <2>1 DEF ThreadState, Idle, Answers
  <2>3. thread' = [thread EXCEPT ![t] = q]
    BY DEF SendCookie, Answer
  <2> HIDE DEF q
  <2> QED
    BY <2>2, <2>3
<1>6. \A s \in Threads : thread'[s] = IF s = t THEN r ELSE thread[s]
  BY <1>3, <1>5
<1>7. TypeOK'
  BY <1>1, <1>2, <1>3, <1>4, <1>5 DEF TypeOK, ThreadState
<1>8. \A q : RequestOK(q) => RequestOK(q)'
  BY <1>1, <1>2 DEF RequestOK
<1>9. RequestOK(r)'
  BY <1>5 DEF RequestOK, InLogin, InGetById
<1>10. RequestsOK'
  BY <1>6, <1>8, <1>9 DEF RequestsOK
<1>11. SessionComplete'
  BY <1>1, <1>2, <1>4, LoginConstants DEF SessionComplete
<1>12. ContextIsOwn'
  BY <1>1, <1>2, <1>5, <1>6 DEF ContextIsOwn
<1>13. TokensSuffice'
  <2>1. Pending' \subseteq Pending
    BY <1>5, <1>6 DEF Pending, BeforeToken, InGetById
  <2>2. Cardinality(Used') = Cardinality(Used)
    BY <1>2 DEF Used
  <2>3. served' = served /\ served \in Nat
    BY <1>2, LoginConstants DEF TypeOK
  <2> QED
    BY <2>1, <2>2, <2>3, PendingShrinks, FiniteSets1 DEF TokensSuffice
<1> QED
  BY <1>7, <1>10, <1>11, <1>12, <1>13

\* The threads of a node that dies forget their requests.
LEMMA CrashStep ==
    ASSUME SessionInv, NEW n \in Nodes, Crash(n)
    PROVE  SessionInv'
<1> USE DEF SessionInv
<1>1. /\ crashes < MaxCrashes /\ crashes' = crashes + 1
      /\ up' = up \ {n}
      /\ thread' = [t \in Threads |-> IF NodeOf[t] = n THEN Idle ELSE thread[t]]
      /\ context' = [t \in Threads |-> IF NodeOf[t] = n THEN None ELSE context[t]]
      /\ lock' = IF lock.owner \in Threads /\ NodeOf[lock.owner] = n
                 THEN [lock EXCEPT !.owner = "dead"] ELSE lock
      /\ UNCHANGED <<cookies, bloom, userCache, tokenUser, miaoShaUser, queries, served, faults>>
  BY DEF Crash
<1>2. Idle \in ThreadState /\ Idle.pc = "idle"
  BY DEF Idle, ThreadState
<1>3. RequestOK(Idle)
  BY <1>2 DEF RequestOK, InLogin, InGetById
<1>4. thread \in [Threads -> ThreadState]
  BY DEF TypeOK, ThreadState
<1>5. thread' \in [Threads -> ThreadState]
  BY <1>1, <1>2, <1>4
<1>6. \A s \in Threads : thread'[s] = IF NodeOf[s] = n THEN Idle ELSE thread[s]
  BY <1>1
<1>7. TypeOK'
  <2>1. context' \in [Threads -> Users \cup {None}]
    BY <1>1 DEF TypeOK
  <2>2. lock' \in [owner: Threads \cup {None, "dead"}, count: Nat]
    BY <1>1 DEF TypeOK
  <2>3. crashes' \in 0..MaxCrashes
    BY <1>1, LoginConstants DEF TypeOK
  <2> QED
    BY <1>1, <1>5, <2>1, <2>2, <2>3 DEF TypeOK, ThreadState
<1>8. RequestsOK'
  <2>1. \A q : RequestOK(q) => RequestOK(q)'
    BY <1>1 DEF RequestOK
  <2>2. RequestOK(Idle)'
    BY <1>1, <1>3, <2>1
  <2> QED
    BY <1>3, <1>6, <2>1, <2>2 DEF RequestsOK
<1>9. SessionComplete'
  BY <1>1 DEF SessionComplete
<1>10. ContextIsOwn'
  BY <1>1, <1>2, <1>6 DEF ContextIsOwn
<1>11. TokensSuffice'
  <2>1. Pending' \subseteq Pending
    BY <1>2, <1>6 DEF Pending, BeforeToken, InGetById
  <2>2. Cardinality(Used') = Cardinality(Used)
    BY <1>1 DEF Used
  <2>3. served' = served /\ served \in Nat
    BY <1>1, LoginConstants DEF TypeOK
  <2> QED
    BY <2>1, <2>2, <2>3, PendingShrinks, FiniteSets1 DEF TokensSuffice
<1> QED
  BY <1>7, <1>8, <1>9, <1>10, <1>11

\* What a step of getById or of the password check leaves of the state.
LEMMA LockTyped ==
    ASSUME SessionInv, NEW t \in Threads
    PROVE  /\ lock \in [owner: Threads \cup {None, "dead"}, count: Nat]
           /\ [owner |-> t, count |-> lock.count + 1] \in [owner: Threads \cup {None, "dead"}, count: Nat]
           /\ [owner |-> None, count |-> 0] \in [owner: Threads \cup {None, "dead"}, count: Nat]
           /\ Released(t) \in [owner: Threads \cup {None, "dead"}, count: Nat]
<1>1. lock \in [owner: Threads \cup {None, "dead"}, count: Nat]
  BY DEF SessionInv, TypeOK
<1>2. lock.count \in Nat
  BY <1>1
<1>3. ~(lock.count <= 1) => [lock EXCEPT !.count = @ - 1] \in [owner: Threads \cup {None, "dead"}, count: Nat]
  BY <1>1, <1>2
<1> QED
  BY <1>1, <1>2, <1>3 DEF Released

LEMMA GetByIdStep ==
    ASSUME SessionInv, NEW t \in Threads,
           \/ CheckFilter(t) \/ GetCached(t) \/ Lock(t) \/ GetAgain(t) \/ QueryUser(t)
           \/ PutCached(t) \/ Unlock(t) \/ Verify(t) \/ ServePage(t)
    PROVE  SessionInv'
<1> USE DEF redisVars, countVars
<1>1. TypeOK /\ RequestOK(thread[t]) /\ userCache \subseteq Users /\ thread[t] \in ThreadState
  BY DEF SessionInv, RequestsOK, TypeOK, ThreadState
<1>2. CASE ServePage(t)
  <2>1. ThreadsInv'
    BY <1>2, AnswerStep DEF ServePage, Answers
  <2> QED
    BY <1>1, <1>2, <2>1, WithThreads DEF ServePage, TypeOK
<1>3. CASE CheckFilter(t)
  <2>3. ThreadsInv'
    <3>1. CASE Goto(t, "get")
      BY <1>3, <3>1, GotoStep DEF CheckFilter, InLogin, InGetById, BeforeToken
    <3>2. CASE Answer(t, "MOBILE_NOT_EXIST")
      BY <1>3, <3>2, AnswerStep DEF CheckFilter, Answers
    <3> QED
      BY <1>3, <3>1, <3>2 DEF CheckFilter
  <2> QED
    BY <1>1, <1>3, <2>3, WithThreads DEF CheckFilter, TypeOK
<1>4. CASE GetCached(t)
  <2>1. ThreadsInv'
    <3>1. CASE Cached(t)
      BY <1>1, <1>4, <3>1, GotoStep DEF GetCached, Cached, InLogin, InGetById, BeforeToken
    <3>2. CASE ~Cached(t)
      BY <1>1, <1>4, <3>2, GotoStep DEF GetCached, InLogin, InGetById, BeforeToken
    <3> QED
      BY <3>1, <3>2
  <2> QED
    BY <1>1, <1>4, <2>1, WithThreads DEF GetCached, TypeOK
<1>5. CASE Lock(t)
  <2>1. ThreadsInv'
    BY <1>5, GotoStep DEF Lock, InLogin, InGetById, BeforeToken
  <2>2. lock' \in [owner: Threads \cup {None, "dead"}, count: Nat]
    BY <1>5, LockTyped DEF Lock
  <2> QED
    BY <1>1, <1>5, <2>1, <2>2, WithThreads DEF Lock, TypeOK
<1>6. CASE GetAgain(t)
  <2>1. ThreadsInv'
    <3>1. CASE Cached(t)
      BY <1>1, <1>6, <3>1, GotoStep DEF GetAgain, Cached, InLogin, InGetById, BeforeToken
    <3>2. CASE ~Cached(t)
      BY <1>1, <1>6, <3>2, GotoStep DEF GetAgain, InLogin, InGetById, BeforeToken
    <3> QED
      BY <3>1, <3>2
  <2> QED
    BY <1>1, <1>6, <2>1, WithThreads DEF GetAgain, TypeOK
<1>7. CASE QueryUser(t)
  <2>1. ThreadsInv'
    BY <1>7, GotoStep DEF QueryUser, InLogin, InGetById, BeforeToken
  <2>2. thread[t].mobile \in Mobiles
    BY <1>1, <1>7 DEF RequestOK, QueryUser, InLogin, InGetById
  <2>3. queries' \in [Mobiles -> Nat]
    BY <1>1, <1>7, <2>2 DEF QueryUser, TypeOK
  <2> QED
    BY <1>1, <1>7, <2>1, <2>3, WithThreads DEF QueryUser, TypeOK
<1>8. CASE PutCached(t)
  <2>1. thread' = [thread EXCEPT ![t] = [thread[t] EXCEPT !.pc = "unlock", !.failed = ~Storable(thread[t].mobile)]]
    BY <1>8 DEF PutCached
  <2>2. (~Storable(thread[t].mobile)) \in BOOLEAN
    BY DEF Storable
  <2>3. ThreadsInv'
    <3> DEFINE failed == ~Storable(thread[t].mobile)
    <3>1. ~failed => thread[t].mobile \in Users
      BY DEF Storable
    <3>2. failed \in BOOLEAN /\ thread' = [thread EXCEPT ![t] = [thread[t] EXCEPT !.pc = "unlock", !.failed = failed]]
      BY <2>1, <2>2
    <3> HIDE DEF failed
    <3> QED
      BY <1>8, <3>1, <3>2, MoveStep DEF PutCached, InLogin, InGetById, BeforeToken
  <2>4. userCache' \subseteq Users
    BY <1>1, <1>8 DEF PutCached, Storable
  <2> QED
    BY <1>1, <1>8, <2>3, <2>4, WithThreads DEF PutCached, TypeOK
<1>9. CASE Unlock(t)
  <2>1. ThreadsInv'
    <3>1. CASE thread[t].failed \/ ~MayUnlock(t)
      BY <1>9, <3>1, AnswerStep DEF Unlock, Answers
    <3>2. CASE ~(thread[t].failed \/ ~MayUnlock(t))
      BY <1>1, <1>9, <3>2, GotoStep DEF Unlock, RequestOK, InLogin, InGetById, BeforeToken
    <3> QED
      BY <3>1, <3>2
  <2>2. lock' \in [owner: Threads \cup {None, "dead"}, count: Nat]
    BY <1>9, LockTyped DEF Unlock
  <2> QED
    BY <1>1, <1>9, <2>1, <2>2, WithThreads DEF Unlock, TypeOK
<1>10. CASE Verify(t)
  <2>1. ThreadsInv'
    <3>1. CASE thread[t].pass
      BY <1>1, <1>10, <3>1, GotoStep DEF Verify, RequestOK, InLogin, InGetById, BeforeToken
    <3>2. CASE ~thread[t].pass
      BY <1>10, <3>2, AnswerStep DEF Verify, Answers
    <3> QED
      BY <3>1, <3>2
  <2> QED
    BY <1>1, <1>10, <2>1, WithThreads DEF Verify, TypeOK
<1> QED
  BY <1>2, <1>3, <1>4, <1>5, <1>6, <1>7, <1>8, <1>9, <1>10

LEMMA CallFailsStep ==
    ASSUME SessionInv, NEW t \in Threads, CallFails(t)
    PROVE  SessionInv'
<1>1. /\ faults' \in 0..MaxFaults
      /\ UNCHANGED <<up, context, cookies, bloom, userCache, tokenUser, miaoShaUser, queries,
                     served, crashes>>
  BY LoginConstants DEF CallFails, SessionInv, TypeOK
<1>2. lock' \in [owner: Threads \cup {None, "dead"}, count: Nat]
  BY LockTyped DEF CallFails
<1>3. ThreadsInv'
  <2>1. CASE Answer(t, "error")
    BY <1>1, <2>1, AnswerStep DEF Answers
  <2>2. CASE /\ thread[t].pc \in {"lock", "reget", "query", "put"}
             /\ thread' = [thread EXCEPT ![t] = [thread[t] EXCEPT !.pc = "unlock", !.failed = TRUE]]
    BY <1>1, <2>2, MoveStep DEF InLogin, InGetById, BeforeToken
  <2> QED
    BY <2>1, <2>2 DEF CallFails
<1> QED
  BY <1>1, <1>2, <1>3, WithThreads DEF SessionInv, TypeOK

LEMMA NodeStep ==
    ASSUME SessionInv, (\E n \in Nodes : Boot(n)) \/ LockLapses \/ LockLost
    PROVE  SessionInv'
<1>1. UNCHANGED <<thread, context, cookies, userCache, tokenUser, miaoShaUser, queries, served, crashes>>
  BY DEF Boot, LockLapses, LockLost, countVars
<1>2. ThreadsInv'
  BY <1>1, EnvironmentStep
<1>3. /\ up' \subseteq Nodes /\ bloom' \subseteq Users /\ faults' \in 0..MaxFaults
      /\ lock' \in [owner: Threads \cup {None, "dead"}, count: Nat]
  BY LoginConstants DEF Boot, LockLapses, LockLost, countVars, SessionInv, TypeOK
<1>4. TypeOK'
  BY <1>1, <1>2, <1>3 DEF SessionInv, ThreadsInv, TypeOK, ThreadState
<1> QED
  BY <1>2, <1>4 DEF SessionInv, ThreadsInv

LEMMA InitSession == Init => SessionInv
<1> SUFFICES ASSUME Init PROVE SessionInv
  OBVIOUS
<1> USE LoginConstants DEF Init
<1>1. Idle \in ThreadState /\ Idle.pc = "idle"
  BY DEF Idle, ThreadState
<1>2. TypeOK
  BY <1>1 DEF TypeOK, ThreadState
<1>3. RequestsOK
  BY <1>1 DEF RequestsOK, RequestOK, InLogin, InGetById
<1>4. SessionComplete /\ ContextIsOwn
  BY <1>1 DEF SessionComplete, ContextIsOwn
<1>5. TokensSuffice
  <2>1. Pending = {} /\ Used = {}
    BY <1>1 DEF Pending, BeforeToken, InGetById, Used
  <2> QED
    BY <2>1, FS_EmptySet DEF TokensSuffice
<1> QED
  BY <1>2, <1>3, <1>4, <1>5 DEF SessionInv

LEMMA NextSession == SessionInv /\ [Next]_vars => SessionInv'
<1> SUFFICES ASSUME SessionInv, [Next]_vars PROVE SessionInv'
  OBVIOUS
<1>1. CASE \E n \in Nodes : Crash(n)
  BY <1>1, CrashStep
<1>2. CASE (\E n \in Nodes : Boot(n)) \/ LockLapses \/ LockLost
  BY <1>2, NodeStep
<1>3. ASSUME NEW t \in Threads, NEW k \in cookies \cup {None},
             AcceptPage(t, k) \/ \E m \in Mobiles, pass \in BOOLEAN : AcceptLogin(t, k, m, pass)
      PROVE  SessionInv'
  <2>1. k \in Tokens \cup {None}
    BY DEF SessionInv, TypeOK
  <2>2. CASE AcceptPage(t, k)
    <3> DEFINE r == [Idle EXCEPT !.pc = "page", !.token = k]
    <3>1. r \in ThreadState /\ r.token = k /\ r.pc = "page"
      BY <2>1 DEF Idle, ThreadState
    <3>2. Accept(t, k, r)
      BY <2>2 DEF AcceptPage
    <3> HIDE DEF r
    <3> QED
      BY <3>1, <3>2, AcceptStep
  <2>3. ASSUME NEW m \in Mobiles, NEW pass \in BOOLEAN, AcceptLogin(t, k, m, pass)
        PROVE  SessionInv'
    <3> DEFINE r == [Idle EXCEPT !.pc = "contains", !.token = k, !.mobile = m, !.pass = pass]
    <3>1. r \in ThreadState /\ r.token = k /\ r.pc = "contains" /\ r.mobile = m
      BY <2>1 DEF Idle, ThreadState, InLogin, InGetById
    <3>2. Accept(t, k, r)
      BY <2>3 DEF AcceptLogin
    <3> HIDE DEF r
    <3> QED
      BY <3>1, <3>2, AcceptStep
  <2> QED
    BY <1>3, <2>2, <2>3
<1>4. ASSUME NEW t \in Threads, ServePage(t) \/ LoginStep(t) \/ CallFails(t)
      PROVE  SessionInv'
  BY <1>4, GetByIdStep, PutTokenStep, PutMiaoShaUserStep, SendCookieStep, CallFailsStep DEF LoginStep
<1>5. CASE UNCHANGED vars
  <2>1. UNCHANGED <<up, thread, context, cookies, bloom, userCache, lock, tokenUser, miaoShaUser,
                    queries, served, faults, crashes>>
    BY <1>5 DEF vars, redisVars, countVars
  <2>2. ThreadsInv'
    BY <2>1, EnvironmentStep
  <2> QED
    BY <2>1, <2>2, WithThreads DEF SessionInv, TypeOK
<1> QED
  BY <1>1, <1>2, <1>3, <1>4, <1>5 DEF Next

\* The invariant of the sessions holds throughout.
THEOREM SessionInvariant == Spec => []SessionInv
BY InitSession, NextSession, PTL DEF Spec

\* The variables keep their types: the row cache holds rows that exist, and a
\* login that has come to addCookie always finds a token nobody has.
THEOREM LoginTypeCorrect == Spec => []TypeOK
<1>1. SessionInv => TypeOK
  BY DEF SessionInv
<1> QED
  BY <1>1, SessionInvariant, PTL

\* addCookie publishes a token only when token_user and miao_sha_user hold its
\* user: no browser ever has a token of a half made session.
THEOREM SessionsComplete == Spec => []SessionComplete
<1>1. SessionInv => SessionComplete
  BY DEF SessionInv
<1> QED
  BY <1>1, SessionInvariant, PTL

\* A handler sees in UserContext the user of its own request's cookie, whoever
\* the pooled thread served before.
THEOREM ContextAlwaysOwn == Spec => []ContextIsOwn
<1>1. SessionInv => ContextIsOwn
  BY DEF SessionInv
<1> QED
  BY <1>1, SessionInvariant, PTL
-----------------------------------------------------------------------------
(* The double check under the lock                                         *)

\* Threads that are bound to ask MySQL for u, whatever others do, unless a row
\* turns up in the cache; the thread that loads u under the lock; and whether
\* another thread may still come to do so without a failure.
Asking(u) ==
    {t \in Threads : /\ thread[t].mobile = u
                     /\ thread[t].pc = "query" \/ (thread[t].pc = "reget" /\ u \notin userCache)}
LoadPoints == {"reget", "query", "put"}
Loading(u) ==
    /\ lock.owner \in Threads
    /\ thread[lock.owner].mobile = u /\ thread[lock.owner].pc \in LoadPoints
Left(u) == IF u \in userCache \/ Loading(u) THEN 0 ELSE 1

\* Questions asked, being asked and still possible, against the failures so far.
LoadOK(u) == queries[u] + Cardinality(Asking(u)) + Left(u) <= 1 + faults + crashes
LoadInv == \A u \in Users : LoadOK(u)

\* The numbers in it.
LEMMA LoadNumbers ==
    ASSUME SessionInv, NEW u \in Users
    PROVE  /\ queries[u] \in Nat /\ faults \in Nat /\ crashes \in Nat
           /\ Left(u) \in {0, 1}
           /\ IsFiniteSet(Asking(u)) /\ Cardinality(Asking(u)) \in Nat
<1>1. queries[u] \in Nat /\ faults \in Nat /\ crashes \in Nat
  BY LoginConstants DEF SessionInv, TypeOK
<1>2. Left(u) \in {0, 1}
  BY DEF Left
<1>3. IsFiniteSet(Asking(u))
  BY LoginConstants, FS_Subset DEF Asking
<1> QED
  BY <1>1, <1>2, <1>3, FS_CardinalityType

LEMMA LoadArithmetic ==
    ASSUME NEW q \in Nat, NEW a \in Nat, NEW b \in Nat, NEW l \in {0, 1}, NEW m \in {0, 1},
           NEW f \in Nat, NEW c \in Nat, NEW g \in Nat, NEW d \in Nat,
           b <= a, q + a + l <= 1 + f + c,
           g + d = f + c + 1 \/ (g + d = f + c /\ m <= l)
    PROVE  q + b + m <= 1 + g + d
OBVIOUS

\* Nobody new asks for u, and if one more may come to ask, something failed.
LEMMA LoadKept ==
    ASSUME SessionInv, SessionInv', NEW u \in Users, LoadOK(u),
           queries' = queries, Asking(u)' \subseteq Asking(u),
           \/ faults' + crashes' = faults + crashes + 1
           \/ faults' + crashes' = faults + crashes /\ Left(u)' <= Left(u)
    PROVE  LoadOK(u)'
<1>1. /\ queries[u] \in Nat /\ faults \in Nat /\ crashes \in Nat /\ Left(u) \in {0, 1}
      /\ IsFiniteSet(Asking(u)) /\ Cardinality(Asking(u)) \in Nat
  BY LoadNumbers
<1>2. faults' \in Nat /\ crashes' \in Nat /\ Left(u)' \in {0, 1}
  <2>1. faults' \in Nat /\ crashes' \in Nat
    BY LoginConstants DEF SessionInv, TypeOK
  <2>2. Left(u)' \in {0, 1}
    BY DEF Left
  <2> QED
    BY <2>1, <2>2
<1>3. Cardinality(Asking(u)') <= Cardinality(Asking(u)) /\ Cardinality(Asking(u)') \in Nat
  BY <1>1, FS_Subset, FS_CardinalityType
<1>4. queries[u] + Cardinality(Asking(u)) + Left(u) <= 1 + faults + crashes
  BY DEF LoadOK
<1>5. queries[u] + Cardinality(Asking(u)') + Left(u)' <= 1 + faults' + crashes'
  <2> DEFINE a == Cardinality(Asking(u))
             b == Cardinality(Asking(u)')
             l == Left(u)
             m == Left(u)'
             g == faults'
             d == crashes'
             q == queries[u]
  <2>1. /\ q \in Nat /\ a \in Nat /\ b \in Nat /\ l \in {0, 1} /\ m \in {0, 1}
        /\ g \in Nat /\ d \in Nat /\ b <= a /\ q + a + l <= 1 + faults + crashes
    BY <1>1, <1>2, <1>3, <1>4
  <2>2. g + d = faults + crashes + 1 \/ (g + d = faults + crashes /\ m <= l)
    OBVIOUS
  <2> HIDE DEF a, b, l, m, g, d, q
  <2>3. q + b + m <= 1 + g + d
    BY <1>1, <2>1, <2>2, LoadArithmetic
  <2> QED
    BY <2>3 DEF a, b, l, m, g, d, q
<1>6. queries'[u] = queries[u]
  OBVIOUS
<1> QED
  BY <1>5, <1>6 DEF LoadOK

\* A thread t goes on to r without asking MySQL and without taking the lock.
LEMMA LoadMove ==
    ASSUME SessionInv, SessionInv', LoadInv, NEW t \in Threads, NEW r,
           thread' = [thread EXCEPT ![t] = r],
           queries' = queries, userCache \subseteq userCache',
           r.pc # "reget",
           r.pc = "query" => /\ thread[t].pc = "reget" /\ ~Cached(t)
                             /\ r.mobile = thread[t].mobile,
           \/ faults' + crashes' = faults + crashes + 1
           \/ /\ faults' + crashes' = faults + crashes
              /\ \/ lock' = lock
                 \/ lock.owner \in Threads => thread[lock.owner].pc \notin LoadPoints
              /\ thread[t].pc \in LoadPoints =>
                   \/ r.pc \in LoadPoints /\ r.mobile = thread[t].mobile
                   \/ thread[t].mobile \in userCache' \cup (Mobiles \ Users)
    PROVE  LoadInv'
<1> SUFFICES ASSUME NEW u \in Users PROVE LoadOK(u)'
  BY DEF LoadInv
<1>1. thread \in [Threads -> ThreadState]
  BY DEF SessionInv, TypeOK, ThreadState
<1>2. \A s \in Threads : thread'[s] = IF s = t THEN r ELSE thread[s]
  BY <1>1
<1>3. Asking(u)' \subseteq Asking(u)
  BY <1>2 DEF Asking, Cached
<1>4. CASE faults' + crashes' = faults + crashes + 1
  BY <1>3, <1>4, LoadKept DEF LoadInv
<1>5. CASE /\ faults' + crashes' = faults + crashes
           /\ \/ lock' = lock
              \/ lock.owner \in Threads => thread[lock.owner].pc \notin LoadPoints
           /\ thread[t].pc \in LoadPoints =>
                \/ r.pc \in LoadPoints /\ r.mobile = thread[t].mobile
                \/ thread[t].mobile \in userCache' \cup (Mobiles \ Users)
  <2>1. Loading(u) => u \in userCache' \/ Loading(u)'
    BY <1>2, <1>5 DEF Loading
  <2>2. Left(u)' <= Left(u)
    BY <2>1 DEF Left
  <2> QED
    BY <1>3, <1>5, <2>2, LoadKept DEF LoadInv
<1> QED
  BY <1>4, <1>5
\* LoadMove for a login that goes on to another control point.
LEMMA LoadGoto ==
    ASSUME SessionInv, SessionInv', LoadInv, NEW t \in Threads, NEW pc, Goto(t, pc),
           queries' = queries, userCache' = userCache,
           pc # "reget", pc = "query" => thread[t].pc = "reget" /\ ~Cached(t),
           faults' + crashes' = faults + crashes,
           \/ lock' = lock
           \/ lock.owner \in Threads => thread[lock.owner].pc \notin LoadPoints,
           thread[t].pc \in LoadPoints => pc \in LoadPoints \/ Cached(t)
    PROVE  LoadInv'
<1> DEFINE r == [thread[t] EXCEPT !.pc = pc]
<1>1. thread[t] \in ThreadState
  BY DEF SessionInv, TypeOK, ThreadState
<1>2. r.pc = pc /\ r.mobile = thread[t].mobile
  BY <1>1 DEF ThreadState
<1>3. thread' = [thread EXCEPT ![t] = r]
  BY DEF Goto
<1>4. Cached(t) => thread[t].mobile \in userCache'
  BY DEF Cached
<1> HIDE DEF r
<1> QED
  BY <1>2, <1>3, <1>4, LoadMove

\* LoadMove for a login that goes to its finally block.
LEMMA LoadFinally ==
    ASSUME SessionInv, SessionInv', LoadInv, NEW t \in Threads, NEW failed,
           thread' = [thread EXCEPT ![t] = [thread[t] EXCEPT !.pc = "unlock", !.failed = failed]],
           queries' = queries, userCache \subseteq userCache',
           \/ faults' + crashes' = faults + crashes + 1
           \/ /\ faults' + crashes' = faults + crashes /\ lock' = lock
              /\ thread[t].mobile \in userCache' \cup (Mobiles \ Users)
    PROVE  LoadInv'
<1> DEFINE r == [thread[t] EXCEPT !.pc = "unlock", !.failed = failed]
<1>1. thread[t] \in ThreadState
  BY DEF SessionInv, TypeOK, ThreadState
<1>2. r.pc = "unlock" /\ r.mobile = thread[t].mobile
  BY <1>1 DEF ThreadState
<1>3. thread' = [thread EXCEPT ![t] = r]
  OBVIOUS
<1> HIDE DEF r
<1> QED
  BY <1>2, <1>3, LoadMove

\* LoadMove for the answer to a request that was not loading a row, or failed.
LEMMA LoadAnswer ==
    ASSUME SessionInv, SessionInv', LoadInv, NEW t \in Threads, NEW a, Answer(t, a),
           queries' = queries, userCache' = userCache,
           \/ faults' + crashes' = faults + crashes + 1
           \/ /\ faults' + crashes' = faults + crashes
              /\ \/ lock' = lock
                 \/ lock.owner \in Threads => thread[lock.owner].pc \notin LoadPoints
              /\ thread[t].pc \notin LoadPoints
    PROVE  LoadInv'
<1> DEFINE r == [Idle EXCEPT !.answer = a, !.mobile = thread[t].mobile]
<1>1. r.pc = "idle"
  BY DEF Idle
<1>2. thread' = [thread EXCEPT ![t] = r]
  BY DEF Answer
<1> HIDE DEF r
<1> QED
  BY <1>1, <1>2, LoadMove

\* Taking the lock: the one more that might come to ask is this thread.
LEMMA LoadLock ==
    ASSUME SessionInv, SessionInv', LoadInv, NEW t \in Threads, Lock(t)
    PROVE  LoadInv'
<1> SUFFICES ASSUME NEW u \in Users PROVE LoadOK(u)'
  BY DEF LoadInv
<1>1. thread \in [Threads -> ThreadState] /\ thread[t] \in ThreadState
  BY DEF SessionInv, TypeOK, ThreadState
<1>2. /\ thread[t].pc = "lock" /\ lock.owner \in {None, t}
      /\ lock' = [owner |-> t, count |-> lock.count + 1]
      /\ thread' = [thread EXCEPT ![t].pc = "reget"]
      /\ UNCHANGED <<userCache, queries, faults, crashes>>
  BY DEF Lock, Goto, countVars
<1>3. /\ \A s \in Threads : s # t => thread'[s] = thread[s]
      /\ thread'[t].pc = "reget" /\ thread'[t].mobile = thread[t].mobile
  BY <1>1, <1>2 DEF ThreadState
<1>4. ~Loading(u)
  BY <1>2, LoginConstants DEF Loading, LoadPoints
<1>5. LoadOK(u)
  BY DEF LoadInv
<1>6. CASE u \in userCache \/ u # thread[t].mobile
  <2>1. Asking(u)' \subseteq Asking(u)
    BY <1>2, <1>3, <1>6 DEF Asking
  <2>2. Left(u)' <= Left(u)
    BY <1>2, <1>4 DEF Left
  <2>3. faults' + crashes' = faults + crashes
    BY <1>2
  <2> QED
    BY <1>2, <1>5, <2>1, <2>2, <2>3, LoadKept
<1>7. CASE u \notin userCache /\ u = thread[t].mobile
  <2>1. Left(u) = 1 /\ Left(u)' = 0
    <3>1. Loading(u)'
      BY <1>2, <1>3, <1>7 DEF Loading, LoadPoints
    <3> QED
      BY <1>4, <1>7, <3>1 DEF Left
  <2>2. Asking(u)' = Asking(u) \cup {t} /\ t \notin Asking(u)
    BY <1>2, <1>3, <1>7 DEF Asking
  <2>3. Cardinality(Asking(u)') = Cardinality(Asking(u)) + 1
    BY <2>2, LoadNumbers, FS_AddElement
  <2>4. /\ queries[u] \in Nat /\ faults \in Nat /\ crashes \in Nat
        /\ Cardinality(Asking(u)) \in Nat
    BY LoadNumbers
  <2>5. queries[u] + Cardinality(Asking(u)) + 1 <= 1 + faults + crashes
    BY <1>5, <2>1 DEF LoadOK
  <2>6. queries[u] + (Cardinality(Asking(u)) + 1) + 0 <= 1 + faults + crashes
    BY <2>4, <2>5
  <2> QED
    BY <1>2, <2>1, <2>3, <2>6 DEF LoadOK
<1> QED
  BY <1>6, <1>7

\* Asking MySQL: one of those bound to ask has done so.
LEMMA LoadQuery ==
    ASSUME SessionInv, SessionInv', LoadInv, NEW t \in Threads, QueryUser(t)
    PROVE  LoadInv'
<1> SUFFICES ASSUME NEW u \in Users PROVE LoadOK(u)'
  BY DEF LoadInv
<1>1. /\ thread \in [Threads -> ThreadState] /\ thread[t] \in ThreadState
      /\ queries \in [Mobiles -> Nat] /\ u \in Mobiles
  BY LoginConstants DEF SessionInv, TypeOK, ThreadState
<1>2. /\ thread[t].pc = "query"
      /\ queries' = [queries EXCEPT ![thread[t].mobile] = @ + 1]
      /\ thread' = [thread EXCEPT ![t].pc = "put"]
      /\ UNCHANGED <<userCache, lock, faults, crashes>>
  BY DEF QueryUser, Goto, redisVars
<1>3. /\ \A s \in Threads : s # t => thread'[s] = thread[s]
      /\ thread'[t].pc = "put" /\ thread'[t].mobile = thread[t].mobile
  BY <1>1, <1>2 DEF ThreadState
<1>4. Left(u)' = Left(u)
  <2>1. Loading(u)' <=> Loading(u)
    BY <1>2, <1>3 DEF Loading, LoadPoints
  <2> QED
    BY <1>2, <2>1 DEF Left
<1>5. LoadOK(u)
  BY DEF LoadInv
<1>6. CASE u # thread[t].mobile
  <2>1. Asking(u)' = Asking(u)
    BY <1>2, <1>3, <1>6 DEF Asking
  <2>2. queries'[u] = queries[u]
    BY <1>1, <1>2, <1>6
  <2> QED
    BY <1>2, <1>4, <1>5, <2>1, <2>2 DEF LoadOK
<1>7. CASE u = thread[t].mobile
  <2>1. Asking(u)' = Asking(u) \ {t} /\ t \in Asking(u)
    BY <1>2, <1>3, <1>7 DEF Asking
  <2>2. Cardinality(Asking(u)') = Cardinality(Asking(u)) - 1
    BY <2>1, LoadNumbers, FS_RemoveElement
  <2>3. queries'[u] = queries[u] + 1
    BY <1>1, <1>2, <1>7
  <2>4. /\ queries[u] \in Nat /\ faults \in Nat /\ crashes \in Nat
        /\ Cardinality(Asking(u)) \in Nat /\ Left(u) \in {0, 1}
    BY LoadNumbers
  <2>5. queries[u] + Cardinality(Asking(u)) + Left(u) <= 1 + faults + crashes
    BY <1>5 DEF LoadOK
  <2>6. (queries[u] + 1) + (Cardinality(Asking(u)) - 1) + Left(u) <= 1 + faults + crashes
    BY <2>4, <2>5
  <2> QED
    BY <1>2, <1>4, <2>2, <2>3, <2>6 DEF LoadOK
<1> QED
  BY <1>6, <1>7
\* Steps of a thread that neither take the lock nor ask MySQL.
LEMMA LoadThread ==
    ASSUME SessionInv, SessionInv', LoadInv, NEW t \in Threads,
           \/ ServePage(t) \/ CheckFilter(t) \/ GetCached(t) \/ GetAgain(t) \/ PutCached(t)
           \/ Unlock(t) \/ Verify(t) \/ PutToken(t) \/ PutMiaoShaUser(t) \/ SendCookie(t)
    PROVE  LoadInv'
<1> USE DEF redisVars, countVars, LoadPoints
<1>1. /\ UNCHANGED <<queries, faults, crashes>>
      /\ userCache \subseteq userCache'
  BY DEF ServePage, CheckFilter, GetCached, GetAgain, PutCached, Unlock, Verify, PutToken,
         PutMiaoShaUser, SendCookie
<1>2. faults' + crashes' = faults + crashes
  BY <1>1
<1>3. thread[t] \in ThreadState /\ RequestOK(thread[t]) /\ thread \in [Threads -> ThreadState]
  BY DEF SessionInv, RequestsOK, TypeOK, ThreadState
<1>5. CASE ServePage(t)
  BY <1>1, <1>2, <1>5, LoadAnswer DEF ServePage
<1>6. CASE CheckFilter(t)
  <2>1. CASE Goto(t, "get")
    BY <1>1, <1>2, <1>6, <2>1, LoadGoto DEF CheckFilter
  <2>2. CASE Answer(t, "MOBILE_NOT_EXIST")
    BY <1>1, <1>2, <1>6, <2>2, LoadAnswer DEF CheckFilter
  <2> QED
    BY <1>6, <2>1, <2>2 DEF CheckFilter
<1>7. CASE GetCached(t)
  <2>1. CASE Goto(t, "verify")
    BY <1>1, <1>2, <1>7, <2>1, LoadGoto DEF GetCached
  <2>2. CASE Goto(t, "lock")
    BY <1>1, <1>2, <1>7, <2>2, LoadGoto DEF GetCached
  <2> QED
    BY <1>7, <2>1, <2>2 DEF GetCached
<1>8. CASE GetAgain(t)
  <2>1. CASE Cached(t)
    <3>1. Goto(t, "unlock")
      BY <1>8, <2>1 DEF GetAgain
    <3> QED
      BY <1>1, <1>2, <1>8, <2>1, <3>1, LoadGoto DEF GetAgain
  <2>2. CASE ~Cached(t)
    <3>1. Goto(t, "query")
      BY <1>8, <2>2 DEF GetAgain
    <3> QED
      BY <1>1, <1>2, <1>8, <2>2, <3>1, LoadGoto DEF GetAgain
  <2> QED
    BY <2>1, <2>2
<1>9. CASE PutCached(t)
  <2>1. thread' = [thread EXCEPT ![t] = [thread[t] EXCEPT !.pc = "unlock", !.failed = ~Storable(thread[t].mobile)]]
    BY <1>9 DEF PutCached
  <2>2. thread[t].mobile \in userCache' \cup (Mobiles \ Users)
    BY <1>3, <1>9 DEF PutCached, Storable, RequestOK, InLogin, InGetById
  <2> QED
    BY <1>1, <1>2, <1>9, <2>1, <2>2, LoadFinally DEF PutCached
<1>10. CASE Unlock(t)
  <2>1. \/ lock' = lock
        \/ lock.owner \in Threads => thread[lock.owner].pc \notin LoadPoints
    <3>1. CASE lock.owner = t
      BY <1>10, <3>1 DEF Unlock
    <3>2. CASE lock.owner # t
      <4>1. ~MayUnlock(t)
        BY <3>2 DEF MayUnlock
      <4>2. Released(t) = lock
        BY <4>1 DEF Released
      <4> QED
        BY <1>10, <4>2 DEF Unlock
    <3> QED
      BY <3>1, <3>2
  <2>2. CASE Answer(t, "error")
    BY <1>1, <1>2, <1>10, <2>1, <2>2, LoadAnswer DEF Unlock
  <2>3. CASE Goto(t, "verify")
    BY <1>1, <1>2, <1>10, <2>1, <2>3, LoadGoto DEF Unlock
  <2> QED
    BY <1>10, <2>2, <2>3 DEF Unlock
<1>11. CASE Verify(t)
  <2>1. CASE Goto(t, "token")
    BY <1>1, <1>2, <1>11, <2>1, LoadGoto DEF Verify
  <2>2. CASE Answer(t, "PASSWORD_ERROR")
    BY <1>1, <1>2, <1>11, <2>2, LoadAnswer DEF Verify
  <2> QED
    BY <1>11, <2>1, <2>2 DEF Verify
<1>12. CASE PutToken(t)
  <2> DEFINE k == CHOOSE k \in Tokens : tokenUser[k] = None
             r == [thread[t] EXCEPT !.pc = "miaosha", !.issue = k]
  <2>1. thread' = [thread EXCEPT ![t].pc = "miaosha", ![t].issue = k]
    BY <1>12 DEF PutToken
  <2> HIDE DEF k
  <2>2. thread' = [thread EXCEPT ![t] = r] /\ r.pc = "miaosha"
    BY <1>3, <2>1 DEF ThreadState
  <2>3. lock' = lock /\ thread[t].pc = "token"
    BY <1>12 DEF PutToken
  <2> HIDE DEF r
  <2> QED
    BY <1>1, <1>2, <2>2, <2>3, LoadMove
<1>13. CASE PutMiaoShaUser(t)
  BY <1>1, <1>2, <1>13, LoadGoto DEF PutMiaoShaUser
<1>14. CASE SendCookie(t)
  BY <1>1, <1>2, <1>14, LoadAnswer DEF SendCookie
<1> QED
  BY <1>5, <1>6, <1>7, <1>8, <1>9, <1>10, <1>11, <1>12, <1>13, <1>14

LEMMA LoadCallFails ==
    ASSUME SessionInv, SessionInv', LoadInv, NEW t \in Threads, CallFails(t)
    PROVE  LoadInv'
<1>1. /\ UNCHANGED <<userCache, queries, crashes>> /\ faults' = faults + 1
      /\ faults \in Nat /\ crashes \in Nat
  BY LoginConstants DEF CallFails, SessionInv, TypeOK
<1>2. faults' + crashes' = faults + crashes + 1
  BY <1>1
<1>3. CASE Answer(t, "error")
  BY <1>1, <1>2, <1>3, LoadAnswer
<1>4. CASE thread' = [thread EXCEPT ![t] = [thread[t] EXCEPT !.pc = "unlock", !.failed = TRUE]]
  BY <1>1, <1>2, <1>4, LoadFinally
<1> QED
  BY <1>3, <1>4 DEF CallFails

LEMMA LoadNode ==
    ASSUME SessionInv, SessionInv', LoadInv,
           \/ \E n \in Nodes : Boot(n) \/ Crash(n)
           \/ LockLapses \/ LockLost \/ UNCHANGED vars
    PROVE  LoadInv'
<1> SUFFICES ASSUME NEW u \in Users PROVE LoadOK(u)'
  BY DEF LoadInv
<1> USE DEF redisVars, countVars, vars
<1>1. LoadOK(u) /\ faults \in Nat /\ crashes \in Nat
  BY LoginConstants DEF LoadInv, SessionInv, TypeOK
<1>2. UNCHANGED <<queries, userCache>>
  BY DEF Boot, Crash, LockLapses, LockLost
<1>3. Asking(u)' \subseteq Asking(u)
  <2>1. CASE UNCHANGED thread
    BY <1>2, <2>1 DEF Asking
  <2>2. ASSUME NEW n \in Nodes, Crash(n) PROVE Asking(u)' \subseteq Asking(u)
    <3>1. \A t \in Threads : thread'[t] = IF NodeOf[t] = n THEN Idle ELSE thread[t]
      BY <2>2 DEF Crash
    <3> QED
      BY <1>2, <3>1 DEF Asking, Idle
  <2> QED
    BY <2>1, <2>2 DEF Boot, LockLapses, LockLost
<1>4. CASE LockLost \/ \E n \in Nodes : Crash(n)
  <2>1. faults' + crashes' = faults + crashes + 1
    BY <1>1, <1>4 DEF LockLost, Crash
  <2> QED
    BY <1>1, <1>2, <1>3, <2>1, LoadKept
<1>5. CASE (\E n \in Nodes : Boot(n)) \/ LockLapses \/ UNCHANGED vars
  <2>1. faults' + crashes' = faults + crashes
    BY <1>5 DEF Boot, LockLapses
  <2>2. Loading(u) => Loading(u)'
    BY <1>5, LoginConstants DEF Loading, Boot, LockLapses
  <2>3. Left(u)' <= Left(u)
    BY <1>2, <2>2 DEF Left
  <2> QED
    BY <1>1, <1>2, <1>3, <2>1, <2>3, LoadKept
<1> QED
  BY <1>4, <1>5

LEMMA LoadAccept ==
    ASSUME SessionInv, SessionInv', LoadInv, NEW t \in Threads, NEW k, NEW r,
           Accept(t, k, r), r.pc \in {"page", "contains"}
    PROVE  LoadInv'
<1>1. /\ thread[t].pc = "idle" /\ thread' = [thread EXCEPT ![t] = r]
      /\ UNCHANGED <<userCache, lock, queries, faults, crashes>>
  BY DEF Accept, redisVars
<1>2. faults' + crashes' = faults + crashes
  BY <1>1
<1> QED
  BY <1>1, <1>2, LoadMove DEF LoadPoints

LEMMA NextLoad == SessionInv /\ SessionInv' /\ LoadInv /\ [Next]_vars => LoadInv'
<1> SUFFICES ASSUME SessionInv, SessionInv', LoadInv, [Next]_vars PROVE LoadInv'
  OBVIOUS
<1>1. CASE \/ \E n \in Nodes : Boot(n) \/ Crash(n)
           \/ LockLapses \/ LockLost \/ UNCHANGED vars
  BY <1>1, LoadNode
<1>2. ASSUME NEW t \in Threads, NEW k \in cookies \cup {None}, AcceptPage(t, k)
      PROVE  LoadInv'
  <2> DEFINE r == [Idle EXCEPT !.pc = "page", !.token = k]
  <2>1. r.pc = "page" /\ Accept(t, k, r)
    BY <1>2 DEF Idle, AcceptPage
  <2> HIDE DEF r
  <2> QED
    BY <2>1, LoadAccept
<1>3. ASSUME NEW t \in Threads, NEW k \in cookies \cup {None}, NEW m \in Mobiles,
             NEW pass \in BOOLEAN, AcceptLogin(t, k, m, pass)
      PROVE  LoadInv'
  <2> DEFINE r == [Idle EXCEPT !.pc = "contains", !.token = k, !.mobile = m, !.pass = pass]
  <2>1. r.pc = "contains" /\ Accept(t, k, r)
    BY <1>3 DEF Idle, AcceptLogin
  <2> HIDE DEF r
  <2> QED
    BY <2>1, LoadAccept
<1>4. ASSUME NEW t \in Threads, ServePage(t) \/ LoginStep(t) \/ CallFails(t)
      PROVE  LoadInv'
  BY <1>4, LoadThread, LoadLock, LoadQuery, LoadCallFails DEF LoginStep
<1> QED
  BY <1>1, <1>2, <1>3, <1>4 DEF Next

\* The double check under the lock: for every row, getById asks MySQL at most
\* once more often than calls fail, locks lapse and nodes die.
THEOREM AskedOnce == Spec => []LoadedOnce
<1>1. Init => LoadInv
  <2> SUFFICES ASSUME Init, NEW u \in Users PROVE LoadOK(u)
    BY DEF LoadInv
  <2>1. Asking(u) = {} /\ Left(u) = 1
    BY LoginConstants DEF Init, Asking, Left, Loading, Idle
  <2>2. queries[u] = 0 /\ faults = 0 /\ crashes = 0
    BY LoginConstants DEF Init
  <2> QED
    BY <2>1, <2>2, FS_EmptySet DEF LoadOK
<1>2. SessionInv /\ LoadInv => LoadedOnce
  <2> SUFFICES ASSUME SessionInv, LoadInv, NEW u \in Users PROVE queries[u] <= 1 + faults + crashes
    BY DEF LoadedOnce
  <2>1. /\ queries[u] \in Nat /\ faults \in Nat /\ crashes \in Nat
        /\ Left(u) \in {0, 1} /\ Cardinality(Asking(u)) \in Nat
    BY LoadNumbers
  <2>2. queries[u] + Cardinality(Asking(u)) + Left(u) <= 1 + faults + crashes
    BY DEF LoadInv, LoadOK
  <2> QED
    BY <2>1, <2>2
<1> QED
  BY <1>1, <1>2, SessionInvariant, NextLoad, PTL DEF Spec
=============================================================================
