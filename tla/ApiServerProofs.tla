--------------------------- MODULE ApiServerProofs ---------------------------
(* Proofs about module ApiServer, for every number of requests, every pool,  *)
(* limit and clock.                                                          *)
EXTENDS ApiServer, FiniteSetTheorems, TLAPS

-----------------------------------------------------------------------------
(* Type correctness.                                                       *)

LEMMA InitTypeOK == Init => TypeOK
<1>1. Init => reference \in BOOLEAN
  BY DEF Init
<1>2. Init => /\ hits \in [Keys -> Nat] /\ ttl \subseteq Keys /\ passed \in [Keys -> Nat]
              /\ window \in Windows /\ win \in [Requests -> Windows]
  BY ApiAssumption DEF Init, Windows, Keys
<1>3. Init => /\ app \in Rows /\ ver \in Rows /\ cases \in Nat
              /\ step \in [Requests -> Steps] /\ kind \in [Requests -> Kinds]
              /\ target \in [Requests -> Rows]
  BY ApiAssumption DEF Init, Rows, Steps, DbSteps
<1>4. Init => /\ run \in [Requests -> {"none", "pending", "failed"}]
              /\ wrote \in [Requests -> BOOLEAN]
              /\ answer \in [Requests -> {0, 200, 201, 202, 204, 404, 409, 422, 429, 500, 503}]
              /\ queued \subseteq Requests /\ held \subseteq Requests \X Sessions
  BY DEF Init
<1>5. Init => org \in BOOLEAN /\ dataset \in BOOLEAN /\ oldRun \in BOOLEAN
  BY DEF Init
<1>. QED BY <1>1, <1>2, <1>3, <1>4, <1>5 DEF TypeOK

\* What an answer does to the state, whatever else the step does.
LEMMA AnswerTypeOK ==
    ASSUME TypeOK, NEW r \in Requests,
           NEW code \in {200, 201, 202, 204, 404, 409, 422, 429, 500, 503},
           Answer(r, code)
    PROVE  /\ step' \in [Requests -> Steps]
           /\ answer' \in [Requests -> {0, 200, 201, 202, 204, 404, 409, 422, 429, 500, 503}]
           /\ held' \subseteq Requests \X Sessions
BY DEF TypeOK, Answer, Goto, Closed, Steps

LEMMA KeyType ==
    ASSUME TypeOK, NEW r \in Requests
    PROVE  Key(r) \in Keys
BY DEF TypeOK, Key, Keys, Bucket

\* The outcome of the limiter's decision.
LEMMA DecideTypeOK ==
    ASSUME TypeOK, NEW r \in Requests, NEW n \in Nat, Decide(r, n)
    PROVE  /\ step' \in [Requests -> Steps]
           /\ answer' \in [Requests -> {0, 200, 201, 202, 204, 404, 409, 422, 429, 500, 503}]
           /\ held' \subseteq Requests \X Sessions
           /\ win' \in [Requests -> Windows]
           /\ passed' \in [Keys -> Nat]
<1>0. 0 \in Windows
  BY ApiAssumption DEF Windows
<1>1. CASE Within(n)
  <2>1. Pass(r) /\ passed' = IF win[r] = window THEN [passed EXCEPT ![Key(r)] = @ + 1] ELSE passed
    BY <1>1 DEF Decide
  <2>2. passed' \in [Keys -> Nat]
    BY <2>1, KeyType DEF TypeOK
  <2>. QED BY <1>0, <2>1, <2>2 DEF TypeOK, Pass, Forget, Goto, Steps, DbSteps
<1>2. CASE ~Within(n)
  <2>1. Answer(r, 429) /\ Forget(r) /\ passed' = passed
    BY <1>2 DEF Decide
  <2>. QED BY <1>0, <2>1, AnswerTypeOK DEF TypeOK, Forget
<1>. QED BY <1>1, <1>2

LEMMA LimiterTypeOK ==
    ASSUME TypeOK, NEW r \in Requests,
           Arrive(r) \/ Incr(r) \/ Expire(r) \/ Degraded(r)
    PROVE  TypeOK'
<1>0. 0 \in Windows
  BY ApiAssumption DEF Windows
<1>1. CASE Arrive(r)
  BY <1>1 DEF Arrive, TypeOK, Goto, Steps, fixed, redis, rows
<1>2. CASE Incr(r)
  <2>1. hits' \in [Keys -> Nat] /\ hits'[Key(r)] \in Nat
    BY <1>2, KeyType DEF Incr, TypeOK
  <2>2. UNCHANGED <<fixed, window, ttl, org, rows, queued, target, wrote>>
    BY <1>2 DEF Incr
  <2>3. CASE hits'[Key(r)] = 1
    BY <1>2, <2>1, <2>2, <2>3 DEF Incr, TypeOK, Goto, Steps, fixed, rows, limiting
  <2>4. CASE hits'[Key(r)] # 1
    <3>1. Decide(r, hits'[Key(r)])
      BY <1>2, <2>4 DEF Incr
    <3>. QED BY <2>1, <2>2, <3>1, DecideTypeOK DEF TypeOK, fixed, rows
  <2>. QED BY <2>3, <2>4
<1>3. CASE Expire(r)
  <2>1. Decide(r, 1) /\ ttl' \subseteq Keys
    BY <1>3, KeyType DEF Expire, TypeOK
  <2>2. UNCHANGED <<fixed, window, hits, org, rows, queued, target, wrote>>
    BY <1>3 DEF Expire
  <2>. QED BY <2>1, <2>2, DecideTypeOK DEF TypeOK, fixed, rows
<1>4. CASE Degraded(r)
  <2>1. UNCHANGED <<fixed, redis, org, rows, queued, passed, target, wrote>>
    BY <1>4 DEF Degraded
  <2>2. CASE Pass(r)
    BY <1>0, <2>1, <2>2 DEF TypeOK, Pass, Forget, Goto, Steps, DbSteps, fixed, redis, rows
  <2>3. CASE Answer(r, 503) /\ Forget(r)
    BY <1>0, <2>1, <2>3, AnswerTypeOK DEF TypeOK, Forget, fixed, redis, rows
  <2>. QED BY <1>4, <2>2, <2>3 DEF Degraded
<1>. QED BY <1>1, <1>2, <1>3, <1>4

\* The six writes, row by row.
LEMMA WriteEffect ==
    ASSUME NEW r \in Requests, Write(r)
    PROVE  /\ app' = IF kind[r] = "create" THEN r
                     ELSE IF kind[r] = "delete" /\ app = target[r] THEN NoOne ELSE app
           /\ ver' = IF kind[r] = "version" THEN r
                     ELSE IF kind[r] = "delete" /\ app = target[r] THEN NoOne ELSE ver
           /\ cases' = IF kind[r] = "case" THEN cases + 1 ELSE cases
           /\ run' = IF kind[r] = "submit" THEN [run EXCEPT ![r] = "pending"] ELSE run
<1>1. CASE CreateApplication(r)
  BY <1>1 DEF CreateApplication
<1>2. CASE CreateVersion(r)
  BY <1>2 DEF CreateVersion
<1>3. CASE AddTestCase(r)
  BY <1>3 DEF AddTestCase
<1>4. CASE UpdateApplication(r)
  BY <1>4 DEF UpdateApplication, rows
<1>5. CASE DeleteApplication(r)
  BY <1>5 DEF DeleteApplication
<1>6. CASE CreateRun(r)
  BY <1>6 DEF CreateRun
<1>. QED BY <1>1, <1>2, <1>3, <1>4, <1>5, <1>6 DEF Write

LEMMA WriteTypeOK ==
    ASSUME TypeOK, NEW r \in Requests, Write(r)
    PROVE  TypeOK'
<1>1. UNCHANGED <<fixed, redis, org, queued, limiting, target>>
  BY DEF Write
<1>2. app' \in Rows /\ ver' \in Rows
  BY WriteEffect DEF TypeOK, Rows
<1>3. cases' \in Nat /\ run' \in [Requests -> {"none", "pending", "failed"}]
       /\ wrote' \in [Requests -> BOOLEAN]
  <2>1. cases' \in Nat
    BY WriteEffect DEF TypeOK
  <2>2. run' \in [Requests -> {"none", "pending", "failed"}]
    BY WriteEffect DEF TypeOK
  <2>3. wrote' \in [Requests -> BOOLEAN]
    BY DEF Write, TypeOK
  <2>. QED BY <2>1, <2>2, <2>3
<1>4. CASE Answer(r, 204)
  BY <1>1, <1>2, <1>3, <1>4, AnswerTypeOK DEF TypeOK, fixed, redis, limiting
<1>5. CASE Goto(r, "refresh") /\ held' = held \ {<<r, Session(r)>>} /\ UNCHANGED answer
  BY <1>1, <1>2, <1>3, <1>5 DEF TypeOK, Goto, Steps, DbSteps, fixed, redis, limiting
<1>. QED BY <1>4, <1>5 DEF Write

LEMMA HandlerTypeOK ==
    ASSUME TypeOK, NEW r \in Requests,
           \/ Acquire(r) \/ PoolTimeout(r) \/ DbFails(r) \/ FindTenant(r)
           \/ Provision(r) \/ Look(r) \/ Refuse(r) \/ Refresh(r)
           \/ Publish(r) \/ MarkFailed(r) \/ BuildTarget(r) \/ CallOut(r) \/ RecordOutcome(r)
    PROVE  TypeOK'
<1>1. CASE Acquire(r)
  BY <1>1 DEF Acquire, TypeOK, Session, Sessions, fixed, redis, rows, limiting
<1>2. CASE PoolTimeout(r) \/ DbFails(r)
  BY <1>2, AnswerTypeOK DEF PoolTimeout, DbFails, TypeOK, fixed, redis, rows, limiting
<1>3. CASE FindTenant(r)
  BY <1>3 DEF FindTenant, TypeOK, Goto, Steps, DbSteps, fixed, redis, rows, limiting
<1>4. CASE Provision(r)
  <2>1. CASE Answer(r, 409) /\ UNCHANGED org
    BY <1>4, <2>1, AnswerTypeOK DEF Provision, TypeOK, fixed, redis, rows, limiting
  <2>2. CASE org' = TRUE /\ held' = Closed(r) /\ Goto(r, "tenant") /\ UNCHANGED answer
    BY <1>4, <2>2 DEF Provision, TypeOK, Goto, Closed, Steps, DbSteps, fixed, redis, rows, limiting
  <2>. QED BY <1>4, <2>1, <2>2 DEF Provision
<1>5. CASE Look(r)
  <2>1. UNCHANGED <<fixed, redis, org, rows, queued, limiting, wrote>>
    BY <1>5 DEF Look, Read
  <2>2. target' \in [Requests -> Rows]
    BY <1>5 DEF Look, Read, TypeOK
  <2>3. CASE \E code \in {404, 200, 409, 422, 429} : Answer(r, code)
    BY <2>1, <2>2, <2>3, AnswerTypeOK DEF TypeOK, fixed, redis, rows, limiting
  <2>4. CASE /\ held' = Closed(r) /\ UNCHANGED answer
             /\ Goto(r, IF reference THEN "calling" ELSE "target")
    BY <2>1, <2>2, <2>4 DEF TypeOK, Closed, Goto, Steps, DbSteps, fixed, redis, rows, limiting
  <2>5. CASE Goto(r, "write") /\ UNCHANGED <<held, answer>>
    BY <2>1, <2>2, <2>5 DEF TypeOK, Goto, Steps, DbSteps, fixed, redis, rows, limiting
  <2>. QED BY <1>5, <2>3, <2>4, <2>5 DEF Look, Read
<1>6. CASE Refuse(r)
  <2>1. \E code \in {409, 500} : Answer(r, code)
    BY <1>6 DEF Refuse
  <2>. QED BY <1>6, <2>1, AnswerTypeOK DEF Refuse, TypeOK, fixed, redis, rows, limiting
<1>7. CASE Refresh(r)
  <2>1. UNCHANGED <<fixed, redis, org, rows, queued, limiting, target, wrote>>
    BY <1>7 DEF Refresh
  <2>2. CASE \E code \in {500, 201, 200, 204} : Answer(r, code)
    BY <2>1, <2>2, AnswerTypeOK DEF TypeOK, fixed, redis, rows, limiting
  <2>3. CASE held' = held \ {<<r, "service">>} /\ Goto(r, "publish") /\ UNCHANGED answer
    BY <2>1, <2>3 DEF TypeOK, Goto, Steps, fixed, redis, rows, limiting
  <2>. QED BY <1>7, <2>2, <2>3 DEF Refresh
<1>8. CASE Publish(r)
  <2>1. UNCHANGED <<fixed, redis, org, rows, limiting, target, wrote>> /\ queued' \subseteq Requests
    BY <1>8 DEF Publish, TypeOK
  <2>2. CASE Answer(r, 202)
    BY <2>1, <2>2, AnswerTypeOK DEF TypeOK, fixed, redis, rows, limiting
  <2>3. CASE Goto(r, "mark") /\ UNCHANGED <<held, answer>>
    BY <2>1, <2>3 DEF TypeOK, Goto, Steps, DbSteps, fixed, redis, rows, limiting
  <2>. QED BY <1>8, <2>2, <2>3 DEF Publish
<1>9. CASE MarkFailed(r)
  BY <1>9, AnswerTypeOK DEF MarkFailed, TypeOK, fixed, redis, limiting
<1>10. CASE BuildTarget(r)
  <2>1. UNCHANGED <<fixed, redis, org, rows, queued, limiting, target, wrote>>
    BY <1>10 DEF BuildTarget
  <2>2. CASE \E code \in {404, 409} : Answer(r, code)
    BY <2>1, <2>2, AnswerTypeOK DEF TypeOK, fixed, redis, rows, limiting
  <2>3. CASE Goto(r, "calling") /\ UNCHANGED <<held, answer>>
    BY <2>1, <2>3 DEF TypeOK, Goto, Steps, fixed, redis, rows, limiting
  <2>. QED BY <1>10, <2>2, <2>3 DEF BuildTarget
<1>11. CASE CallOut(r)
  <2>1. UNCHANGED <<fixed, redis, org, rows, queued, limiting, target, wrote>>
    BY <1>11 DEF CallOut
  <2>2. CASE Answer(r, 200) \/ Answer(r, 500)
    BY <2>1, <2>2, AnswerTypeOK DEF TypeOK, fixed, redis, rows, limiting
  <2>3. CASE Goto(r, "outcome") /\ UNCHANGED <<held, answer>>
    BY <2>1, <2>3 DEF TypeOK, Goto, Steps, DbSteps, fixed, redis, rows, limiting
  <2>. QED BY <1>11, <2>2, <2>3 DEF CallOut
<1>12. CASE RecordOutcome(r)
  BY <1>12, AnswerTypeOK DEF RecordOutcome, TypeOK, fixed, redis, rows, limiting
<1>. QED BY <1>1, <1>2, <1>3, <1>4, <1>5, <1>6, <1>7, <1>8, <1>9, <1>10, <1>11, <1>12

\* A step of the environment.
Around == (\E k \in Keys : KeyExpires(k)) \/ Tick

LEMMA AroundTypeOK == TypeOK /\ Around => TypeOK'
<1>1. ASSUME TypeOK, NEW k \in Keys, KeyExpires(k) PROVE TypeOK'
  BY <1>1 DEF KeyExpires, TypeOK, fixed, rows, limiting
<1>2. ASSUME TypeOK, Tick PROVE TypeOK'
  BY <1>2, ApiAssumption DEF Tick, TypeOK, Windows, fixed, rows, limiting
<1>. QED BY <1>1, <1>2 DEF Around

LEMMA TypeOKStep == TypeOK /\ [Next]_vars => TypeOK'
<1>. SUFFICES ASSUME TypeOK, [Next]_vars PROVE TypeOK'
  OBVIOUS
<1>1. ASSUME NEW r \in Requests, Arrive(r) \/ Serve(r) \/ DbFails(r) \/ Degraded(r)
      PROVE  TypeOK'
  BY <1>1, LimiterTypeOK, HandlerTypeOK, WriteTypeOK DEF Serve
<1>2. CASE Around
  BY <1>2, AroundTypeOK
<1>3. CASE UNCHANGED vars
  BY <1>3 DEF vars, TypeOK, fixed, redis, rows, limiting
<1>. QED BY <1>1, <1>2, <1>3 DEF Next, Around

\* The API's state is always well-formed.
THEOREM TypeCorrect == Spec => []TypeOK
<1>1. Init => TypeOK
  BY InitTypeOK
<1>2. TypeOK /\ [Next]_vars => TypeOK'
  BY TypeOKStep
<1>. QED BY <1>1, <1>2, PTL DEF Spec

-----------------------------------------------------------------------------
(* The connection pool.                                                    *)

Working == DbSteps \cup {"publish", "calling"}

\* A step of request r keeps the pool accounted for when it only gives
\* connections back, and r works on or keeps none.
LEMMA PoolKept ==
    ASSUME TypeOK, PoolAccounted, NEW r \in Requests,
           held' \subseteq held,
           \A q \in Requests \ {r} : step'[q] = step[q],
           step'[r] \in Working \/ \A s \in Sessions : <<r, s>> \notin held'
    PROVE  PoolAccounted'
<1>1. IsFiniteSet(held') /\ Cardinality(held') <= Cardinality(held)
  BY FS_Subset DEF PoolAccounted
<1>2. Cardinality(held') \in Nat /\ Cardinality(held) \in Nat
  BY <1>1, FS_CardinalityType DEF PoolAccounted
<1>3. Cardinality(held') <= PoolSize
  BY <1>1, <1>2, ApiAssumption DEF PoolAccounted
<1>4. ASSUME NEW q \in Requests, NEW s \in Sessions, <<q, s>> \in held'
      PROVE  step'[q] \in DbSteps \cup {"publish", "calling"}
  BY <1>4 DEF PoolAccounted, Working
<1>. QED BY <1>1, <1>3, <1>4 DEF PoolAccounted

LEMMA AnswerPool ==
    ASSUME TypeOK, PoolAccounted, NEW r \in Requests, NEW code, Answer(r, code)
    PROVE  PoolAccounted'
<1>1. /\ held' \subseteq held
      /\ \A q \in Requests \ {r} : step'[q] = step[q]
      /\ \A s \in Sessions : <<r, s>> \notin held'
  BY DEF Answer, Goto, Closed, TypeOK
<1>. QED BY <1>1, PoolKept

LEMMA GotoPool ==
    ASSUME TypeOK, PoolAccounted, NEW r \in Requests, NEW s \in Working,
           Goto(r, s), held' \subseteq held
    PROVE  PoolAccounted'
<1>1. step'[r] \in Working /\ \A q \in Requests \ {r} : step'[q] = step[q]
  BY DEF Goto, TypeOK
<1>. QED BY <1>1, PoolKept

LEMMA PoolStep ==
    ASSUME TypeOK, PoolAccounted, NEW r \in Requests,
           Arrive(r) \/ Serve(r) \/ DbFails(r) \/ Degraded(r)
    PROVE  PoolAccounted'
<1>. DEFINE Early == {"new", "counting", "expiring"}
<1>e. ASSUME step[r] \in Early, NEW t \in Early, Goto(r, t), held' = held
      PROVE  PoolAccounted'
  <2>1. \A s \in Sessions : <<r, s>> \notin held'
    BY <1>e DEF PoolAccounted, DbSteps
  <2>2. \A q \in Requests \ {r} : step'[q] = step[q]
    BY <1>e DEF Goto, TypeOK
  <2>. QED BY <1>e, <2>1, <2>2, PoolKept
<1>p. ASSUME Pass(r) PROVE PoolAccounted'
  BY <1>p, GotoPool DEF Pass, Working, DbSteps
<1>d. ASSUME NEW n, Decide(r, n) PROVE PoolAccounted'
  BY <1>d, <1>p, AnswerPool DEF Decide
<1>1. CASE Arrive(r)
  BY <1>1, <1>e DEF Arrive
<1>2. CASE Incr(r)
  <2>1. CASE Goto(r, "expiring") /\ UNCHANGED held
    BY <1>2, <2>1, <1>e DEF Incr
  <2>2. CASE Decide(r, hits'[Key(r)])
    BY <2>2, <1>d
  <2>. QED BY <1>2, <2>1, <2>2 DEF Incr
<1>3. CASE Expire(r)
  BY <1>3, <1>d DEF Expire
<1>4. CASE Degraded(r)
  BY <1>4, <1>p, AnswerPool DEF Degraded
<1>5. CASE Acquire(r)
  <2>1. step' = step /\ step[r] \in DbSteps
    BY <1>5 DEF Acquire
  <2>2. held' = held \cup {<<r, Session(r)>>} /\ Cardinality(held) < PoolSize
    BY <1>5 DEF Acquire
  <2>3. <<r, Session(r)>> \notin held
    BY <1>5 DEF Acquire, Connected
  <2>4. IsFiniteSet(held') /\ Cardinality(held') = Cardinality(held) + 1
    BY <2>2, <2>3, FS_AddElement DEF PoolAccounted
  <2>5. Cardinality(held) \in Nat
    BY FS_CardinalityType DEF PoolAccounted
  <2>6. Cardinality(held') <= PoolSize
    BY <2>2, <2>4, <2>5, ApiAssumption
  <2>7. ASSUME NEW q \in Requests, NEW s \in Sessions, <<q, s>> \in held'
        PROVE  step'[q] \in DbSteps \cup {"publish", "calling"}
    BY <2>1, <2>2, <2>7 DEF PoolAccounted
  <2>. QED BY <2>4, <2>6, <2>7 DEF PoolAccounted
<1>6. CASE PoolTimeout(r) \/ DbFails(r) \/ MarkFailed(r) \/ RecordOutcome(r) \/ Refuse(r)
  BY <1>6, AnswerPool DEF PoolTimeout, DbFails, MarkFailed, RecordOutcome, Refuse
<1>7. CASE FindTenant(r)
  <2>1. CASE org
    BY <1>7, <2>1, GotoPool DEF FindTenant, Working, DbSteps
  <2>2. CASE ~org
    BY <1>7, <2>2, GotoPool DEF FindTenant, Working, DbSteps
  <2>. QED BY <2>1, <2>2
<1>8. CASE Provision(r)
  BY <1>8, AnswerPool, GotoPool DEF Provision, Working, DbSteps, Closed
<1>9. CASE Look(r)
  BY <1>9, AnswerPool, GotoPool DEF Look, Read, Working, DbSteps, Closed
<1>10. CASE Write(r)
  BY <1>10, AnswerPool, GotoPool DEF Write, Working, DbSteps
<1>11. CASE Refresh(r)
  BY <1>11, AnswerPool, GotoPool DEF Refresh, Working
<1>12. CASE Publish(r)
  BY <1>12, AnswerPool, GotoPool DEF Publish, Working, DbSteps
<1>13. CASE BuildTarget(r)
  BY <1>13, AnswerPool, GotoPool DEF BuildTarget, Working
<1>14. CASE CallOut(r)
  BY <1>14, AnswerPool, GotoPool DEF CallOut, Working, DbSteps
<1>. QED
  BY <1>1, <1>2, <1>3, <1>4, <1>5, <1>6, <1>7, <1>8, <1>9, <1>10, <1>11, <1>12, <1>13, <1>14
     DEF Serve

\* session.py and services.py: no more connections are taken than the pool has,
\* and no way out of a handler keeps one.
THEOREM PoolIsAccounted == Spec => []PoolAccounted
<1>1. Init => PoolAccounted
  BY FS_EmptySet, ApiAssumption DEF Init, PoolAccounted
<1>2. TypeOK /\ PoolAccounted /\ [Next]_vars => PoolAccounted'
  <2>. SUFFICES ASSUME TypeOK, PoolAccounted, [Next]_vars PROVE PoolAccounted'
    OBVIOUS
  <2>1. CASE Around \/ UNCHANGED vars
    BY <2>1 DEF Around, KeyExpires, Tick, vars, PoolAccounted
  <2>. QED BY <2>1, PoolStep DEF Next, Around
<1>. QED BY <1>1, <1>2, TypeCorrect, PTL DEF Spec

-----------------------------------------------------------------------------
(* The rate limiter.                                                       *)

\* Of a key that is current or to come: nobody passes who was not counted, and
\* the request that created it, while it sets the key's lifetime, is counted
\* and has not passed.
CounterInv ==
    /\ \A r \in Requests : win[r] <= window
    /\ \A k \in Keys : k[2] >= window =>
          /\ passed[k] <= hits[k]
          /\ \A r \in Requests :
                step[r] = "expiring" /\ Key(r) = k => passed[k] < hits[k] /\ passed[k] < Limit
          /\ \A r, q \in Requests :
                step[r] = "expiring" /\ step[q] = "expiring" /\ Key(r) = k /\ Key(q) = k
                   => r = q

Limited == CounterInv /\ WindowLimit

\* Steps that leave the limiter's variables alone, and enter no step of it.
LEMMA LimiterUntouched ==
    ASSUME TypeOK, Limited, NEW r \in Requests,
           UNCHANGED <<kind, window, hits, limiting>>,
           \A q \in Requests : step'[q] = "expiring" => step[q] = "expiring"
    PROVE  Limited'
BY DEF Limited, CounterInv, WindowLimit, limiting, Key

LEMMA LimitedStep ==
    ASSUME TypeOK, Limited, NEW r \in Requests,
           Arrive(r) \/ Serve(r) \/ DbFails(r) \/ Degraded(r)
    PROVE  Limited'
<1>k. \A q \in Requests : Key(q) \in Keys /\ Key(q)[2] = win[q]
  BY KeyType DEF Key
<1>w. window \in Nat /\ \A q \in Requests : win[q] \in Nat
  BY ApiAssumption DEF TypeOK, Windows
<1>n. \A k \in Keys : hits[k] \in Nat /\ passed[k] \in Nat
  BY DEF TypeOK
<1>q. \A k \in Keys : k[2] \in Nat
  BY ApiAssumption DEF Keys, Windows
<1>1. CASE Arrive(r)
  <2>1. /\ UNCHANGED <<kind, window, hits, passed>>
        /\ win' = [win EXCEPT ![r] = window]
        /\ step' = [step EXCEPT ![r] = "counting"]
    BY <1>1 DEF Arrive, fixed, redis, Goto
  <2>2. \A q \in Requests : win'[q] <= window
    BY <2>1, <1>w DEF TypeOK, Limited, CounterInv
  <2>3. \A q \in Requests : step'[q] = "expiring" => step[q] = "expiring" /\ Key(q)' = Key(q)
    BY <2>1 DEF TypeOK, Key
  <2>. QED BY <2>1, <2>2, <2>3 DEF Limited, CounterInv, WindowLimit
<1>2. CASE Incr(r)
  <2>. DEFINE k0 == Key(r)
              n  == hits[k0] + 1
  <2>0. k0 \in Keys
    BY <1>k
  <2>1. /\ UNCHANGED <<kind, window>>
        /\ hits' = [hits EXCEPT ![k0] = n]
        /\ hits'[k0] = n /\ n \in Nat
        /\ step[r] = "counting"
    BY <1>2, <2>0, <1>n DEF Incr, fixed, TypeOK
  <2>. HIDE DEF k0, n
  <2>2. CASE n = 1 /\ Goto(r, "expiring") /\ UNCHANGED limiting
    <3>1. \A q \in Requests : win'[q] <= window'
      BY <2>1, <2>2 DEF Limited, CounterInv, limiting
    <3>2. \A q \in Requests : Key(q)' = Key(q)
      BY <2>1, <2>2 DEF Key, limiting
    <3>3. Key(r) = k0
      BY DEF k0
    <3>4. \A q \in Requests : q # r => step'[q] = step[q]
      BY <2>2 DEF Goto, TypeOK
    <3>5. ASSUME NEW k \in Keys, k[2] >= window
          PROVE  /\ passed[k] <= hits'[k]
                 /\ \A q \in Requests : step'[q] = "expiring" /\ Key(q) = k
                       => passed[k] < hits'[k] /\ passed[k] < Limit
                 /\ \A q, p \in Requests :
                       step'[q] = "expiring" /\ step'[p] = "expiring" /\ Key(q) = k /\ Key(p) = k
                          => q = p
      <4>1. CASE k # k0
        <5>1. hits'[k] = hits[k]
          BY <2>0, <2>1, <4>1 DEF TypeOK
        <5>. QED BY <3>3, <3>4, <3>5, <4>1, <5>1 DEF Limited, CounterInv
      <4>2. CASE k = k0
        <5>1. hits[k] = 0 /\ hits'[k] = 1
          BY <2>0, <2>1, <2>2, <4>2, <1>n DEF n
        <5>2. passed[k] = 0
          BY <3>5, <5>1, <1>n DEF Limited, CounterInv
        <5>3. \A q \in Requests : ~(step[q] = "expiring" /\ Key(q) = k)
          BY <3>5, <5>1, <5>2 DEF Limited, CounterInv
        <5>. QED BY <3>4, <5>1, <5>2, <5>3, ApiAssumption
      <4>. QED BY <4>1, <4>2
    <3>. QED BY <2>1, <2>2, <3>1, <3>2, <3>5 DEF Limited, CounterInv, WindowLimit, limiting
  <2>3. CASE n # 1 /\ Decide(r, n)
    <3>1. \A q \in Requests : step'[q] = "expiring" => step[q] = "expiring" /\ q # r
      BY <2>3 DEF Decide, Pass, Answer, Goto, TypeOK
    <3>2. \A q \in Requests : win'[q] <= window'
      BY <2>1, <2>3, <1>w DEF Decide, Pass, Forget, Limited, CounterInv, TypeOK
    <3>3. \A q \in Requests : q # r => Key(q)' = Key(q)
      BY <2>1, <2>3 DEF Decide, Pass, Forget, Key, TypeOK
    <3>4. CASE passed' = passed
      <4>1. \A k \in Keys : hits'[k] >= hits[k] /\ hits'[k] \in Nat
        BY <2>0, <2>1, <1>n DEF n, TypeOK
      <4>. QED BY <2>1, <3>1, <3>2, <3>3, <3>4, <4>1, <1>n DEF Limited, CounterInv, WindowLimit
    <3>5. CASE n <= Limit /\ win[r] = window /\ passed' = [passed EXCEPT ![k0] = @ + 1]
      <4>1. k0[2] >= window
        BY <3>5, <1>k, <1>w DEF k0
      <4>2. passed[k0] <= hits[k0] /\ passed'[k0] = passed[k0] + 1
        BY <2>0, <3>5, <4>1 DEF Limited, CounterInv, TypeOK
      <4>3. passed'[k0] <= hits'[k0] /\ passed'[k0] <= Limit
        BY <2>0, <2>1, <3>5, <4>2, <1>n, ApiAssumption DEF n
      <4>4. ASSUME NEW q \in Requests, step'[q] = "expiring", Key(q)' = k0
            PROVE  passed'[k0] < hits'[k0] /\ passed'[k0] < Limit
        <5>1. step[q] = "expiring" /\ Key(q) = k0
          BY <3>1, <3>3, <4>4
        <5>2. passed[k0] < hits[k0]
          BY <2>0, <4>1, <5>1 DEF Limited, CounterInv
        <5>. QED BY <2>0, <2>1, <3>5, <4>2, <5>2, <1>n, ApiAssumption DEF n
      <4>5. \A k \in Keys : k # k0 => hits'[k] = hits[k] /\ passed'[k] = passed[k]
        BY <2>0, <2>1, <3>5 DEF TypeOK
      <4>. QED BY <2>1, <3>1, <3>2, <3>3, <4>3, <4>4, <4>5 DEF Limited, CounterInv, WindowLimit
    <3>6. \/ passed' = passed
          \/ n <= Limit /\ win[r] = window /\ passed' = [passed EXCEPT ![k0] = @ + 1]
      <4>1. Key(r) = k0
        BY DEF k0
      <4>2. CASE Within(n)
        BY <2>3, <4>1, <4>2 DEF Decide, Within
      <4>3. CASE ~Within(n)
        BY <2>3, <4>3 DEF Decide
      <4>. QED BY <4>2, <4>3
    <3>. QED BY <3>4, <3>5, <3>6
  <2>4. hits'[Key(r)] = n
    BY <2>1 DEF k0
  <2>. QED BY <1>2, <2>2, <2>3, <2>4 DEF Incr
<1>3. CASE Expire(r)
  <2>. DEFINE k0 == Key(r)
  <2>0. k0 \in Keys
    BY <1>k
  <2>1. UNCHANGED <<kind, window, hits>> /\ step[r] = "expiring" /\ Decide(r, 1)
    BY <1>3 DEF Expire, fixed
  <2>2. \A q \in Requests : step'[q] = "expiring" => step[q] = "expiring" /\ q # r
    BY <2>1 DEF Decide, Pass, Answer, Goto, TypeOK
  <2>3. \A q \in Requests : win'[q] <= window'
    BY <2>1, <1>w DEF Decide, Pass, Forget, Limited, CounterInv, TypeOK
  <2>4. \A q \in Requests : q # r => Key(q)' = Key(q)
    BY <2>1 DEF Decide, Pass, Forget, Key, TypeOK
  <2>5. CASE passed' = passed
    BY <2>1, <2>2, <2>3, <2>4, <2>5 DEF Limited, CounterInv, WindowLimit
  <2>6. CASE win[r] = window /\ passed' = [passed EXCEPT ![k0] = @ + 1]
    <3>1. k0[2] >= window
      BY <2>6, <1>k, <1>w
    <3>2. passed[k0] < hits[k0] /\ passed[k0] < Limit
      BY <2>0, <2>1, <3>1 DEF Limited, CounterInv
    <3>3. passed'[k0] <= hits'[k0] /\ passed'[k0] <= Limit
      BY <2>0, <2>1, <2>6, <3>2, <1>n, ApiAssumption DEF TypeOK
    <3>4. \A q \in Requests : ~(step'[q] = "expiring" /\ Key(q)' = k0)
      BY <2>0, <2>1, <2>2, <2>4, <3>1 DEF Limited, CounterInv
    <3>5. \A k \in Keys : k # k0 => passed'[k] = passed[k]
      BY <2>0, <2>6 DEF TypeOK
    <3>. HIDE DEF k0
    <3>. QED BY <2>1, <2>2, <2>3, <2>4, <3>3, <3>4, <3>5 DEF Limited, CounterInv, WindowLimit
  <2>. QED BY <2>1, <2>5, <2>6 DEF Decide
<1>4. CASE Degraded(r)
  <2>1. UNCHANGED <<kind, window, hits, passed>> /\ win' = [win EXCEPT ![r] = 0]
    BY <1>4 DEF Degraded, Pass, Forget, fixed, redis
  <2>2. \A q \in Requests : step'[q] = "expiring" => step[q] = "expiring" /\ q # r
    BY <1>4 DEF Degraded, Pass, Answer, Goto, TypeOK
  <2>3. \A q \in Requests : win'[q] <= window'
    BY <2>1, <1>w DEF Limited, CounterInv, TypeOK
  <2>4. \A q \in Requests : q # r => Key(q)' = Key(q)
    BY <2>1 DEF Key, TypeOK
  <2>. QED BY <2>1, <2>2, <2>3, <2>4 DEF Limited, CounterInv, WindowLimit
<1>5. CASE \/ Acquire(r) \/ PoolTimeout(r) \/ DbFails(r) \/ FindTenant(r) \/ Provision(r)
           \/ Look(r) \/ Write(r) \/ Refuse(r) \/ Refresh(r) \/ Publish(r)
           \/ MarkFailed(r) \/ BuildTarget(r) \/ CallOut(r) \/ RecordOutcome(r)
  <2>1. UNCHANGED <<kind, window, hits, limiting>>
    BY <1>5 DEF Acquire, PoolTimeout, DbFails, FindTenant, Provision, Look, Read, Write, Refuse,
                Refresh, Publish, MarkFailed, BuildTarget, CallOut, RecordOutcome, fixed, redis
  <2>2. \/ step' = step
        \/ \E t \in Steps \ {"expiring"} : step' = [step EXCEPT ![r] = t]
    BY <1>5 DEF Acquire, PoolTimeout, DbFails, FindTenant, Provision, Look, Read, Write, Refuse,
                Refresh, Publish, MarkFailed, BuildTarget, CallOut, RecordOutcome, Answer, Goto,
                Steps, DbSteps
  <2>3. \A q \in Requests : step'[q] = "expiring" => step[q] = "expiring"
    BY <2>2 DEF TypeOK
  <2>. QED BY <2>1, <2>3, LimiterUntouched
<1>. QED BY <1>1, <1>2, <1>3, <1>4, <1>5 DEF Serve

LEMMA LimitedAround ==
    ASSUME TypeOK, Limited, Around
    PROVE  Limited'
<1>w. window \in Nat /\ \A q \in Requests : win[q] \in Nat
  BY ApiAssumption DEF TypeOK, Windows
<1>q. \A k \in Keys : k[2] \in Nat
  BY ApiAssumption DEF Keys, Windows
<1>1. ASSUME NEW k0 \in Keys, KeyExpires(k0) PROVE Limited'
  <2>1. UNCHANGED <<kind, window, limiting, step>> /\ k0[2] < window
    BY <1>1 DEF KeyExpires, fixed
  <2>2. \A k \in Keys : k[2] >= window => hits'[k] = hits[k]
    BY <1>1, <1>w, <1>q, <2>1 DEF KeyExpires, TypeOK
  <2>3. \A q \in Requests : Key(q)' = Key(q)
    BY <2>1 DEF Key, limiting
  <2>. QED BY <2>1, <2>2, <2>3 DEF Limited, CounterInv, WindowLimit, limiting
<1>2. CASE Tick
  <2>1. UNCHANGED <<kind, hits, limiting, step>> /\ window' = window + 1
    BY <1>2 DEF Tick, fixed
  <2>2. \A q \in Requests : Key(q)' = Key(q)
    BY <2>1 DEF Key, limiting
  <2>3. \A q \in Requests : win'[q] <= window'
    BY <1>w, <2>1 DEF Limited, CounterInv, limiting
  <2>4. \A k \in Keys : k[2] >= window' => k[2] >= window
    BY <1>w, <1>q, <2>1
  <2>. QED BY <2>1, <2>2, <2>3, <2>4 DEF Limited, CounterInv, WindowLimit, limiting
<1>. QED BY <1>1, <1>2 DEF Around

\* ratelimit.py: a window lets no more than Limit requests pass while it lasts,
\* however their INCR and EXPIRE interleave and whichever of them fail.
THEOREM WindowIsLimited == Spec => []WindowLimit
<1>1. Init => Limited
  <2>1. Init => \A k \in Keys : hits[k] = 0 /\ passed[k] = 0
    BY DEF Init
  <2>. QED BY <2>1, ApiAssumption DEF Init, Limited, CounterInv, WindowLimit
<1>2. TypeOK /\ Limited /\ [Next]_vars => Limited'
  <2>. SUFFICES ASSUME TypeOK, Limited, [Next]_vars PROVE Limited'
    OBVIOUS
  <2>1. CASE UNCHANGED vars
    BY <2>1 DEF vars, fixed, redis, limiting, Limited, CounterInv, WindowLimit, Key
  <2>. QED BY <2>1, LimitedStep, LimitedAround DEF Next, Around
<1>3. Limited => WindowLimit
  BY DEF Limited
<1>. QED BY <1>1, <1>2, <1>3, TypeCorrect, PTL DEF Spec

-----------------------------------------------------------------------------
(* The version's history.                                                  *)

LEMMA WriteKeepsVersion ==
    ASSUME NEW r \in Requests, Write(r), ver # NoOne, ver' # ver
    PROVE  ver' = NoOne /\ app' = NoOne
<1>1. kind[r] # "version"
  BY DEF Write, Conflict
<1>2. kind[r] = "delete" /\ app = target[r]
  BY <1>1, WriteEffect
<1>. QED BY <1>1, <1>2, WriteEffect

\* models/application.py, unique label: two requests that both found the label
\* free leave one version, and it goes only with its application.
THEOREM VersionIsKept == Spec => VersionIsNeverReplaced
<1>1. [Next]_vars => [ver # NoOne /\ ver' # ver => ver' = NoOne /\ app' = NoOne]_vars
  <2>. SUFFICES ASSUME [Next]_vars, ver # NoOne, ver' # ver
                PROVE  ver' = NoOne /\ app' = NoOne
    OBVIOUS
  <2>1. CASE \E r \in Requests : Write(r)
    BY <2>1, WriteKeepsVersion
  <2>2. ASSUME NEW r \in Requests,
               \/ Arrive(r) \/ Incr(r) \/ Expire(r) \/ Degraded(r) \/ Acquire(r)
               \/ PoolTimeout(r) \/ DbFails(r) \/ FindTenant(r) \/ Provision(r) \/ Look(r)
               \/ Refuse(r) \/ Refresh(r) \/ Publish(r) \/ MarkFailed(r) \/ BuildTarget(r)
               \/ CallOut(r) \/ RecordOutcome(r)
        PROVE  ver' = ver
    BY <2>2 DEF Arrive, Incr, Expire, Degraded, Acquire, PoolTimeout, DbFails, FindTenant,
                Provision, Look, Read, Refuse, Refresh, Publish, MarkFailed, BuildTarget, CallOut,
                RecordOutcome, rows
  <2>3. CASE Tick \/ \E k \in Keys : KeyExpires(k)
    BY <2>3 DEF Tick, KeyExpires, rows
  <2>4. CASE UNCHANGED vars
    BY <2>4 DEF vars, rows
  <2>. QED BY <2>1, <2>2, <2>3, <2>4 DEF Next, Serve
<1>. QED BY <1>1, PTL DEF Spec, VersionIsNeverReplaced

-----------------------------------------------------------------------------
(* The handlers: what is committed, and what the client is told.           *)

\* Where one request is and what it has done by then.
Local(r) ==
    /\ answer[r] # 0 => step[r] = "answered"
    /\ wrote[r] => step[r] \in {"refresh", "publish", "mark", "answered"}
    /\ step[r] \in {"refresh", "publish", "mark"} => wrote[r]
    /\ step[r] \in {"target", "calling", "outcome"} => kind[r] = "test"
    /\ step[r] \in {"publish", "mark"} => kind[r] = "submit"
    /\ step[r] = "publish" \/ (step[r] = "refresh" /\ kind[r] = "submit") => run[r] = "pending"
    /\ step[r] = "mark" => run[r] # "none"
    /\ run[r] # "none" => wrote[r] /\ kind[r] = "submit"
    /\ step[r] = "write" /\ kind[r] \in {"delete", "submit"} => target[r] # NoOne
    /\ wrote[r] /\ kind[r] \in {"delete", "submit"} => target[r] # NoOne

\* What its answer says of its own row.
Told(r) ==
    /\ answer[r] \in {201, 202, 204} => wrote[r]
    /\ answer[r] = 200 /\ kind[r] = "update" => wrote[r]
    /\ answer[r] = 202 => r \in queued /\ run[r] = "pending"
    /\ answer[r] = 204 => kind[r] = "delete"
    /\ answer[r] \in {404, 409, 422, 429} => ~wrote[r]

\* A row is made by the request that wrote it, once: its identity does not
\* come back after a deletion.
RowsOnce ==
    /\ app \in Requests => wrote[app]
    /\ \A r \in Requests : target[r] \in Requests => wrote[target[r]]

\* A deleted application is not the present one.
Deleted == \A r \in Requests : wrote[r] /\ kind[r] = "delete" => app # target[r]

HandlerInv ==
    /\ \A r \in Requests : Local(r) /\ Told(r)
    /\ RowsOnce
    /\ Deleted
    /\ RunsKeepTheirApplication

\* A step of one request leaves the others where they are.
LEMMA Others ==
    ASSUME TypeOK, NEW r \in Requests,
           Arrive(r) \/ Serve(r) \/ DbFails(r) \/ Degraded(r),
           NEW q \in Requests, q # r
    PROVE  /\ step'[q] = step[q] /\ answer'[q] = answer[q]
           /\ wrote'[q] = wrote[q] /\ run'[q] = run[q] /\ target'[q] = target[q]
           /\ kind' = kind /\ oldRun' = oldRun
           /\ q \in queued' <=> q \in queued
<1>1. step'[q] = step[q] /\ answer'[q] = answer[q]
  BY DEF Serve, Arrive, Degraded, Incr, Expire, Decide, Pass, Acquire, PoolTimeout, DbFails,
         FindTenant, Provision, Look, Read, Write, Refuse, Refresh, Publish, MarkFailed, BuildTarget,
         CallOut, RecordOutcome, Answer, Goto, TypeOK
<1>2. wrote'[q] = wrote[q] /\ run'[q] = run[q] /\ target'[q] = target[q]
  <2>1. CASE Write(r)
    <3>1. run'[q] = run[q]
      BY <2>1, WriteEffect DEF TypeOK
    <3>. QED BY <2>1, <3>1 DEF Write, TypeOK
  <2>2. CASE ~Write(r)
    BY <2>2 DEF Serve, Arrive, Degraded, Incr, Expire, Acquire, PoolTimeout, DbFails,
         FindTenant, Provision, Look, Read, Refuse, Refresh, Publish, MarkFailed, BuildTarget,
         CallOut, RecordOutcome, rows, TypeOK
  <2>. QED BY <2>1, <2>2
<1>3. kind' = kind /\ oldRun' = oldRun
  BY DEF Serve, Arrive, Degraded, Incr, Expire, Acquire, PoolTimeout, DbFails,
         FindTenant, Provision, Look, Read, Write, Refuse, Refresh, Publish, MarkFailed, BuildTarget,
         CallOut, RecordOutcome, fixed
<1>4. q \in queued' <=> q \in queued
  BY DEF Serve, Arrive, Degraded, Incr, Expire, Acquire, PoolTimeout, DbFails,
         FindTenant, Provision, Look, Read, Write, Refuse, Refresh, Publish, MarkFailed, BuildTarget,
         CallOut, RecordOutcome
<1>. QED BY <1>1, <1>2, <1>3, <1>4

\* A step that commits nothing and reads no target.
LEMMA Quiet ==
    ASSUME TypeOK, HandlerInv, NEW r \in Requests,
           Arrive(r) \/ Serve(r) \/ DbFails(r) \/ Degraded(r),
           UNCHANGED <<app, wrote, target, kind, oldRun>>,
           Local(r)', Told(r)',
           run'[r] # "none" => run[r] # "none"
    PROVE  HandlerInv'
<1>1. \A q \in Requests : Local(q)' /\ Told(q)'
  <2>1. SUFFICES ASSUME NEW q \in Requests, q # r PROVE Local(q)' /\ Told(q)'
    OBVIOUS
  <2>2. Local(q)'
    BY <2>1, Others DEF HandlerInv, Local
  <2>3. Told(q)'
    BY <2>1, Others DEF HandlerInv, Told
  <2>. QED BY <2>2, <2>3
<1>2. RowsOnce' /\ Deleted'
  BY DEF HandlerInv, RowsOnce, Deleted
<1>3. RunsKeepTheirApplication'
  <2>1. \A q \in Requests : run'[q] # "none" => run[q] # "none"
    BY Others
  <2>. QED BY <2>1 DEF HandlerInv, RunsKeepTheirApplication
<1>. QED BY <1>1, <1>2, <1>3 DEF HandlerInv

\* A request on its way that moves on without an answer, or gets one, and
\* whose row, target and run stay as they are.
LEMMA Moves ==
    ASSUME TypeOK, HandlerInv, NEW r \in Requests,
           step[r] # "answered", UNCHANGED <<wrote, target, kind, run, answer>>,
           NEW s \in Steps, Goto(r, s),
           s \notin {"answered", "publish", "mark", "refresh", "write", "target", "calling",
                    "outcome"},
           ~wrote[r]
    PROVE  Local(r)' /\ Told(r)'
<1>1. step'[r] = s /\ answer'[r] = 0
  BY DEF HandlerInv, Local, Goto, TypeOK
<1>2. answer[r] \in {0, 200, 201, 202, 204, 404, 409, 422, 429, 500, 503} /\ answer[r] = 0
  BY DEF TypeOK, HandlerInv, Local
<1>3. Local(r)'
  BY <1>1, <1>2 DEF HandlerInv, Local
<1>4. Told(r)'
  BY <1>1 DEF Told
<1>. QED BY <1>3, <1>4

LEMMA Answers ==
    ASSUME TypeOK, HandlerInv, NEW r \in Requests,
           UNCHANGED <<wrote, target, kind, run>>,
           NEW code \in {200, 201, 202, 204, 404, 409, 422, 429, 500, 503},
           Answer(r, code),
           code \in {201, 202, 204} => wrote[r],
           code = 200 /\ kind[r] = "update" => wrote[r],
           code = 202 => r \in queued' /\ run[r] = "pending",
           code = 204 => kind[r] = "delete",
           code \in {404, 409, 422, 429} => ~wrote[r]
    PROVE  Local(r)' /\ Told(r)'
<1>1. step'[r] = "answered" /\ answer'[r] = code
  BY DEF Answer, Goto, TypeOK
<1>2. Local(r)'
  BY <1>1 DEF HandlerInv, Local
<1>3. Told(r)'
  BY <1>1 DEF Told
<1>. QED BY <1>2, <1>3

LEMMA LimiterHandled ==
    ASSUME TypeOK, HandlerInv, NEW r \in Requests,
           Arrive(r) \/ Incr(r) \/ Expire(r) \/ Degraded(r)
    PROVE  HandlerInv'
<1>1. UNCHANGED <<app, wrote, target, kind, oldRun, run>>
  BY DEF Arrive, Incr, Expire, Degraded, fixed, rows
<1>2. step[r] \in {"new", "counting", "expiring"}
  BY DEF Arrive, Incr, Expire, Degraded
<1>3. ~wrote[r]
  BY <1>2 DEF HandlerInv, Local
<1>4. \/ \E s \in {"counting", "expiring", "tenant"} : Goto(r, s) /\ UNCHANGED answer
      \/ Answer(r, 429) \/ Answer(r, 503)
  BY DEF Arrive, Incr, Expire, Degraded, Decide, Pass, limiting
<1>5. Local(r)' /\ Told(r)'
  <2>1. CASE \E s \in {"counting", "expiring", "tenant"} : Goto(r, s) /\ UNCHANGED answer
    BY <1>1, <1>2, <1>3, <2>1, Moves DEF Steps, DbSteps
  <2>2. CASE Answer(r, 429)
    BY <1>1, <1>3, <2>2, Answers
  <2>3. CASE Answer(r, 503)
    BY <1>1, <1>3, <2>3, Answers
  <2>. QED BY <1>4, <2>1, <2>2, <2>3
<1>. QED BY <1>1, <1>5, Quiet DEF Serve

LEMMA SessionHandled ==
    ASSUME TypeOK, HandlerInv, NEW r \in Requests,
           \/ Acquire(r) \/ PoolTimeout(r) \/ DbFails(r) \/ FindTenant(r) \/ Provision(r)
    PROVE  HandlerInv'
<1>1. UNCHANGED <<app, wrote, target, kind, oldRun, run>>
  BY DEF Acquire, PoolTimeout, DbFails, FindTenant, Provision, fixed, rows
<1>2. Local(r)' /\ Told(r)'
  <2>1. CASE Acquire(r)
    BY <1>1, <2>1 DEF Acquire, HandlerInv, Local, Told
  <2>2. CASE PoolTimeout(r) \/ DbFails(r)
    <3>1. Answer(r, 503)
      BY <2>2 DEF PoolTimeout, DbFails
    <3>. QED BY <1>1, <3>1, Answers
  <2>3. CASE FindTenant(r) \/ Provision(r)
    <3>1. step[r] \in {"tenant", "provision"}
      BY <2>3 DEF FindTenant, Provision, At
    <3>2. ~wrote[r]
      BY <3>1 DEF HandlerInv, Local
    <3>3. \/ \E s \in {"look", "provision", "tenant"} : Goto(r, s) /\ UNCHANGED answer
          \/ Answer(r, 409)
      BY <2>3 DEF FindTenant, Provision
    <3>4. CASE \E s \in {"look", "provision", "tenant"} : Goto(r, s) /\ UNCHANGED answer
      BY <1>1, <3>1, <3>2, <3>4, Moves DEF Steps, DbSteps
    <3>5. CASE Answer(r, 409)
      BY <1>1, <3>2, <3>5, Answers
    <3>. QED BY <3>3, <3>4, <3>5
  <2>. QED BY <2>1, <2>2, <2>3
<1>. QED BY <1>1, <1>2, Quiet DEF Serve

LEMMA OutcomeHandled ==
    ASSUME TypeOK, HandlerInv, NEW r \in Requests,
           \/ Refuse(r) \/ Refresh(r) \/ Publish(r) \/ BuildTarget(r) \/ CallOut(r)
           \/ RecordOutcome(r)
    PROVE  HandlerInv'
<1>1. UNCHANGED <<app, wrote, target, kind, oldRun, run>>
  BY DEF Refuse, Refresh, Publish, BuildTarget, CallOut, RecordOutcome, fixed, rows
<1>2. Local(r)' /\ Told(r)'
  <2>1. CASE Refuse(r)
    <3>1. ~wrote[r] /\ (Answer(r, 409) \/ Answer(r, 500))
      BY <2>1 DEF Refuse, At, HandlerInv, Local
    <3>. QED BY <1>1, <3>1, Answers
  <2>2. CASE Refresh(r)
    <3>1. step[r] = "refresh" /\ wrote[r]
      BY <2>2 DEF Refresh, At, HandlerInv, Local
    <3>2. CASE kind[r] = "submit" /\ Goto(r, "publish") /\ UNCHANGED answer
      <4>1. step'[r] = "publish" /\ answer'[r] = 0
        BY <3>1, <3>2 DEF Goto, TypeOK, HandlerInv, Local
      <4>2. Local(r)'
        BY <1>1, <3>1, <3>2, <4>1 DEF HandlerInv, Local
      <4>. QED BY <4>1, <4>2 DEF Told
    <3>3. CASE Answer(r, 500) \/ Answer(r, 201) \/ Answer(r, 200)
      BY <1>1, <3>1, <3>3, Answers
    <3>4. CASE kind[r] = "delete" /\ Answer(r, 204)
      BY <1>1, <3>1, <3>4, Answers
    <3>. QED BY <2>2, <3>2, <3>3, <3>4 DEF Refresh
  <2>3. CASE Publish(r)
    <3>1. step[r] = "publish" /\ wrote[r] /\ kind[r] = "submit" /\ run[r] = "pending"
      BY <2>3 DEF Publish, HandlerInv, Local
    <3>2. CASE queued' = queued \cup {r} /\ Answer(r, 202)
      BY <1>1, <3>1, <3>2, Answers
    <3>3. CASE Goto(r, "mark") /\ UNCHANGED answer
      <4>1. step'[r] = "mark" /\ answer'[r] = 0
        BY <3>1, <3>3 DEF Goto, TypeOK, HandlerInv, Local
      <4>2. Local(r)'
        BY <1>1, <3>1, <3>3, <4>1 DEF HandlerInv, Local
      <4>. QED BY <4>1, <4>2 DEF Told
    <3>. QED BY <2>3, <3>2, <3>3 DEF Publish
  <2>4. CASE BuildTarget(r)
    <3>1. step[r] = "target" /\ ~wrote[r] /\ kind[r] = "test"
      BY <2>4 DEF BuildTarget, At, HandlerInv, Local
    <3>2. CASE Answer(r, 404) \/ Answer(r, 409)
      BY <1>1, <3>1, <3>2, Answers
    <3>3. CASE Goto(r, "calling") /\ UNCHANGED answer
      <4>1. step'[r] = "calling" /\ answer'[r] = 0
        BY <3>1, <3>3 DEF Goto, TypeOK, HandlerInv, Local
      <4>2. Local(r)'
        BY <1>1, <3>1, <3>3, <4>1 DEF HandlerInv, Local
      <4>. QED BY <4>1, <4>2 DEF Told
    <3>. QED BY <2>4, <3>2, <3>3 DEF BuildTarget
  <2>5. CASE CallOut(r)
    <3>1. step[r] = "calling" /\ ~wrote[r] /\ kind[r] = "test"
      BY <2>5 DEF CallOut, HandlerInv, Local
    <3>2. CASE Answer(r, 200) \/ Answer(r, 500)
      BY <1>1, <3>1, <3>2, Answers
    <3>3. CASE Goto(r, "outcome") /\ UNCHANGED answer
      <4>1. step'[r] = "outcome" /\ answer'[r] = 0
        BY <3>1, <3>3 DEF Goto, TypeOK, HandlerInv, Local
      <4>2. Local(r)'
        BY <1>1, <3>1, <3>3, <4>1 DEF HandlerInv, Local
      <4>. QED BY <4>1, <4>2 DEF Told
    <3>. QED BY <2>5, <3>2, <3>3 DEF CallOut
  <2>6. CASE RecordOutcome(r)
    <3>1. kind[r] = "test" /\ Answer(r, 200)
      BY <2>6 DEF RecordOutcome, At, HandlerInv, Local
    <3>. QED BY <1>1, <3>1, Answers
  <2>. QED BY <2>1, <2>2, <2>3, <2>4, <2>5, <2>6
<1>. QED BY <1>1, <1>2, Quiet DEF Serve

LEMMA MarkHandled ==
    ASSUME TypeOK, HandlerInv, NEW r \in Requests, MarkFailed(r)
    PROVE  HandlerInv'
<1>1. UNCHANGED <<app, wrote, target, kind, oldRun>>
  BY DEF MarkFailed, fixed
<1>2. step[r] = "mark" /\ wrote[r] /\ kind[r] = "submit"
  BY DEF MarkFailed, At, HandlerInv, Local
<1>3. step'[r] = "answered" /\ answer'[r] = 503 /\ run'[r] = "failed"
  BY DEF MarkFailed, Answer, Goto, TypeOK
<1>4. Local(r)' /\ Told(r)'
  BY <1>1, <1>2, <1>3 DEF HandlerInv, Local, Told
<1>5. run[r] # "none"
  BY <1>2 DEF HandlerInv, Local
<1>. QED BY <1>1, <1>4, <1>5, Quiet DEF Serve

\* The handler reads the row it goes on with: it has not written yet, and no
\* run of its own refers to anything.
LEMMA LookHandled ==
    ASSUME TypeOK, HandlerInv, NEW r \in Requests, Look(r)
    PROVE  HandlerInv'
<1>1. UNCHANGED <<app, ver, run, wrote, kind, oldRun, queued>> /\ step[r] = "look"
  BY DEF Look, Read, At, fixed, rows
<1>2. ~wrote[r] /\ run[r] = "none" /\ answer[r] = 0
  BY <1>1 DEF HandlerInv, Local
<1>3. target'[r] \in {target[r], app}
  BY DEF Look, Read, TypeOK
<1>4. Local(r)' /\ Told(r)'
  <2>1. CASE \E code \in {200, 404, 409, 422, 429} :
                Answer(r, code) /\ (code = 200 => kind[r] = "read")
    <3>1. step'[r] = "answered" /\ answer'[r] \in {200, 404, 409, 422, 429}
           /\ (answer'[r] = 200 => kind[r] = "read")
      BY <2>1 DEF Answer, Goto, TypeOK
    <3>2. Local(r)'
      BY <1>1, <1>2, <3>1 DEF Local
    <3>. QED BY <1>1, <1>2, <3>1, <3>2 DEF Told
  <2>2. CASE /\ kind[r] = "test" /\ UNCHANGED answer
             /\ Goto(r, IF reference THEN "calling" ELSE "target")
    <3>1. step'[r] \in {"target", "calling"} /\ answer'[r] = 0
      BY <1>2, <2>2 DEF Goto, TypeOK
    <3>2. Local(r)'
      BY <1>1, <1>2, <2>2, <3>1 DEF Local
    <3>. QED BY <3>1, <3>2 DEF Told
  <2>3. CASE ~Missing(r) /\ Goto(r, "write") /\ UNCHANGED answer
    <3>1. step'[r] = "write" /\ answer'[r] = 0
      BY <1>2, <2>3 DEF Goto, TypeOK
    <3>2. kind[r] \in {"delete", "submit"} => target'[r] # NoOne
      BY <2>3 DEF Look, Read, Missing, NoApplication, NoDataset, NoVersion, TypeOK
    <3>3. Local(r)'
      BY <1>1, <1>2, <3>1, <3>2 DEF Local
    <3>. QED BY <3>1, <3>3 DEF Told
  <2>. QED BY <2>1, <2>2, <2>3 DEF Look, Read
<1>5. \A q \in Requests : Local(q)' /\ Told(q)'
  <2>1. SUFFICES ASSUME NEW q \in Requests, q # r PROVE Local(q)' /\ Told(q)'
    BY <1>4
  <2>2. Local(q)' /\ Told(q)'
    BY <2>1, Others DEF Serve, HandlerInv, Local, Told
  <2>. QED BY <2>2
<1>6. RowsOnce'
  <2>1. \A q \in Requests : target'[q] \in {target[q], app}
    BY <1>3, Others DEF Serve
  <2>. QED BY <1>1, <2>1 DEF HandlerInv, RowsOnce
<1>7. Deleted'
  BY <1>1, <1>2, Others DEF Serve, HandlerInv, Deleted
<1>8. RunsKeepTheirApplication'
  BY <1>1, <1>2, Others DEF Serve, HandlerInv, RunsKeepTheirApplication
<1>. QED BY <1>5, <1>6, <1>7, <1>8 DEF HandlerInv

LEMMA WriteHandled ==
    ASSUME TypeOK, HandlerInv, NEW r \in Requests, Write(r)
    PROVE  HandlerInv'
<1>1. UNCHANGED <<kind, oldRun, target, queued>> /\ step[r] = "write" /\ ~Conflict(r)
  BY DEF Write, At, fixed
<1>2. ~wrote[r] /\ run[r] = "none" /\ answer[r] = 0
  BY <1>1 DEF HandlerInv, Local
<1>3. wrote'[r] = TRUE /\ \A q \in Requests : wrote[q] => wrote'[q]
  BY DEF Write, TypeOK
<1>4. run'[r] = IF kind[r] = "submit" THEN "pending" ELSE "none"
  BY <1>2, WriteEffect DEF TypeOK
<1>5. kind[r] \in {"delete", "submit"} => target[r] # NoOne
  BY <1>1 DEF HandlerInv, Local
<1>6. Local(r)' /\ Told(r)'
  <2>1. CASE kind[r] = "delete" /\ Answer(r, 204)
    <3>1. step'[r] = "answered" /\ answer'[r] = 204
      BY <2>1 DEF Answer, Goto, TypeOK
    <3>2. Local(r)'
      BY <1>1, <1>3, <1>4, <1>5, <2>1, <3>1 DEF Local
    <3>. QED BY <1>1, <1>3, <2>1, <3>1, <3>2 DEF Told
  <2>2. CASE Goto(r, "refresh") /\ UNCHANGED answer
    <3>1. step'[r] = "refresh" /\ answer'[r] = 0
      BY <1>2, <2>2 DEF Goto, TypeOK
    <3>2. Local(r)'
      BY <1>1, <1>3, <1>4, <1>5, <3>1 DEF Local
    <3>. QED BY <3>1, <3>2 DEF Told
  <2>. QED BY <2>1, <2>2 DEF Write
<1>7. \A q \in Requests : Local(q)' /\ Told(q)'
  <2>1. SUFFICES ASSUME NEW q \in Requests, q # r PROVE Local(q)' /\ Told(q)'
    BY <1>6
  <2>2. Local(q)' /\ Told(q)'
    BY <2>1, Others DEF Serve, HandlerInv, Local, Told
  <2>. QED BY <2>2
<1>8. app' = IF kind[r] = "create" THEN r
             ELSE IF kind[r] = "delete" /\ app = target[r] THEN NoOne ELSE app
  BY WriteEffect
<1>9. NoOne \notin Requests /\ Old \notin Requests /\ Old # NoOne
  BY ApiAssumption
<1>10. RowsOnce'
  BY <1>1, <1>3, <1>8, <1>9 DEF HandlerInv, RowsOnce
<1>11. Deleted'
  <2>1. SUFFICES ASSUME NEW q \in Requests, wrote'[q], kind[q] = "delete"
                 PROVE  app' # target[q]
    BY <1>1 DEF Deleted
  <2>2. CASE q = r
    BY <1>5, <1>8, <2>1, <2>2
  <2>3. CASE q # r
    <3>1. wrote[q] /\ app # target[q] /\ target[q] # NoOne
      BY <2>1, <2>3, Others DEF Serve, HandlerInv, Deleted, Local
    <3>2. target[q] # r
      BY <1>2 DEF HandlerInv, RowsOnce
    <3>. QED BY <1>8, <3>1, <3>2
  <2>. QED BY <2>2, <2>3
<1>12. RunsKeepTheirApplication'
  <2>1. CASE kind[r] = "create"
    <3>1. app = NoOne
      BY <1>1, <2>1 DEF Conflict
    <3>2. ~oldRun
      BY <1>9, <3>1 DEF HandlerInv, RunsKeepTheirApplication
    <3>3. \A q \in Requests : run[q] = "none"
      BY <3>1 DEF HandlerInv, RunsKeepTheirApplication, Local
    <3>4. \A q \in Requests : run'[q] = "none"
      BY <1>4, <2>1, <3>3, Others DEF Serve
    <3>. QED BY <1>1, <3>2, <3>4 DEF RunsKeepTheirApplication
  <2>2. CASE kind[r] = "delete" /\ app = target[r]
    <3>1. ~Referenced(target[r])
      BY <1>1, <2>2 DEF Conflict
    <3>2. ~oldRun /\ \A q \in Requests : run[q] = "none"
      BY <2>2, <3>1 DEF Referenced, HandlerInv, RunsKeepTheirApplication
    <3>3. \A q \in Requests : run'[q] = "none"
      BY <1>4, <2>2, <3>2, Others DEF Serve
    <3>. QED BY <1>1, <3>2, <3>3 DEF RunsKeepTheirApplication
  <2>3. CASE app' = app /\ (kind[r] = "submit" => app = target[r])
    <3>1. \A q \in Requests : run'[q] # "none" => run[q] # "none" \/ (q = r /\ kind[r] = "submit")
      BY <1>4, Others DEF Serve
    <3>. QED BY <1>1, <2>3, <3>1 DEF HandlerInv, RunsKeepTheirApplication
  <2>4. kind[r] = "submit" => app = target[r]
    BY <1>1 DEF Conflict
  <2>. QED BY <1>8, <2>1, <2>2, <2>3, <2>4
<1>. QED BY <1>7, <1>10, <1>11, <1>12 DEF HandlerInv

LEMMA HandlerInvariant == Spec => []HandlerInv
<1>1. Init => HandlerInv
  <2>. SUFFICES ASSUME Init PROVE HandlerInv
    OBVIOUS
  <2>1. \A r \in Requests : Local(r) /\ Told(r)
    BY DEF Init, Local, Told
  <2>2. RowsOnce /\ Deleted /\ RunsKeepTheirApplication
    BY ApiAssumption DEF Init, RowsOnce, Deleted, RunsKeepTheirApplication
  <2>. QED BY <2>1, <2>2 DEF HandlerInv
<1>2. TypeOK /\ HandlerInv /\ [Next]_vars => HandlerInv'
  <2>. SUFFICES ASSUME TypeOK, HandlerInv, [Next]_vars PROVE HandlerInv'
    OBVIOUS
  <2>1. ASSUME NEW r \in Requests, Arrive(r) \/ Serve(r) \/ DbFails(r) \/ Degraded(r)
        PROVE  HandlerInv'
    BY <2>1, LimiterHandled, SessionHandled, OutcomeHandled, MarkHandled, LookHandled,
       WriteHandled DEF Serve
  <2>2. CASE UNCHANGED vars \/ Tick \/ \E k \in Keys : KeyExpires(k)
    <3>1. UNCHANGED <<app, wrote, target, kind, oldRun, run, step, answer, queued>>
      BY <2>2 DEF vars, Tick, KeyExpires, fixed, rows
    <3>. QED BY <3>1 DEF HandlerInv, Local, Told, RowsOnce, Deleted, RunsKeepTheirApplication
  <2>. QED BY <2>1, <2>2 DEF Next
<1>. QED BY <1>1, <1>2, TypeCorrect, PTL DEF Spec

\* models/evaluation.py, ondelete RESTRICT: a run keeps the application it was
\* submitted for, however submissions, deletions and re-creations interleave.
THEOREM RunsKeepIt == Spec => []RunsKeepTheirApplication
BY HandlerInvariant, PTL DEF HandlerInv

\* api/routers: what the client is told is what was committed and queued, and
\* it stays true of its own row.
THEOREM AnswersAreTrue == Spec => []AnswerTellsTheTruth
<1>1. HandlerInv => AnswerTellsTheTruth
  <2>. SUFFICES ASSUME HandlerInv, NEW r \in Requests
                PROVE  /\ Told(r)
                       /\ answer[r] = 204 => app # target[r]
    BY DEF AnswerTellsTheTruth, Told
  <2>. QED BY DEF HandlerInv, Told, Deleted
<1>. QED BY <1>1, HandlerInvariant, PTL

=============================================================================
