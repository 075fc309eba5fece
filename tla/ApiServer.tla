------------------------------ MODULE ApiServer ------------------------------
(***************************************************************************)
(* The HTTP API as one process serving concurrent requests: the fixed      *)
(* window rate limiter, the bounded pool of database connections, the      *)
(* workspace created on first use, and the handlers over the registries    *)
(* and the runs (api/, db/repositories, db/tenancy.py).                    *)
(*                                                                         *)
(* A handler awaits every statement, so requests interleave at each one.   *)
(* A session takes a connection from the pool with its first statement and *)
(* gives it back with the commit or when it is closed; a submission reads  *)
(* its tenant in one session and works in a second one, holding both.      *)
(* Uniqueness and references are enforced by PostgreSQL when a row is      *)
(* written, whatever the handler read before.                              *)
(*                                                                         *)
(* There is one application name, one version label and one dataset        *)
(* version, so that requests collide; an application of another name is    *)
(* only what a rename collides with.  Applications are either all reached  *)
(* through the connection a version holds ("http") or all reference ones   *)
(* ("mlgpt"), which the server knows how to reach.  The quota checks under the          *)
(* organization lock are module QuotaAdmission, a run's life is EvalRun,   *)
(* the call a connection test makes is OutboundCalls, and the comparison   *)
(* endpoints are Regression.                                               *)
(***************************************************************************)
EXTENDS Naturals, FiniteSets

CONSTANTS
    Requests,      \* HTTP requests of one client, each sent once
    Mixes,         \* what they may ask for together
    Old,           \* rows that exist before the first request
    NoOne,         \* no row
    Limit,         \* requests of one bucket in one window
    PoolSize,      \* db_pool_size + db_max_overflow
    MaxCases,      \* max_cases_per_evaluation
    Policies,      \* rate_limit_on_redis_error: what deployments choose
    AuditEnabled,  \* settings.audit_enabled
    MaxWindow      \* bound: the clock stops in this window

\* read: a GET.  create: an application or dataset.  update: PATCH of an
\* application or its credential.  version: of an application or dataset.
\* case: appended to a dataset version.  submit: an evaluation.  test: of an
\* application's connection.
Kinds == {"read", "create", "update", "delete", "version", "case", "submit", "test"}

ASSUME ApiAssumption ==
    /\ IsFiniteSet(Requests)
    /\ Mixes \subseteq [Requests -> Kinds]
    /\ Old \notin Requests /\ NoOne \notin Requests /\ Old # NoOne
    /\ Limit \in Nat \ {0}
    /\ PoolSize \in Nat \ {0}
    /\ MaxCases \in Nat
    /\ Policies \subseteq {"allow", "deny"}
    /\ AuditEnabled \in BOOLEAN
    /\ MaxWindow \in Nat

VARIABLES
    window,    \* the current window of the clock
    hits,      \* Redis: the counter of each key
    ttl,       \* Redis: the keys that will expire
    org,       \* the workspace row exists
    app,       \* the application of the one name: the request that made it
    ver,       \* the version of the one label of that application
    dataset,   \* the dataset version exists
    cases,     \* its test cases
    oldRun,    \* an earlier run refers to the old application
    reference, \* connection_type: reference applications
    run,       \* the run of a submission: "none", "pending" or "failed"
    queued,    \* the broker has the task of a submission
    held,      \* connections taken: the sessions that hold one
    step,      \* where each request is
    kind,      \* what each request asks for
    win,       \* the window a request is counted in, while it is
    passed,    \* history: requests a key let pass during its window
    target,    \* the application row its handler read and goes on with
    wrote,     \* history: its row was committed
    answer     \* its HTTP status

redis    == <<window, hits, ttl>>
fixed    == <<dataset, oldRun, reference, kind>>
rows     == <<app, ver, cases, run>>
limiting == <<win, passed>>
vars == <<fixed, redis, org, rows, queued, held, step, limiting, target, wrote, answer>>

Windows == 0..MaxWindow
Rows    == Requests \cup {Old, NoOne}

\* _bucket_for: a key of the limiter is a bucket and a window.
Bucket(k) == IF k = "submit" THEN "eval" ELSE IF k = "test" THEN "test" ELSE "default"
Keys == {"eval", "test", "default"} \X Windows
Key(r) == <<Bucket(kind[r]), win[r]>>

\* Steps in which a request works in the database, and all of them.
DbSteps == {"tenant", "provision", "look", "write", "refresh", "target", "outcome", "mark"}
Steps   == DbSteps \cup {"new", "counting", "expiring", "publish", "calling", "answered"}

Init ==
    /\ window = 0
    /\ hits = [k \in Keys |-> 0] /\ ttl = {}
    /\ org \in BOOLEAN
    /\ app \in {NoOne, Old} /\ ver \in {NoOne, Old}
    /\ dataset \in BOOLEAN /\ cases \in 0..MaxCases /\ oldRun \in BOOLEAN
    /\ (app = Old \/ dataset) => org
    /\ (ver = Old \/ oldRun) => app = Old
    /\ ~dataset => cases = 0
    /\ oldRun => dataset
    /\ run = [r \in Requests |-> "none"] /\ queued = {}
    /\ held = {}
    /\ step = [r \in Requests |-> "new"]
    /\ kind \in Mixes
    \* What tells the two types apart; to other requests they are the same.
    /\ reference \in {FALSE, \E r \in Requests : kind[r] \in {"submit", "test"}}
    /\ win = [r \in Requests |-> 0]
    /\ passed = [k \in Keys |-> 0]
    /\ target = [r \in Requests |-> NoOne]
    /\ wrote = [r \in Requests |-> FALSE]
    /\ answer = [r \in Requests |-> 0]

-----------------------------------------------------------------------------
(* Sessions.                                                               *)

\* The session of the request's dependency, and the one of the service.
Sessions == {"handler", "service"}
Session(r) ==
    IF step[r] = "mark" \/ (kind[r] = "submit" /\ step[r] \in {"look", "write", "refresh"})
    THEN "service" ELSE "handler"

Connected(r) == <<r, Session(r)>> \in held
Closed(r)    == held \ ({r} \X Sessions)

Goto(r, s) == step' = [step EXCEPT ![r] = s]

\* The response; the request's sessions are closed with it.
Answer(r, code) ==
    /\ Goto(r, "answered")
    /\ answer' = [answer EXCEPT ![r] = code]
    /\ held' = Closed(r)

At(r, s) == step[r] = s /\ Connected(r)

\* The first statement of a transaction takes a connection.
Acquire(r) ==
    /\ step[r] \in DbSteps /\ ~Connected(r)
    /\ Cardinality(held) < PoolSize
    /\ held' = held \cup {<<r, Session(r)>>}
    /\ UNCHANGED <<fixed, redis, org, rows, queued, step, limiting, target, wrote, answer>>

WaitForever(r) ==
    /\ FALSE
    /\ UNCHANGED vars

\* db_pool_timeout_seconds: nothing became free.  Where a run is to be marked
\* failed the error is swallowed, and the submission fails just the same.
PoolTimeout(r) ==
    /\ step[r] \in DbSteps /\ ~Connected(r)
    /\ Cardinality(held) >= PoolSize
    /\ Answer(r, 503)
    /\ UNCHANGED <<fixed, redis, org, rows, queued, limiting, target, wrote>>

\* PostgreSQL is gone: the transaction is rolled back.
DbFails(r) ==
    /\ step[r] \in DbSteps /\ Connected(r)
    /\ Answer(r, 503)
    /\ UNCHANGED <<fixed, redis, org, rows, queued, limiting, target, wrote>>

-----------------------------------------------------------------------------
(* RateLimitMiddleware.                                                    *)

Forget(r) == win' = [win EXCEPT ![r] = 0]

Pass(r) == Goto(r, "tenant") /\ Forget(r) /\ UNCHANGED <<held, answer>>

\* The key is fixed before Redis is asked.
Arrive(r) ==
    /\ step[r] = "new"
    /\ win' = [win EXCEPT ![r] = window]
    /\ Goto(r, "counting")
    /\ UNCHANGED <<fixed, redis, org, rows, queued, held, passed, target, wrote, answer>>

WithinOffByOne(count) == count <= Limit + 1

Within(count) == count <= Limit

\* check_and_increment after INCR and, on a new key, EXPIRE.
Decide(r, count) ==
    IF Within(count)
    THEN /\ Pass(r)
         /\ passed' = IF win[r] = window THEN [passed EXCEPT ![Key(r)] = @ + 1] ELSE passed
    ELSE Answer(r, 429) /\ Forget(r) /\ UNCHANGED passed

Incr(r) ==
    /\ step[r] = "counting"
    /\ hits' = [hits EXCEPT ![Key(r)] = @ + 1]
    /\ IF hits'[Key(r)] = 1
       THEN Goto(r, "expiring") /\ UNCHANGED <<limiting, held, answer>>
       ELSE Decide(r, hits'[Key(r)])
    /\ UNCHANGED <<fixed, window, ttl, org, rows, queued, target, wrote>>

Expire(r) ==
    /\ step[r] = "expiring"
    /\ ttl' = ttl \cup {Key(r)}
    /\ Decide(r, 1)
    /\ UNCHANGED <<fixed, window, hits, org, rows, queued, target, wrote>>

\* _degraded: Redis does not answer, the configured policy decides.
Degraded(r) ==
    /\ step[r] \in {"counting", "expiring"}
    /\ \/ "allow" \in Policies /\ Pass(r)
       \/ "deny" \in Policies /\ Answer(r, 503) /\ Forget(r)
    /\ UNCHANGED <<fixed, redis, org, rows, queued, passed, target, wrote>>

\* A key lives for a window's length from its first hit, which is not before
\* its window: it outlives the window.
KeyExpires(k) ==
    /\ k \in ttl /\ k[2] < window
    /\ hits' = [hits EXCEPT ![k] = 0]
    /\ ttl' = ttl \ {k}
    /\ UNCHANGED <<fixed, window, org, rows, queued, held, step, limiting, target, wrote, answer>>

Tick ==
    /\ window < MaxWindow
    /\ window' = window + 1
    /\ UNCHANGED <<fixed, hits, ttl, org, rows, queued, held, step, limiting, target, wrote, answer>>

-----------------------------------------------------------------------------
(* require_organization.                                                   *)

FindTenant(r) ==
    /\ At(r, "tenant")
    /\ Goto(r, IF org THEN "look" ELSE "provision")
    /\ UNCHANGED <<fixed, redis, org, rows, queued, held, limiting, target, wrote, answer>>

\* The insert: refused by the unique index when another request was first.  Its
\* commit gives the connection back; the handler takes one again.
Provision(r) ==
    /\ At(r, "provision")
    /\ \/ /\ org
          /\ Answer(r, 409)
          /\ UNCHANGED org
       \/ /\ ~org
          /\ org' = TRUE
          /\ held' = Closed(r)
          /\ Goto(r, "tenant")
          /\ UNCHANGED answer
    /\ UNCHANGED <<fixed, redis, rows, queued, limiting, target, wrote>>

-----------------------------------------------------------------------------
(* The handlers.                                                           *)

\* What a handler requires is not there: 404.
NoApplication(r) ==
    kind[r] \in {"read", "update", "delete", "version", "test", "submit"} /\ app = NoOne
NoDataset(r) == kind[r] \in {"case", "submit"} /\ ~dataset
NoVersion(r) == kind[r] = "submit" /\ ver = NoOne /\ ~reference

Missing(r) == NoApplication(r) \/ NoDataset(r) \/ NoVersion(r)

Read(r) == ~Missing(r) /\ kind[r] = "read" /\ Answer(r, 200)

\* A submission may name a version that is not there; the version an http
\* application has may hold no connection, in a submission as in a test.
NoSuchVersion(r) == ~Missing(r) /\ kind[r] = "submit"

\* _require_http, validated_connection: a connection the version may not have.
BadConnection(r) == ~Missing(r) /\ kind[r] = "version"

\* create_version looks for the label before it writes.
LabelTaken(r) == kind[r] = "version" /\ app # NoOne /\ ver # NoOne

\* max_cases_per_evaluation, counted before the run is admitted.
TooManyCases(r) == ~Missing(r) /\ kind[r] = "submit" /\ cases > MaxCases

\* The checks a handler makes before it writes.
Look(r) ==
    /\ At(r, "look")
    /\ target' = IF kind[r] \in {"update", "delete", "version", "submit"}
                 THEN [target EXCEPT ![r] = app] ELSE target
    /\ \/ (Missing(r) \/ NoSuchVersion(r)) /\ Answer(r, 404)
       \/ Read(r)
       \/ LabelTaken(r) /\ Answer(r, 409)
       \/ (TooManyCases(r) \/ BadConnection(r)) /\ Answer(r, 422)
       \/ \* the quota is used up
          /\ ~Missing(r) /\ kind[r] \in {"create", "case", "submit", "test"}
          /\ Answer(r, 429)
       \/ \* admit_connection_test commits; a reference application is called
          \* without another statement
          /\ ~Missing(r) /\ kind[r] = "test"
          /\ held' = Closed(r) /\ UNCHANGED answer
          /\ Goto(r, IF reference THEN "calling" ELSE "target")
       \/ /\ ~Missing(r) /\ kind[r] \notin {"read", "test"}
          /\ ~LabelTaken(r) /\ ~TooManyCases(r)
          /\ Goto(r, "write") /\ UNCHANGED <<held, answer>>
    /\ UNCHANGED <<fixed, redis, org, rows, queued, limiting, wrote>>

\* A run refers to application a.
Referenced(a) ==
    \/ a = Old /\ oldRun
    \/ \E q \in Requests : run[q] # "none" /\ target[q] = a

ConflictWithoutConstraint(r) ==
    \/ kind[r] = "create" /\ app # NoOne
    \/ kind[r] = "version" /\ app # target[r]
    \/ kind[r] = "submit" /\ app # target[r]
    \/ kind[r] = "delete" /\ Referenced(target[r])

ConflictCascading(r) ==
    \/ kind[r] = "create" /\ app # NoOne
    \/ kind[r] = "version" /\ (app # target[r] \/ ver # NoOne)
    \/ kind[r] = "submit" /\ app # target[r]

\* The unique names and labels, and the foreign keys of versions and runs.
Conflict(r) ==
    \/ kind[r] = "create" /\ app # NoOne
    \/ kind[r] = "version" /\ (app # target[r] \/ ver # NoOne)
    \/ kind[r] = "submit" /\ app # target[r]
    \/ kind[r] = "delete" /\ Referenced(target[r])

\* What each repository writes.  A row deleted twice is deleted; an update of a
\* deleted row raises StaleDataError.
CreateApplication(r) == kind[r] = "create" /\ app' = r /\ UNCHANGED <<ver, cases, run>>
CreateVersion(r)     == kind[r] = "version" /\ ver' = r /\ UNCHANGED <<app, cases, run>>
AddTestCase(r)       == kind[r] = "case" /\ cases' = cases + 1 /\ UNCHANGED <<app, ver, run>>
UpdateApplication(r) == kind[r] = "update" /\ app = target[r] /\ UNCHANGED rows

CreateRun(r) ==
    kind[r] = "submit" /\ run' = [run EXCEPT ![r] = "pending"] /\ UNCHANGED <<app, ver, cases>>

DeleteApplication(r) ==
    /\ kind[r] = "delete"
    /\ IF app = target[r] THEN app' = NoOne /\ ver' = NoOne ELSE UNCHANGED <<app, ver>>
    /\ UNCHANGED <<cases, run>>

\* The write and its commit.
Write(r) ==
    /\ At(r, "write") /\ ~Conflict(r)
    /\ \/ CreateApplication(r) \/ CreateVersion(r) \/ AddTestCase(r)
       \/ UpdateApplication(r) \/ DeleteApplication(r) \/ CreateRun(r)
    /\ wrote' = [wrote EXCEPT ![r] = TRUE]
    /\ IF kind[r] = "delete" /\ ~AuditEnabled
       THEN Answer(r, 204)
       ELSE Goto(r, "refresh") /\ held' = held \ {<<r, Session(r)>>} /\ UNCHANGED answer
    /\ UNCHANGED <<fixed, redis, org, queued, limiting, target>>

\* A constraint refuses the row; a rename may meet the name of another
\* application, whose row the model leaves out.
Refuse(r) ==
    /\ At(r, "write")
    /\ \/ (Conflict(r) \/ kind[r] = "update") /\ Answer(r, 409)
       \/ kind[r] = "update" /\ app # target[r] /\ Answer(r, 500)
    /\ UNCHANGED <<fixed, redis, org, rows, queued, limiting, target, wrote>>

\* The row to refresh was deleted by another request.
Gone(r) ==
    \/ kind[r] = "create" /\ app # r
    \/ kind[r] = "update" /\ app # target[r]
    \/ kind[r] = "version" /\ ver # r

\* session.refresh and the audit row, in one transaction.  A submission's
\* second session is closed before it is published.
Refresh(r) ==
    /\ At(r, "refresh")
    /\ \/ Gone(r) /\ Answer(r, 500)
       \/ ~Gone(r) /\ kind[r] \in {"create", "version", "case"} /\ Answer(r, 201)
       \/ ~Gone(r) /\ kind[r] = "update" /\ Answer(r, 200)
       \/ kind[r] = "delete" /\ Answer(r, 204)
       \/ /\ kind[r] = "submit"
          /\ held' = held \ {<<r, "service">>} /\ Goto(r, "publish") /\ UNCHANGED answer
    /\ UNCHANGED <<fixed, redis, org, rows, queued, limiting, target, wrote>>

-----------------------------------------------------------------------------
(* EvaluationService.submit after the run is committed.                    *)

PublishBestEffort(r) ==
    /\ step[r] = "publish"
    /\ queued' \in {queued, queued \cup {r}}
    /\ Answer(r, 202)
    /\ UNCHANGED <<fixed, redis, org, rows, limiting, target, wrote>>

\* Publishing may raise although the broker has the message.
Publish(r) ==
    /\ step[r] = "publish"
    /\ \/ queued' = queued \cup {r} /\ Answer(r, 202)
       \/ /\ queued' \in {queued, queued \cup {r}}
          /\ Goto(r, "mark") /\ UNCHANGED <<held, answer>>
    /\ UNCHANGED <<fixed, redis, org, rows, limiting, target, wrote>>

\* _mark_failed, then EvaluationSubmissionError.
MarkFailed(r) ==
    /\ At(r, "mark")
    /\ run' = [run EXCEPT ![r] = "failed"]
    /\ Answer(r, 503)
    /\ UNCHANGED <<fixed, redis, org, app, ver, cases, queued, limiting, target, wrote>>

-----------------------------------------------------------------------------
(* test_application_connection after its admission.                        *)

\* _build_test_target for an http application: no version with a connection, or
\* not the one the request names; no credential; or the target to call.
BuildTarget(r) ==
    /\ At(r, "target")
    /\ \/ Answer(r, 404)
       \/ ver # NoOne /\ Answer(r, 409)
       \/ ver # NoOne /\ Goto(r, "calling") /\ UNCHANGED <<held, answer>>
    /\ UNCHANGED <<fixed, redis, org, rows, queued, limiting, target, wrote>>

\* The outside call; the connection of an http application's lookup is held all
\* the while.  An error the route does not expect is a 500.
CallOut(r) ==
    /\ step[r] = "calling"
    /\ \/ AuditEnabled /\ Goto(r, "outcome") /\ UNCHANGED <<held, answer>>
       \/ ~AuditEnabled /\ Answer(r, 200)
       \/ Answer(r, 500)
    /\ UNCHANGED <<fixed, redis, org, rows, queued, limiting, target, wrote>>

\* record_connection_test_outcome and its commit; the audit row may be gone.
RecordOutcome(r) ==
    /\ At(r, "outcome")
    /\ Answer(r, 200)
    /\ UNCHANGED <<fixed, redis, org, rows, queued, limiting, target, wrote>>

-----------------------------------------------------------------------------
Serve(r) ==
    \/ Incr(r) \/ Expire(r)
    \/ Acquire(r) \/ PoolTimeout(r)
    \/ FindTenant(r) \/ Provision(r)
    \/ Look(r) \/ Write(r) \/ Refuse(r) \/ Refresh(r)
    \/ Publish(r) \/ MarkFailed(r) \/ BuildTarget(r) \/ CallOut(r)
    \/ RecordOutcome(r)

Next ==
    \/ \E r \in Requests : Arrive(r) \/ Serve(r) \/ DbFails(r) \/ Degraded(r)
    \/ \E k \in Keys : KeyExpires(k)
    \/ Tick

Spec == Init /\ [][Next]_vars

\* The event loop runs what it can; nothing has to fail, arrive or expire.
FairSpec == Spec /\ \A r \in Requests : WF_vars(Serve(r))

-----------------------------------------------------------------------------
TypeOK ==
    /\ window \in Windows
    /\ hits \in [Keys -> Nat] /\ ttl \subseteq Keys
    /\ org \in BOOLEAN /\ dataset \in BOOLEAN /\ oldRun \in BOOLEAN
    /\ reference \in BOOLEAN
    /\ app \in Rows /\ ver \in Rows /\ cases \in Nat
    /\ run \in [Requests -> {"none", "pending", "failed"}]
    /\ queued \subseteq Requests
    /\ held \subseteq Requests \X Sessions
    /\ step \in [Requests -> Steps]
    /\ kind \in [Requests -> Kinds]
    /\ win \in [Requests -> Windows]
    /\ passed \in [Keys -> Nat]
    /\ target \in [Requests -> Rows]
    /\ wrote \in [Requests -> BOOLEAN]
    /\ answer \in [Requests -> {0, 200, 201, 202, 204, 404, 409, 422, 429, 500, 503}]

\* The pool's bound holds, and an answered request keeps no connection: an
\* early exit of a handler leaks none (session.py: async with around each).
PoolAccounted ==
    /\ IsFiniteSet(held) /\ Cardinality(held) <= PoolSize
    /\ \A r \in Requests, s \in Sessions :
          <<r, s>> \in held => step[r] \in DbSteps \cup {"publish", "calling"}

\* A window lets no more than Limit requests pass while it lasts, a lost EXPIRE
\* notwithstanding.  One whose INCR comes in the next window may pass beyond
\* that: its key may have expired (ratelimit.py: RateLimiter.allowed).
WindowLimit == \A k \in Keys : passed[k] <= Limit

\* What the client is told is what happened: created, updated and deleted rows
\* were committed, a queued run has its message and was not marked failed
\* (evaluations.py: never told a job was queued when it was not), a deleted
\* application is gone, and a refusal left nothing behind.
AnswerTellsTheTruth ==
    \A r \in Requests :
        /\ answer[r] \in {201, 202, 204} => wrote[r]
        /\ answer[r] = 200 /\ kind[r] = "update" => wrote[r]
        /\ answer[r] = 202 => r \in queued /\ run[r] = "pending"
        /\ answer[r] = 204 => app # target[r]
        /\ answer[r] \in {404, 409, 422, 429} => ~wrote[r]

\* A version is never overwritten, whoever checked its label at the same time:
\* it goes only with its application.
VersionIsNeverReplaced ==
    [][ver # NoOne /\ ver' # ver => ver' = NoOne /\ app' = NoOne]_vars

\* A run keeps the application it was submitted for, however a submission and
\* a deletion interleave (evaluation.py: ondelete RESTRICT).
RunsKeepTheirApplication ==
    /\ oldRun => app = Old
    /\ \A r \in Requests : run[r] # "none" => app = target[r]

\* Every request gets an answer: two submissions that hold a connection each
\* and wait for a second one are told the database is unavailable.
EveryRequestAnswered ==
    \A r \in Requests : step[r] = "counting" ~> step[r] = "answered"

=============================================================================
