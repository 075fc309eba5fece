--------------------------- MODULE QuotaAdmission ---------------------------
(***************************************************************************)
(* Admission of the requests of one organization that consume quota        *)
(* (quotas/service.py and its callers in api/services.py and api/routers). *)
(*                                                                         *)
(* A request's transaction locks the organization row (SELECT ... FOR      *)
(* UPDATE), reads the limits, counts the rows that hold quota, and either  *)
(* commits a denial or inserts its own row; the commit releases the lock.  *)
(* Nothing else keeps count: capacity comes back when a run reaches a      *)
(* terminal status, when rows are deleted, and with time.                  *)
(*                                                                         *)
(* Row locks, the transaction clock and foreign keys are PostgreSQL's:     *)
(* now() is the start of the transaction, so a row is stamped with a time  *)
(* before its transaction waited for the lock; and inserting a row that    *)
(* refers to the organization waits while another transaction holds the    *)
(* lock.  A run's own life is module EvalRun.                              *)
(*                                                                         *)
(* settings.quota_enabled is on; the case appends are to one dataset       *)
(* version, the only scope narrower than the organization.                 *)
(***************************************************************************)
EXTENDS Integers, FiniteSets

CONSTANTS
    Requests,      \* API requests, each serves once
    NoOne,         \* nobody holds the organization row
    KindsInUse,    \* what the requests may ask for
    LimitRows,     \* effective limits: the defaults, and what overrides make of them
    Horizon,       \* quota_stale_run_seconds
    DayLength,     \* from one UTC midnight to the next
    LastStart,     \* bound: no request starts later
    MaxTime,       \* bound: the clock stops
    AuditEnabled   \* settings.audit_enabled

\* applications, datasets and cases hold quota while they exist, evaluations
\* and connection tests for the day.
Stocks == {"application", "dataset", "case"}
Kinds  == Stocks \cup {"evaluation", "test"}

\* EffectiveLimits: a limit for each kind, and one more for active runs.
Dimensions == Kinds \cup {"concurrent"}

ASSUME QuotaAssumption ==
    /\ IsFiniteSet(Requests)
    /\ NoOne \notin Requests
    /\ KindsInUse \subseteq Kinds
    /\ LimitRows \subseteq [Dimensions -> Nat]
    /\ Horizon \in Nat
    /\ DayLength \in Nat \ {0}
    /\ LastStart \in Nat /\ MaxTime \in Nat
    /\ AuditEnabled \in BOOLEAN
    /\ AuditEnabled \/ "test" \notin KindsInUse   \* tests are counted from audit rows

VARIABLES
    now,     \* the clock
    limit,   \* the limits in force: overrides over defaults
    holder,  \* the request whose transaction locks the organization row
    step,    \* where each request is
    kind,    \* what each request asks for
    began,   \* start of its transaction
    lim,     \* the limits it read
    row      \* the row it inserted: "none", "live" or "ended"

vars == <<now, limit, holder, step, kind, began, lim, row>>

\* Steps of a request that holds the lock, and of one that is under way.
Holding  == {"locked", "capacity", "budget", "admitted", "denying"}
UnderWay == Holding \cup {"reading", "audit", "publish", "calling"}

Day(t) == t \div DayLength

\* The rows the quota of a kind counts: the existing ones, or today's.
Used(k) ==
    {x \in Requests :
        /\ kind[x] = k
        /\ IF k \in Stocks THEN row[x] = "live"
                           ELSE row[x] # "none" /\ Day(began[x]) >= Day(now)}

\* _count_active_runs: pending or running, inside the staleness horizon.
ActiveForever == {x \in Requests : kind[x] = "evaluation" /\ row[x] = "live"}
Active ==
    {x \in Requests :
        /\ kind[x] = "evaluation" /\ row[x] = "live"
        /\ began[x] >= now - Horizon}

Goto(r, s) == step' = [step EXCEPT ![r] = s]

Init ==
    /\ now = 0
    /\ limit \in LimitRows
    /\ holder = NoOne
    /\ step = [r \in Requests |-> "new"]
    /\ kind \in [Requests -> KindsInUse]
    /\ began = [r \in Requests |-> 0]
    /\ lim = [r \in Requests |-> limit]
    /\ row = [r \in Requests |-> "none"]

-----------------------------------------------------------------------------
(* A request.                                                              *)

\* The first statement opens the transaction: tenant and reference checks.
Begin(r) ==
    /\ step[r] = "new" /\ now <= LastStart
    /\ Goto(r, "reading")
    /\ began' = [began EXCEPT ![r] = now]
    /\ UNCHANGED <<now, limit, holder, kind, lim, row>>

LockIgnored(r) ==
    /\ step[r] = "reading"
    /\ holder' = r
    /\ Goto(r, "locked")
    /\ UNCHANGED <<now, limit, kind, began, lim, row>>

\* _lock_organization waits until no other transaction has the row.
Lock(r) ==
    /\ step[r] = "reading" /\ holder = NoOne
    /\ holder' = r
    /\ Goto(r, "locked")
    /\ UNCHANGED <<now, limit, kind, began, lim, row>>

\* effective_limits.
ReadLimits(r) ==
    /\ step[r] = "locked"
    /\ lim' = [lim EXCEPT ![r] = limit]
    /\ Goto(r, IF kind[r] = "evaluation" THEN "capacity" ELSE "budget")
    /\ UNCHANGED <<now, limit, holder, kind, began, row>>

\* admit_evaluation: the active runs first ...
CheckCapacity(r) ==
    /\ step[r] = "capacity"
    /\ Goto(r, IF Cardinality(Active) >= lim[r]["concurrent"] THEN "denying" ELSE "budget")
    /\ UNCHANGED <<now, limit, holder, kind, began, lim, row>>

\* ... then, as for every kind, the rows its quota counts.
BudgetOffByOne(r) ==
    /\ step[r] = "budget"
    /\ Goto(r, IF Cardinality(Used(kind[r])) > lim[r][kind[r]] THEN "denying" ELSE "admitted")
    /\ UNCHANGED <<now, limit, holder, kind, began, lim, row>>

CheckBudget(r) ==
    /\ step[r] = "budget"
    /\ Goto(r, IF Cardinality(Used(kind[r])) >= lim[r][kind[r]] THEN "denying" ELSE "admitted")
    /\ UNCHANGED <<now, limit, holder, kind, began, lim, row>>

DenyUncommitted(r) ==
    /\ step[r] = "denying"
    /\ Goto(r, "denied")
    /\ UNCHANGED <<now, limit, holder, kind, began, lim, row>>

\* _deny: the denial's audit row is committed, then QuotaExceededError.
Deny(r) ==
    /\ step[r] = "denying"
    /\ holder' = NoOne
    /\ Goto(r, "denied")
    /\ UNCHANGED <<now, limit, kind, began, lim, row>>

\* What follows the audit row: a run is published, the rest is answered.
AfterAudit(r) == IF kind[r] = "evaluation" THEN "publish" ELSE "done"

\* The caller's insert commits.  For a connection test the row is the audit
\* row of its admission, and the outbound call comes next; for the others the
\* audit row is a second transaction.
Insert(r) ==
    /\ step[r] = "admitted"
    /\ row' = [row EXCEPT ![r] = "live"]
    /\ holder' = NoOne
    /\ Goto(r, IF kind[r] = "test" THEN "calling"
               ELSE IF AuditEnabled THEN "audit" ELSE AfterAudit(r))
    /\ UNCHANGED <<now, limit, kind, began, lim>>

\* The audit row refers to the organization: its insert waits for the lock.
Audit(r) ==
    /\ step[r] = "audit" /\ holder = NoOne
    /\ Goto(r, AfterAudit(r))
    /\ UNCHANGED <<now, limit, holder, kind, began, lim, row>>

\* submit publishes the run; when publishing raises it marks the run failed.
Publish(r) ==
    /\ step[r] = "publish"
    /\ \/ Goto(r, "done") /\ UNCHANGED row
       \/ Goto(r, "failed") /\ row' = [row EXCEPT ![r] = "ended"]
    /\ UNCHANGED <<now, limit, holder, kind, began, lim>>

\* The connection test's target answers, or fails in a way the route expects:
\* record_connection_test_outcome stamps the admission row.
RecordOutcome(r) ==
    /\ step[r] = "calling"
    /\ row' = [row EXCEPT ![r] = "ended"]
    /\ Goto(r, "done")
    /\ UNCHANGED <<now, limit, holder, kind, began, lim>>

\* Anything raises, or the API dies: a missing reference, a duplicate name, a
\* lost connection.  The open transaction is rolled back; what was committed
\* stays, a run that was not published included.
Fail(r) ==
    /\ step[r] \in UnderWay
    /\ holder' = IF holder = r THEN NoOne ELSE holder
    /\ Goto(r, "failed")
    /\ UNCHANGED <<now, limit, kind, began, lim, row>>

-----------------------------------------------------------------------------
(* What happens around the requests, without the lock.                     *)

\* A run reaches a terminal status, or an application without runs is deleted,
\* some time after the request that made it was answered.
Release(x) ==
    /\ row[x] = "live" /\ step[x] \in {"done", "failed"} /\ kind[x] \in {"application", "evaluation"}
    /\ row' = [row EXCEPT ![x] = "ended"]
    /\ UNCHANGED <<now, limit, holder, step, kind, began, lim>>

\* An operator replaces an override.
SetOverrides ==
    /\ limit' \in LimitRows
    /\ UNCHANGED <<now, holder, step, kind, began, lim, row>>

Tick ==
    /\ now < MaxTime
    /\ now' = now + 1
    /\ UNCHANGED <<limit, holder, step, kind, began, lim, row>>

-----------------------------------------------------------------------------
Serve(r) ==
    \/ Lock(r) \/ ReadLimits(r) \/ CheckCapacity(r) \/ CheckBudget(r)
    \/ Deny(r) \/ Insert(r) \/ Audit(r) \/ Publish(r) \/ RecordOutcome(r)

Next ==
    \/ \E r \in Requests : Begin(r) \/ Serve(r) \/ Fail(r) \/ Release(r)
    \/ SetOverrides \/ Tick

Spec == Init /\ [][Next]_vars

\* The API serves what it started and the clock goes on; no run is obliged to
\* end and no request to fail.
Fairness == WF_vars(Tick) /\ \A r \in Requests : WF_vars(Serve(r))

FairSpec == Spec /\ Fairness

-----------------------------------------------------------------------------
TypeOK ==
    /\ now \in Nat
    /\ limit \in LimitRows
    /\ holder \in Requests \cup {NoOne}
    /\ step \in [Requests -> {"new", "done", "denied", "failed"} \cup UnderWay]
    /\ kind \in [Requests -> Kinds]
    /\ began \in [Requests -> Nat]
    /\ lim \in [Requests -> LimitRows]
    /\ row \in [Requests -> {"none", "live", "ended"}]

\* Quotas hold in every state: of any rows that are counted together, at least
\* one was admitted under a limit that leaves room for them all, whatever the
\* limits are by now (quotas/service.py: counted under the lock, inserted before
\* it is released).
WithinTerms(S, d) ==
    \A T \in SUBSET S : T # {} => \E x \in T : Cardinality(T) <= lim[x][d]
QuotasHold ==
    /\ \A k \in Kinds : WithinTerms(Used(k), k)
    /\ WithinTerms(Active, "concurrent")

\* Admission is as good as one indivisible step: the steps of concurrent
\* requests, failures, overrides and the clock implement QuotaLedger, where a
\* row appears together with the count that made room for it.
Entries ==
    [r \in {x \in Requests : row[x] # "none"} |->
        [kind |-> kind[r], stamp |-> began[r], terms |-> lim[r], state |-> row[r]]]
Ledger == INSTANCE QuotaLedger WITH entries <- Entries
ImplementsLedger == Ledger!Spec

\* Every request that started is answered: nobody keeps the lock.
EveryRequestAnswered ==
    \A r \in Requests :
        step[r] = "reading" ~> step[r] \in {"done", "denied", "failed"}

\* Capacity comes back although nothing ends the run: not a lost worker, not a
\* request that died between commit and publish, wedges the quota.
CapacityReturns == \A r \in Requests : r \in Active ~> r \notin Active

=============================================================================
