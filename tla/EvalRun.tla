------------------------------ MODULE EvalRun ------------------------------
(***************************************************************************)
(* One evaluation run, from the API request that creates it to the worker  *)
(* tasks that execute and score it.                                        *)
(*                                                                         *)
(*   API       EvaluationService.submit: commit the run, publish the task, *)
(*             mark the run failed when publishing raises.                 *)
(*   broker    Redis through Celery: late acknowledgement, requeue when a  *)
(*             worker is lost, at-least-once delivery.                     *)
(*   worker    run_evaluation / execute_evaluation: eligibility check,     *)
(*             race guard, bounded retry, best-effort failure marking.     *)
(*   runner    EvaluationRunner.execute_run: RUNNING, one case at a time,  *)
(*             COMPLETED (or FAILED / CANCELLED from its handlers).        *)
(*   scoring   GuardrailHarness.evaluate_run, then ScoringEngine.score_run.*)
(*                                                                         *)
(* The database is the only state the processes share: the run's status,   *)
(* its case results and their guardrail rows.  Every database transaction  *)
(* is one step.  Runs share no row, so one run is the whole story here;    *)
(* what they compete for is in module QuotaAdmission.                      *)
(***************************************************************************)
EXTENDS ScoringPolicy, FiniteSets

CONSTANTS
    NumCases,    \* test cases of the pinned dataset version
    Deliveries,  \* copies of the task message the broker may hand out
    MaxRetries,  \* settings.worker_max_retries
    FaultKinds,  \* the faults the environment may inject
    MaxFaults    \* bound on their number

\* The kinds of fault:
\*   db         PostgreSQL is unreachable for one transaction
\*   permanent  an error no retry cures (target resolution, bad snapshot,
\*              connection-pool timeout) before the first case
\*   crash      the worker process is lost
\*   soft, hard the task's time limits
\*   late       the broker loses an acknowledgement and delivers again after
\*              the first execution ended
\*   twin       the broker delivers again while the task is still executing
\*   broker     publishing the task raises in the API, nothing was queued
\*   reply      publishing raises although the broker queued the message
\*   api        the API process dies between the commit and the publish
AllFaultKinds ==
    {"db", "permanent", "crash", "soft", "hard", "late", "twin", "broker", "reply", "api"}

Cases == 1..NumCases

ASSUME RunAssumption ==
    /\ NumCases \in Nat
    /\ Deliveries # {} /\ IsFiniteSet(Deliveries)
    /\ MaxRetries \in Nat
    /\ FaultKinds \subseteq AllFaultKinds
    /\ MaxFaults \in Nat

VARIABLES
    api,      \* where the submitting request is
    status,   \* EvaluationRun.status ("none": not created yet)
    row,      \* status of each case result ("none": no such row)
    verdict,  \* status of each guardrail row of a case result
    pc,       \* where each delivery of the task is
    tries,    \* task.request.retries
    path,     \* execute_evaluation's action
    exc,      \* the exception the task is handling
    todo,     \* runner: the pending cases still to execute
    list,     \* harness / scoring: case results listed and not visited yet
    cur,      \* harness / scoring: the case result being visited
    seen,     \* harness / scoring: guardrail names known to have a row
    faults    \* faults injected so far

db      == <<status, row, verdict>>
scratch == <<todo, list, cur, seen>>
vars    == <<api, db, pc, tries, path, exc, scratch, faults>>

-----------------------------------------------------------------------------
\* RunStatus.
ActiveStatus   == {"pending", "running"}
TerminalStatus == {"completed", "failed", "cancelled"}

\* A case result is named by its case and the delivery that inserted it: a
\* delivery inserts at most one result per case (it never repeats a case that
\* had one when it started), but the head schema has no unique constraint on
\* (evaluation_run_id, test_case_id), so two deliveries may each insert one.
Rows  == Cases \X Deliveries
NoRow == <<>>

HasResult(c) == \E d \in Deliveries : row[<<c, d>>] # "none"
Recorded(r)  == {g \in Guardrails : verdict[r][g] # "none"}
Executed     == {r \in Rows : row[r] = "executed"}
Unclassified == {r \in Rows : row[r] \in {"executed", "error"}}

\* Steps inside the try block of execute_evaluation's race guard (when the
\* action is "execute").
Guarded == {"context", "cases", "begin", "run", "judge", "harness", "scoring"}

\* Steps of a task that a worker process is executing.
Executing == Guarded \cup
    {"load", "prepare", "runfail", "runcancel", "guard", "raised", "mark"}

Live(d) == pc[d] \notin {"absent", "done"}

Goto(d, step) == pc' = [pc EXCEPT ![d] = step]

\* The locals of a frame that is left go with it.
ClearScratch(d) ==
    /\ todo' = [todo EXCEPT ![d] = {}]
    /\ list' = [list EXCEPT ![d] = {}]
    /\ cur'  = [cur  EXCEPT ![d] = NoRow]
    /\ seen' = [seen EXCEPT ![d] = {}]

\* The task's execution ends here; only the message, if anything, remains.
Leave(d, step) ==
    /\ Goto(d, step)
    /\ path' = [path EXCEPT ![d] = "none"]
    /\ ClearScratch(d)

\* Delivery d raises e and control goes to the handler at `step`.
Raise(d, e, step) ==
    /\ Goto(d, step)
    /\ exc' = [exc EXCEPT ![d] = e]
    /\ ClearScratch(d)

\* The handler an exception reaches from where d is: execute_evaluation's race
\* guard around the execute path, the task body otherwise.
Handler(d) ==
    IF path[d] = "execute" /\ pc[d] \in Guarded THEN "guard" ELSE "raised"

\* d is inside the runner's try block: a case is being executed or inserted.
StopsOneCaseEarly(d) == pc[d] = "run" /\ Cardinality(todo[d]) > 1
InLoop(d) == pc[d] = "run" /\ todo[d] # {}

\* execute_run's `pending` list: the cases without a result.
PendingIgnoringResults == Cases
PendingCases == {c \in Cases : ~HasResult(c)}

\* decide_action: the statuses for which a delivery does nothing.
SkipEveryTerminal == TerminalStatus
SkipRunning == {"running", "failed", "cancelled"}
SkipStatus == {"failed", "cancelled"}

\* The race guard's question: did another execution finish the run?
EndedElsewhere     == status \in TerminalStatus
CompletedElsewhere == status = "completed"

\* task.retry: another attempt is left.
RetriesOneTooMany(d) == tries[d] <= MaxRetries
MayRetry(d) == tries[d] < MaxRetries

Fault(kind) ==
    /\ kind \in FaultKinds
    /\ faults < MaxFaults
    /\ faults' = faults + 1

Init ==
    /\ api = "idle"
    /\ status = "none"
    /\ row = [r \in Rows |-> "none"]
    /\ verdict = [r \in Rows |-> [g \in Guardrails |-> "none"]]
    /\ pc = [d \in Deliveries |-> "absent"]
    /\ tries = [d \in Deliveries |-> 0]
    /\ path = [d \in Deliveries |-> "none"]
    /\ exc = [d \in Deliveries |-> "none"]
    /\ todo = [d \in Deliveries |-> {}]
    /\ list = [d \in Deliveries |-> {}]
    /\ cur = [d \in Deliveries |-> NoRow]
    /\ seen = [d \in Deliveries |-> {}]
    /\ faults = 0

-----------------------------------------------------------------------------
(* The API: EvaluationService.submit.                                      *)

\* _create_run: the pending run is committed before anything is published.
CreateRun ==
    /\ api = "idle"
    /\ api' = "created"
    /\ status' = "pending"
    /\ UNCHANGED <<row, verdict, pc, tries, path, exc, scratch, faults>>

\* run_evaluation.delay succeeds: the first copy of the message is queued.
Enqueue(d) ==
    /\ api = "created"
    /\ api' = "done"
    /\ Goto(d, "queued")
    /\ UNCHANGED <<db, tries, path, exc, scratch, faults>>

\* run_evaluation.delay raises; the broker may have queued the message before
\* its reply was lost.
EnqueueRaises ==
    /\ api = "created"
    /\ api' = "marking"
    /\ \/ Fault("broker") /\ UNCHANGED pc
       \/ Fault("reply") /\ \E d \in Deliveries : Goto(d, "queued")
    /\ UNCHANGED <<db, tries, path, exc, scratch>>

\* _mark_failed: unconditional, whatever the run's status is by now.
ApiMarkFailed ==
    /\ api = "marking"
    /\ api' = "done"
    /\ status' = "failed"
    /\ UNCHANGED <<row, verdict, pc, tries, path, exc, scratch, faults>>

\* The API process dies between the commit and the publish, or the second
\* transaction of the submission, its audit row, raises there.
ApiDies ==
    /\ api = "created"
    /\ Fault("api")
    /\ api' = "dead"
    /\ UNCHANGED <<db, pc, tries, path, exc, scratch>>

-----------------------------------------------------------------------------
(* The broker and the worker's process model.                              *)

\* A worker process takes the message and starts the task body.
Start(d) ==
    /\ pc[d] = "queued"
    /\ Goto(d, "load")
    /\ UNCHANGED <<api, db, tries, path, exc, scratch, faults>>

WorkerLostAckedEarly(d) ==
    /\ pc[d] \in Executing
    /\ Fault("crash")
    /\ Leave(d, "done")
    /\ UNCHANGED <<api, db, tries, exc>>

\* The worker process is lost: acks_late and reject_on_worker_lost put the
\* unacknowledged message back on the queue.
WorkerLost(d) ==
    /\ pc[d] \in Executing
    /\ Fault("crash")
    /\ Leave(d, "queued")
    /\ exc' = [exc EXCEPT ![d] = "none"]
    /\ UNCHANGED <<api, db, tries>>

\* The hard time limit: Celery kills the process and acknowledges the message.
HardLimit(d) ==
    /\ pc[d] \in Executing
    /\ Fault("hard")
    /\ Leave(d, "done")
    /\ exc' = [exc EXCEPT ![d] = "hard"]
    /\ UNCHANGED <<api, db, tries>>

\* The same message is handed out a second time as delivery e.
Redeliver(d, e) ==
    /\ pc[e] = "absent"
    /\ \/ Fault("late") /\ pc[d] = "done" /\ \A x \in Deliveries : ~Live(x)
       \/ Fault("twin") /\ pc[d] \in Executing
    /\ Goto(e, "queued")
    /\ tries' = [tries EXCEPT ![e] = tries[d]]
    /\ UNCHANGED <<api, db, path, exc, scratch>>

-----------------------------------------------------------------------------
(* execute_evaluation: eligibility, target, race guard.                    *)

\* decide_action on the status just read.
LoadStatus(d) ==
    /\ pc[d] = "load"
    /\ \/ /\ status \in SkipStatus
          /\ Leave(d, "done")
       \/ /\ status \notin SkipStatus
          /\ Goto(d, "prepare")
          /\ path' = [path EXCEPT ![d] =
                        IF status = "completed" THEN "rescore" ELSE "execute"]
          /\ UNCHANGED scratch
    /\ UNCHANGED <<api, db, tries, exc, faults>>

\* Load agent_model, build the provider and resolve the execution target.
Prepare(d) ==
    /\ pc[d] = "prepare"
    /\ Goto(d, IF path[d] = "rescore" THEN "judge" ELSE "context")
    /\ UNCHANGED <<api, db, tries, path, exc, scratch, faults>>

\* The race guard's handler: a run that is completed by now is re-scored,
\* anything else re-raises.
RaceGuard(d) ==
    /\ pc[d] = "guard"
    /\ IF CompletedElsewhere
       THEN /\ Goto(d, "judge")
            /\ path' = [path EXCEPT ![d] = "rescore"]
            /\ exc' = [exc EXCEPT ![d] = "none"]
       ELSE Goto(d, "raised") /\ UNCHANGED <<path, exc>>
    /\ UNCHANGED <<api, db, tries, scratch, faults>>

-----------------------------------------------------------------------------
(* The runner: EvaluationRunner.execute_run.                               *)

\* _load_run_context: a terminal run is refused with RunnerError.
LoadContext(d) ==
    /\ pc[d] = "context"
    /\ \/ /\ status \in TerminalStatus
          /\ Raise(d, "permanent", Handler(d))
       \/ /\ status \in ActiveStatus
          /\ Goto(d, "cases")
          /\ UNCHANGED <<exc, scratch>>
    /\ UNCHANGED <<api, db, tries, path, faults>>

\* _load_test_cases and _result_case_ids: the cases without a result.
LoadCases(d) ==
    /\ pc[d] = "cases"
    /\ todo' = [todo EXCEPT ![d] = PendingCases]
    /\ Goto(d, "begin")
    /\ UNCHANGED <<api, db, tries, path, exc, list, cur, seen, faults>>

\* _transition(RUNNING): no check of the status it overwrites.
BeginRun(d) ==
    /\ pc[d] = "begin"
    /\ status' = "running"
    /\ Goto(d, "run")
    /\ UNCHANGED <<api, row, verdict, tries, path, exc, scratch, faults>>

\* _execute_case: invoke the target for the next case and insert the result.
\* Every exception of the invocation becomes an ERROR result, the soft time
\* limit's included when it strikes there.
ExecuteCase(d) ==
    /\ InLoop(d)
    /\ LET c == CHOOSE x \in todo[d] : \A y \in todo[d] : x <= y
       IN  /\ \E outcome \in {"executed", "error"} :
                 row' = [row EXCEPT ![<<c, d>>] = outcome]
           /\ todo' = [todo EXCEPT ![d] = todo[d] \ {c}]
    /\ UNCHANGED <<api, status, verdict, pc, tries, path, exc, list, cur, seen, faults>>

\* The loop is over: _transition(COMPLETED), again unconditional.
CompleteRun(d) ==
    /\ pc[d] = "run" /\ ~InLoop(d)
    /\ status' = "completed"
    /\ Goto(d, "judge")
    /\ UNCHANGED <<api, row, verdict, tries, path, exc, scratch, faults>>

\* The except handlers around the loop: mark FAILED and raise RunnerError, or
\* mark CANCELLED and let the cancellation through (no race guard for it).
RunnerMarks(d) ==
    /\ \/ pc[d] = "runfail"   /\ status' = "failed"    /\ Goto(d, "guard")
       \/ pc[d] = "runcancel" /\ status' = "cancelled" /\ Goto(d, "raised")
    /\ UNCHANGED <<api, row, verdict, tries, path, exc, scratch, faults>>

-----------------------------------------------------------------------------
(* Guardrails and scoring: score_existing_run.                             *)

\* evaluate_run lists the case results that are EXECUTED now.
ListForHarness(d) ==
    /\ pc[d] = "judge"
    /\ list' = [list EXCEPT ![d] = Executed]
    /\ Goto(d, "harness")
    /\ UNCHANGED <<api, db, tries, path, exc, todo, cur, seen, faults>>

JudgedAtFirstVerdict(d) == cur[d] = NoRow \/ seen[d] # {}
CaseJudged(d) == cur[d] = NoRow \/ seen[d] = Guardrails

\* evaluate_case: the names already recorded are read once, up front.
VisitCase(d) ==
    /\ pc[d] = "harness" /\ CaseJudged(d)
    /\ \E r \in list[d] :
          /\ cur'  = [cur  EXCEPT ![d] = r]
          /\ seen' = [seen EXCEPT ![d] = Recorded(r)]
          /\ list' = [list EXCEPT ![d] = list[d] \ {r}]
    /\ UNCHANGED <<api, db, pc, tries, path, exc, todo, faults>>

\* _execute_one and _persist for the first guardrail not known to be recorded.
\* (case result, name) is unique in the database: a second row is refused.
Judge(d) ==
    /\ pc[d] = "harness" /\ ~CaseJudged(d)
    /\ LET r == cur[d]
           g == CHOOSE x \in Guardrails \ seen[d] :
                   \A y \in Guardrails \ seen[d] : x <= y
       IN  \/ /\ verdict[r][g] = "none"
              /\ \E v \in VerdictStatus : verdict' = [verdict EXCEPT ![r][g] = v]
              /\ seen' = [seen EXCEPT ![d] = seen[d] \cup {g}]
              /\ UNCHANGED <<pc, exc, todo, list, cur>>
           \/ /\ verdict[r][g] # "none"
              /\ Raise(d, "permanent", Handler(d))
              /\ UNCHANGED verdict
    /\ UNCHANGED <<api, status, row, tries, path, faults>>

\* score_run lists the case results; the classified ones are skipped.
ListForScoring(d) ==
    /\ pc[d] = "harness" /\ CaseJudged(d) /\ list[d] = {}
    /\ list' = [list EXCEPT ![d] = Unclassified]
    /\ cur'  = [cur  EXCEPT ![d] = NoRow]
    /\ seen' = [seen EXCEPT ![d] = {}]
    /\ Goto(d, "scoring")
    /\ UNCHANGED <<api, db, tries, path, exc, todo, faults>>

\* _score_case_status reads the guardrail rows of the next case result ...
ReadVerdicts(d) ==
    /\ pc[d] = "scoring" /\ cur[d] = NoRow
    /\ \E r \in list[d] :
          /\ cur'  = [cur  EXCEPT ![d] = r]
          /\ seen' = [seen EXCEPT ![d] = Recorded(r)]
          /\ list' = [list EXCEPT ![d] = list[d] \ {r}]
    /\ UNCHANGED <<api, db, pc, tries, path, exc, todo, faults>>

\* ... and update_case_result_status commits the outcome when it differs from
\* the status listed, which is still EXECUTED for a result classified since.
WriteScore(d) ==
    /\ pc[d] = "scoring" /\ cur[d] # NoRow
    /\ LET r      == cur[d]
           listed == IF row[r] = "error" THEN "error" ELSE "executed"
           target == ApplyPolicy(listed, seen[d], verdict[r])
       IN  row' = IF target = listed THEN row ELSE [row EXCEPT ![r] = target]
    /\ cur'  = [cur  EXCEPT ![d] = NoRow]
    /\ seen' = [seen EXCEPT ![d] = {}]
    /\ UNCHANGED <<api, status, verdict, pc, tries, path, exc, todo, list, faults>>

\* The summary is returned and the message acknowledged.
FinishScoring(d) ==
    /\ pc[d] = "scoring" /\ cur[d] = NoRow /\ list[d] = {}
    /\ Leave(d, "done")
    /\ UNCHANGED <<api, db, tries, exc, faults>>

-----------------------------------------------------------------------------
(* The task body's handlers: _execute_with_correlation.                    *)

\* A retryable failure is re-queued with one more retry while any is left;
\* with none left the task fails, and nothing marks the run.
RetryOrGiveUp(d) ==
    /\ pc[d] = "raised" /\ exc[d] = "infra"
    /\ \/ /\ MayRetry(d)
          /\ tries' = [tries EXCEPT ![d] = tries[d] + 1]
          /\ exc' = [exc EXCEPT ![d] = "none"]
          /\ Leave(d, "queued")
       \/ /\ ~MayRetry(d)
          /\ Leave(d, "done")
          /\ UNCHANGED <<tries, exc>>
    /\ UNCHANGED <<api, db, faults>>

\* mark_run_failed_if_active reads the status ...
MarkReadUnchecked(d) ==
    /\ pc[d] = "raised" /\ exc[d] # "infra"
    /\ Goto(d, "mark")
    /\ UNCHANGED <<api, db, tries, path, exc, scratch, faults>>

MarkRead(d) ==
    /\ pc[d] = "raised" /\ exc[d] # "infra"
    /\ IF status \in ActiveStatus
       THEN Goto(d, "mark") /\ UNCHANGED <<path, scratch>>
       ELSE Leave(d, "done")
    /\ UNCHANGED <<api, db, tries, exc, faults>>

\* ... and writes FAILED on what it read.
MarkWrite(d) ==
    /\ pc[d] = "mark"
    /\ status' = "failed"
    /\ Leave(d, "done")
    /\ UNCHANGED <<api, row, verdict, tries, exc, faults>>

-----------------------------------------------------------------------------
(* Failures inside the task.                                               *)

\* The transaction d is about to commit fails for want of a connection.  In
\* the case loop the runner's handler takes it; a failing best-effort mark is
\* swallowed; anywhere else it is an ordinary exception.
DbError(d) ==
    /\ pc[d] \in Executing /\ ~(pc[d] = "raised" /\ exc[d] = "infra")
    /\ Fault("db")
    /\ \/ InLoop(d) /\ Raise(d, "infra", "runfail") /\ UNCHANGED path
       \/ pc[d] = "runfail" /\ Goto(d, "guard") /\ UNCHANGED <<path, exc, scratch>>
       \/ pc[d] = "runcancel" /\ Goto(d, "raised") /\ UNCHANGED <<path, exc, scratch>>
       \/ pc[d] \in {"raised", "mark"} /\ Leave(d, "done") /\ UNCHANGED exc
       \/ /\ pc[d] \notin {"runfail", "runcancel", "raised", "mark"} /\ ~InLoop(d)
          /\ Raise(d, "infra", Handler(d))
          /\ UNCHANGED path
    /\ UNCHANGED <<api, db, tries>>

\* The API's best-effort mark fails the same way.
ApiDbError ==
    /\ api = "marking"
    /\ Fault("db")
    /\ api' = "done"
    /\ UNCHANGED <<db, pc, tries, path, exc, scratch>>

\* An error that is not retryable: target resolution, the run's snapshot, ...
PermanentError(d) ==
    /\ pc[d] \in {"prepare", "context"}
    /\ Fault("permanent")
    /\ Raise(d, "permanent", Handler(d))
    /\ UNCHANGED <<api, db, tries, path>>

\* The soft time limit raises in the process's main thread.  While the event
\* loop waits, asyncio.run cancels the coroutine (CancelledError passes the
\* race guard, and marks the run when it was in the case loop); while Python
\* code of the coroutine runs, it is an exception there.
SoftLimit(d) ==
    /\ pc[d] \in Guarded \cup {"load", "prepare", "guard"}
    /\ Fault("soft")
    /\ \/ Raise(d, "soft", IF InLoop(d) THEN "runcancel" ELSE "raised")
       \/ IF InLoop(d) THEN Raise(d, "permanent", "runfail")
                       ELSE Raise(d, "soft", Handler(d))
    /\ UNCHANGED <<api, db, tries, path>>

-----------------------------------------------------------------------------
ApiStep == CreateRun \/ EnqueueRaises \/ ApiMarkFailed
           \/ \E d \in Deliveries : Enqueue(d)

TaskStep(d) ==
    \/ Start(d) \/ LoadStatus(d) \/ Prepare(d) \/ RaceGuard(d)
    \/ LoadContext(d) \/ LoadCases(d) \/ BeginRun(d) \/ ExecuteCase(d)
    \/ CompleteRun(d) \/ RunnerMarks(d)
    \/ ListForHarness(d) \/ VisitCase(d) \/ Judge(d)
    \/ ListForScoring(d) \/ ReadVerdicts(d) \/ WriteScore(d) \/ FinishScoring(d)
    \/ RetryOrGiveUp(d) \/ MarkRead(d) \/ MarkWrite(d)

TaskFault(d) ==
    \/ WorkerLost(d) \/ HardLimit(d) \/ SoftLimit(d)
    \/ DbError(d) \/ PermanentError(d)
    \/ \E e \in Deliveries : Redeliver(d, e)

Next ==
    \/ ApiStep \/ ApiDies \/ ApiDbError
    \/ \E d \in Deliveries : TaskStep(d) \/ TaskFault(d)

Spec == Init /\ [][Next]_vars

\* The API finishes its request and the workers keep taking messages and
\* executing tasks; no fault is ever obliged to happen.
Fairness ==
    /\ WF_vars(CreateRun \/ ApiMarkFailed \/ \E d \in Deliveries : Enqueue(d))
    /\ \A d \in Deliveries : WF_vars(TaskStep(d))

FairSpec == Spec /\ Fairness

-----------------------------------------------------------------------------
(* Properties of every execution, duplicated deliveries included.          *)

TypeOK ==
    /\ api \in {"idle", "created", "marking", "done", "dead"}
    /\ status \in {"none"} \cup ActiveStatus \cup TerminalStatus
    /\ row \in [Rows -> {"none"} \cup ResultStatus]
    /\ verdict \in [Rows -> [Guardrails -> {"none"} \cup VerdictStatus]]
    /\ pc \in [Deliveries -> {"absent", "queued", "done"} \cup Executing]
    /\ tries \in [Deliveries -> 0..MaxRetries]
    /\ path \in [Deliveries -> {"none", "execute", "rescore"}]
    /\ exc \in [Deliveries -> {"none", "infra", "permanent", "soft", "hard"}]
    /\ todo \in [Deliveries -> SUBSET Cases]
    /\ list \in [Deliveries -> SUBSET Rows]
    /\ cur \in [Deliveries -> Rows \cup {NoRow}]
    /\ seen \in [Deliveries -> SUBSET Guardrails]
    /\ faults \in 0..MaxFaults

\* A completed run has a result for every case of its dataset version, whatever
\* was retried, redelivered or executed twice on the way (the runner resumes
\* from the results it finds and completes after its own loop).
CompletedHasAllResults ==
    status = "completed" => \A c \in Cases : HasResult(c)

\* A result is classified failed only on the strength of a recorded critical
\* failure, even when two executions score it at once: verdict rows are
\* inserted once and never rewritten.
FailedHasCause ==
    \A r \in Rows : row[r] = "failed" =>
        \E g \in Critical : verdict[r][g] = "failed"

\* An insert never hits a result the same delivery inserted before: what a
\* resumed execution has left to do excludes what it did.
InsertsAreFresh ==
    \A d \in Deliveries : \A c \in todo[d] : row[<<c, d>>] = "none"

-----------------------------------------------------------------------------
(* Properties that need deliveries to follow one another (no "twin"); the   *)
(* status properties also need a publish that raises to queue nothing (no  *)
(* "reply").                                                               *)

\* runner.py: one result per (run, test case).
OneResultPerCase ==
    \A c \in Cases, d, e \in Deliveries :
        row[<<c, d>>] # "none" /\ row[<<c, e>>] # "none" => d = e

\* execution.py: the state of a terminal run is authoritative.
TerminalIsFinal ==
    [][(status \in TerminalStatus) => (status' = status)]_vars

\* A classified result agrees with the complete set of its verdicts: passed
\* means every guardrail ran and no critical one failed.
ScoreMatchesVerdicts ==
    \A r \in Rows :
        row[r] \in {"passed", "failed"} =>
            /\ Recorded(r) = Guardrails
            /\ row[r] = ApplyPolicy("executed", Guardrails, verdict[r])

\* A message that was retried after an infrastructure failure finds a run it
\* may still execute (tasks.py: retryable failure -> bounded retry).
RetryFindsRunActive ==
    \A d \in Deliveries : pc[d] = "queued" /\ tries[d] > 0 => status # "failed"

Settled == api \in {"done", "dead"} /\ \A d \in Deliveries : ~Live(d)

\* tasks.py: "PostgreSQL never shows a healthy run behind a dead job".  It does,
\* when nobody is left to mark it: the API died before it published or could
\* not mark the run, or a task ended in an exception (its retries used up, the
\* hard limit, a mark that failed).  Nothing else strands a run: not a crash,
\* not a redelivery, not a retry that succeeded.
StrandedHasCause ==
    Settled /\ status \in ActiveStatus =>
        \/ api = "dead"
        \/ \A d \in Deliveries : pc[d] = "absent"
        \/ \E d \in Deliveries : pc[d] = "done" /\ exc[d] # "none"

\* A completed run whose tasks have all ended is scored: the results still
\* unclassified are those a guardrail error left open.
CompletedIsScored ==
    Settled /\ status = "completed" =>
        \A r \in Executed : \E g \in Guardrails : verdict[r][g] = "error"

-----------------------------------------------------------------------------
(* The promise of RunLifecycle, kept when deliveries follow one another.   *)

Outcome(c) ==
    IF HasResult(c)
    THEN row[<<c, CHOOSE d \in Deliveries : row[<<c, d>>] # "none">>]
    ELSE "none"

Lifecycle == INSTANCE RunLifecycle WITH outcome <- [c \in Cases |-> Outcome(c)]
ImplementsLifecycle == Lifecycle!Spec

-----------------------------------------------------------------------------
(* Liveness.                                                               *)

\* A created run reaches a terminal status and all its tasks end, for good,
\* when the faults are ones the code recovers from.
EventuallySettled == status = "pending" ~> [](Settled /\ status \in TerminalStatus)

=============================================================================
