------------------------------ MODULE CliSession ------------------------------
(***************************************************************************)
(* One invocation of the command line (cli/main.py over cli/client.py): a  *)
(* command is a script of API requests, sent one after the other over a    *)
(* connection that may fail before or after the API has done its work, and *)
(* ends with an exit code that CI acts on.                                 *)
(*                                                                         *)
(* The API's side is reduced to what the command depends on: which         *)
(* requests were carried out, and the run it submitted, whose status and   *)
(* verdicts change while the command polls.  The run is marked completed   *)
(* before it is scored (module EvalRun); how the API answers a request is  *)
(* module ApiServer.                                                       *)
(*                                                                         *)
(* A request the client gave up on is carried out before the command ends  *)
(* or not at all: nothing the command does afterwards depends on it.       *)
(***************************************************************************)
EXTENDS Naturals, Sequences

CONSTANTS
    Retries,     \* EvalyxClient.request: retries of a GET
    MaxPolls,    \* poll_timeout over poll_interval: polls that fit
    MaxCases     \* quickstart: sample questions the user gives

ASSUME CliAssumption ==
    /\ Retries \in Nat
    /\ MaxPolls \in Nat
    /\ MaxCases \in Nat \ {0}

-----------------------------------------------------------------------------
(* The commands: what each asks of the API, in order.                      *)

Get(op)   == [method |-> "GET", op |-> op, named |-> FALSE]
Write(op) == [method |-> "WRITE", op |-> op, named |-> FALSE]

\* Its path holds an argument of the command, put there as it was typed.
Named(request) == [request EXCEPT !.named = TRUE]

Whoami         == <<Get("show")>>
AppList        == <<Get("show")>>
AppCreate      == <<Write("create")>>
AppShow        == <<Named(Get("show")), Named(Get("show"))>>
AppDelete      == <<Named(Write("change"))>>
AppTest        == <<Named(Write("test"))>>
AppSecret      == <<Named(Write("change"))>>
\* Without an endpoint it looks first whether the application needs one.
AppVersion     == {<<Named(Write("create"))>>,
                   <<Named(Get("kind")), Named(Write("create"))>>}
DatasetList    == <<Get("show")>>
DatasetCreate  == <<Write("create")>>
DatasetShow    == <<Named(Get("show")), Named(Get("show"))>>
DatasetAddCase == <<Named(Write("create"))>>
EvalList       == <<Get("show")>>
EvalShow       == <<Named(Get("show"))>>
EvalResults    == <<Named(Get("page"))>>
EvalGuardrails == <<Named(Get("show"))>>
Reliability    == <<Named(Get("show"))>>
RegressionRun  == <<Write("compare")>>
RegressionShow == <<Named(Get("compare"))>>

\* eval run, with and without --wait.
EvalRun == {<<Write("submit")>>, <<Write("submit"), Get("poll")>>}

\* Endpoint, application, dataset, evaluation; a credential unless auth is none.
Onboarding(credential, n) ==
    <<Write("create"), Write("create")>> \o credential \o
    <<Write("probe"), Write("create"), Write("create")>> \o
    [i \in 1..n |-> Write("create")] \o <<Write("submit"), Get("poll")>>

Quickstart ==
    {Onboarding(credential, n) : credential \in {<< >>, <<Write("change")>>}, n \in 1..MaxCases}

Scripts ==
    {Whoami, AppList, AppCreate, AppShow, AppDelete, AppTest, AppSecret,
     DatasetList, DatasetCreate, DatasetShow, DatasetAddCase, EvalList, EvalShow,
     EvalResults, EvalGuardrails, Reliability, RegressionRun, RegressionShow}
    \cup AppVersion \cup EvalRun \cup Quickstart

-----------------------------------------------------------------------------
VARIABLES
    script,    \* the command's requests
    json,      \* --json
    blank,     \* the requests that were answered with a redirect and no body
    at,        \* the request it is at
    phase,     \* what it does with it
    attempts,  \* sends of this request
    polls,     \* polls begun
    reply,     \* the API's answer on its way: a status, or 0 while there is none
    seen,      \* the run as the API read it for the poll
    exit,      \* the exit code
    carried,   \* API: each request carried out never, once, or more often (2)
    run,       \* API: the run
    flaw       \* API: a probe that failed, a regression that was found

command == <<script, json>>
client  == <<at, phase, attempts, polls, exit>>
api     == <<carried, run, flaw>>
vars    == <<command, client, blank, reply, seen, api>>

\* Exit codes.
ExitOk == 0
ExitError == 1
ExitUsage == 2
ExitConnection == 6
ExitQualityFailures == 7
ExitExecutionErrors == 8

Request == script[at]
Ended   == phase = "exited"

\* A run: its status and whether it has failed cases and cases in error.
Run(status, failed, error) == [status |-> status, failed |-> failed, error |-> error]
Runs == [status : {"none", "pending", "running", "completed", "scored", "failed", "cancelled"},
         failed : BOOLEAN, error : BOOLEAN]
NoRun == Run("none", FALSE, FALSE)

\* The API does not tell a completed run from a scored one.
StatusOf(r) == IF r.status = "scored" THEN "completed" ELSE r.status

Init ==
    /\ script \in Scripts
    /\ json \in BOOLEAN
    /\ script \in Quickstart => ~json
    /\ at = 1 /\ phase = "send" /\ attempts = 0 /\ polls = 0 /\ blank = {}
    /\ reply = 0 /\ seen = NoRun /\ exit = ExitOk
    /\ carried = [i \in DOMAIN script |-> 0]
    /\ run = NoRun /\ flaw = FALSE

-----------------------------------------------------------------------------
(* The API.                                                                *)

\* A request is carried out: a GET reads, anything else leaves its trace.
CarryOut ==
    /\ carried' = [carried EXCEPT ![at] = IF @ = 2 THEN 2 ELSE @ + 1]
    /\ run' = IF Request.op = "submit" THEN Run("pending", FALSE, FALSE) ELSE run
    /\ flaw' \in IF Request.op \in {"probe", "compare"} THEN BOOLEAN ELSE {flaw}

\* 301: the proxy's redirect from http, a page that is no JSON.
Refusals == {301, 400, 401, 403, 404, 409, 422, 429, 503}

\* The API answers: done, refused, an error after it was done, or, where an
\* argument leaves the path with a slash at its end ("", "id/"), a redirect
\* without a body, which the client does not follow.
Serve ==
    /\ phase = "sent" /\ reply = 0
    /\ \/ /\ CarryOut
          /\ IF Request.op = "poll"
             THEN reply' = 1 /\ seen' = [run EXCEPT !.status = StatusOf(run)]
             ELSE reply' \in {200, 500} /\ UNCHANGED seen
       \/ reply' \in Refusals /\ UNCHANGED <<seen, api>>
       \/ Request.named /\ reply' = 307 /\ UNCHANGED <<seen, api>>
    /\ UNCHANGED <<command, client, blank>>

\* get_evaluation reads the run, then counts its results.
Count ==
    /\ phase = "sent" /\ reply = 1
    /\ reply' = 200
    /\ seen' = [seen EXCEPT !.failed = run.failed, !.error = run.error]
    /\ UNCHANGED <<command, client, blank, api>>

\* The worker: a run's cases are executed, then judged and scored.
Work ==
    /\ \/ run.status = "pending" /\ run' = [run EXCEPT !.status = "running"]
       \/ /\ run.status = "running"
          /\ \E e \in BOOLEAN : run' = Run("completed", FALSE, e)
       \/ /\ run.status \in {"pending", "running"}
          /\ \E s \in {"failed", "cancelled"} : run' = [run EXCEPT !.status = s]
       \/ /\ run.status = "completed"
          /\ \E f \in BOOLEAN, e \in {run.error, TRUE} : run' = Run("scored", f, e)
    /\ UNCHANGED <<command, client, blank, reply, seen, carried, flaw>>

-----------------------------------------------------------------------------
(* EvalyxClient.request.                                                   *)

Exit(code) ==
    /\ phase' = "exited" /\ exit' = code
    /\ UNCHANGED <<at, attempts, polls>>

RetryableEverything(method) == attempts <= Retries

Retryable(method) == method = "GET" /\ attempts <= Retries

\* The loop's next turn, or the error of this one.
RetryOrAssumeDone(code) ==
    IF Retryable(Request.method)
    THEN phase' = "send" /\ UNCHANGED <<at, attempts, polls, exit>>
    ELSE Exit(IF at = Len(script) THEN ExitOk ELSE code)

RetryOr(code) ==
    IF Retryable(Request.method)
    THEN phase' = "send" /\ UNCHANGED <<at, attempts, polls, exit>>
    ELSE Exit(code)

Send ==
    /\ phase = "send" /\ Request.op # "poll"
    /\ phase' = "sent" /\ attempts' = attempts + 1
    /\ UNCHANGED <<command, at, polls, exit, blank, reply, seen, api>>

\* normalize_http_error.
Normalize(code) ==
    IF code = 401                   THEN 3
    ELSE IF code = 403              THEN 4
    ELSE IF code = 404              THEN 5
    ELSE IF code \in {400, 409, 422} THEN ExitUsage
    ELSE ExitError

\* No answer in time, no connection, or a connection lost with the answer.
TransportFails ==
    /\ phase = "sent"
    /\ RetryOr(ExitConnection)
    /\ reply' = 0
    /\ UNCHANGED <<command, blank, seen, api>>

\* An error answer; a 5xx to a GET is asked again.
Refused ==
    /\ phase = "sent" /\ reply \in Refusals \cup {500}
    /\ IF reply >= 500 THEN RetryOr(Normalize(reply)) ELSE Exit(Normalize(reply))
    /\ reply' = 0
    /\ UNCHANGED <<command, blank, seen, api>>

-----------------------------------------------------------------------------
(* The commands: what they make of an answer.                              *)

\* _emit_final_run: in JSON mode the run is printed and that is all.
FinalCode(r) ==
    IF json \/ r.status # "completed" THEN ExitOk
    ELSE IF r.failed THEN ExitQualityFailures
    ELSE IF r.error THEN ExitExecutionErrors
    ELSE ExitOk

Terminal == {"completed", "failed", "cancelled"}

\* A 2xx: the next request, or the end.  Its body may be no JSON or lack a
\* field; quickstart gives up on a failed probe; app version on an http
\* application that was given no endpoint; and what is to be shown may hold
\* nothing, of a request before.
Accept ==
    /\ phase = "sent" /\ reply = 200 /\ Request.op # "poll"
    /\ \/ Exit(ExitError)
       \/ Request.op = "kind" /\ Exit(ExitUsage)
       \/ Request.op = "probe" /\ flaw /\ Exit(ExitError)
       \/ /\ Request.op = "probe" => ~flaw
          /\ IF at < Len(script)
             THEN /\ at' = at + 1 /\ phase' = "send" /\ attempts' = 0
                  /\ UNCHANGED <<polls, exit>>
             ELSE Exit(IF json                                 THEN ExitOk
                       ELSE IF blank # {}                      THEN ExitError
                       ELSE IF Request.op = "compare" /\ flaw THEN ExitQualityFailures
                       ELSE ExitOk)
    /\ reply' = 0
    /\ UNCHANGED <<command, blank, seen, api>>

\* What a command makes of None: app delete and app secret do not look at
\* their answer, JSON mode prints null, and the others fail on it.
Indifferent ==
    \/ Request.op = "change"
    \/ json /\ Request.op \notin {"kind", "page"}

\* A status below 400 and no body: request returns None, as for a 204.
Redirected ==
    /\ phase = "sent" /\ reply = 307
    /\ blank' = blank \cup {at}
    /\ IF at < Len(script) /\ Request.op # "kind"
       THEN /\ at' = at + 1 /\ phase' = "send" /\ attempts' = 0
            /\ UNCHANGED <<polls, exit>>
       ELSE Exit(IF Indifferent THEN ExitOk ELSE ExitError)
    /\ reply' = 0
    /\ UNCHANGED <<command, seen, api>>

PollForever ==
    /\ phase = "send" /\ Request.op = "poll"
    /\ phase' = "sent" /\ attempts' = attempts + 1
    /\ UNCHANGED <<command, at, polls, exit, blank, reply, seen, api>>

\* _poll_run: the loop's condition, which time may end at any turn.
Poll ==
    /\ phase = "send" /\ Request.op = "poll"
    /\ \/ attempts = 0 /\ Exit(ExitError)
       \/ /\ attempts = 0 => polls < MaxPolls
          /\ phase' = "sent" /\ attempts' = attempts + 1
          /\ polls' = IF attempts = 0 THEN polls + 1 ELSE polls
          /\ UNCHANGED <<at, exit>>
    /\ UNCHANGED <<command, blank, reply, seen, api>>

\* A status it waits for ends the command; any other is polled again.
Polled ==
    /\ phase = "sent" /\ reply = 200 /\ Request.op = "poll"
    /\ \/ Exit(ExitError)
       \/ seen.status \in Terminal /\ Exit(FinalCode(seen))
       \/ /\ seen.status \notin Terminal
          /\ phase' = "send" /\ attempts' = 0 /\ UNCHANGED <<at, polls, exit>>
    /\ reply' = 0
    /\ UNCHANGED <<command, blank, seen, api>>

\* Arguments or a first prompt the command rejects before it asks anything.
UsageFails ==
    /\ phase = "send" /\ at = 1 /\ attempts = 0
    /\ Exit(ExitUsage)
    /\ UNCHANGED <<command, blank, reply, seen, api>>

\* Ctrl-C, or a prompt of quickstart that is not answered as it should.
Interrupt ==
    /\ ~Ended
    /\ Exit(ExitError)
    /\ reply' = 0
    /\ UNCHANGED <<command, blank, seen, api>>

-----------------------------------------------------------------------------
Client ==
    \/ Send \/ TransportFails \/ Refused \/ Accept \/ Redirected \/ Poll \/ Polled
    \/ UsageFails \/ Interrupt
Next == Client \/ Serve \/ Count \/ Work

Spec == Init /\ [][Next]_vars

\* Each request ends, answered or timed out, and the command goes on; neither
\* an answer nor the worker is owed to it.
FairSpec ==
    /\ Spec
    /\ WF_vars(Send \/ Poll)
    /\ WF_vars(TransportFails \/ Refused \/ Accept \/ Redirected \/ Polled)

-----------------------------------------------------------------------------
TypeOK ==
    /\ script \in Scripts /\ json \in BOOLEAN
    /\ at \in DOMAIN script
    /\ phase \in {"send", "sent", "exited"}
    /\ attempts \in Nat /\ polls \in Nat
    /\ blank \subseteq DOMAIN script
    /\ reply \in {0, 1, 200, 307, 500} \cup Refusals
    /\ seen \in Runs /\ run \in Runs
    /\ exit \in 0..8
    /\ carried \in [DOMAIN script -> 0..2]
    /\ flaw \in BOOLEAN

\* A write is carried out at most once, and only after all before it were: a
\* lost answer is never taken for a request to repeat, nor for one done
\* (client.py: never for writes).  Only a read may follow a request that was
\* redirected instead.
WritesOnceInOrder ==
    \A i \in DOMAIN script :
        /\ script[i].method = "WRITE" => carried[i] <= 1
        /\ carried[i] > 0 =>
              \A j \in 1..(i - 1) :
                  carried[j] > 0 \/ (j \in blank /\ script[i].method = "GET")

\* The redirects that an exit code of 0 passes over (client.py takes an answer
\* below 400 without a body for success): those of app delete and app secret,
\* and in JSON mode.
Overlooked(i) ==
    i \in blank /\ script[i].named /\ (json \/ script[i].op = "change")

\* The exit code is earned: 0 says that all the command asked for was carried
\* out, with no exception but the redirects it overlooks, and 7 and 8 that the
\* run it waited for is completed and has failed cases, or cases in error, or
\* that a regression was found.
ExitIsEarned ==
    Ended =>
        /\ exit = ExitOk => \A i \in DOMAIN script : carried[i] > 0 \/ Overlooked(i)
        /\ exit = ExitQualityFailures =>
              \/ Request.op = "compare" /\ flaw
              \/ run.status \in {"completed", "scored"} /\ run.failed
        /\ exit = ExitExecutionErrors =>
              run.status \in {"completed", "scored"} /\ run.error

\* With --wait and without --json, 0 says "success" (errors.py): the run ended
\* well and no case of it failed.
ZeroMeansSuccess ==
    Ended /\ exit = ExitOk /\ Request.op = "poll" /\ ~json =>
        run.status \notin {"failed", "cancelled"} /\ ~run.failed

\* The command comes to an end, whatever the API and the worker do.
EventuallyExits == <>Ended

=============================================================================
