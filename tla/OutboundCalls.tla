--------------------------- MODULE OutboundCalls ---------------------------
(***************************************************************************)
(* The calls one execution of a run makes to the outside: each test case   *)
(* is sent to the target the run selects, then the judges ask the LLM      *)
(* provider about each answer.                                             *)
(*                                                                         *)
(*   http   HTTPApplicationTarget: manual redirects with an address check  *)
(*          per hop, streamed responses, retry of transient failures       *)
(*   mlgpt  HttpApplicationTarget, the reference application               *)
(*   llm    OpenRouterProvider / OllamaProvider over send_with_retries;    *)
(*          the judges use it whatever the target is                       *)
(*                                                                         *)
(* The runner turns every failure into a typed record of its case, and the *)
(* harness every judge failure into an error verdict.  All of it happens   *)
(* in one coroutine: what is hard is the bookkeeping across attempts, hops *)
(* and cases, and the connections an early exit leaves open.  Where these  *)
(* records are stored, and how executions of a run interleave, is in       *)
(* module EvalRun.                                                         *)
(***************************************************************************)
EXTENDS Naturals

CONSTANTS
    NumCases,       \* test cases of the run
    Deterministic,  \* enabled guardrails that only look at the output
    Judges,         \* enabled guardrails that ask the judge model
    MaxAttempts,    \* per transport: attempts of one call, the first included
    MaxRedirects,   \* MAX_REDIRECTS
    PoolSize,       \* connections the http target's client may hold
    Statuses        \* HTTP statuses the other side may answer

Transports == {"http", "mlgpt", "llm"}
Cases      == 1..NumCases
Guardrails == Deterministic \cup Judges

ASSUME OutboundAssumption ==
    /\ NumCases \in Nat
    /\ MaxAttempts \in [Transports -> Nat \ {0}]
    /\ MaxRedirects \in Nat
    /\ PoolSize \in Nat \ {0}
    /\ Statuses \subseteq 100..599
    /\ Deterministic \cap Judges = {}
    /\ "none" \notin Guardrails

VARIABLES
    config,    \* the run's target, as stored: never changes
    pc,        \* step of the coroutine
    job,       \* the call's purpose: a case, or a guardrail of a case
    attempt,   \* attempts begun for this call
    hop,       \* redirects followed in this attempt
    method,    \* HTTP method of the next request
    status,    \* HTTP status of the last response
    open,      \* connections of the http target's pool not given back
    exc,       \* the exception on its way to the caller
    record,    \* what the runner stored for each case
    verdict,   \* what the harness stored for each guardrail of a case
    lost,      \* history: responses dropped without being closed
    last,      \* history: what the other side did on the last attempt
    degraded,  \* history: this attempt was redirected from POST to GET
    heard      \* history: guardrails a judge answered "passed" about

call    == <<job, attempt, hop, method, status>>
stored  == <<record, verdict>>
history == <<last, degraded, heard>>
vars    == <<config, pc, call, open, exc, stored, lost, history>>

-----------------------------------------------------------------------------
(* Failures and their classification.                                      *)

\* FailureCategory.
Categories ==
    {"provider_unavailable", "rate_limited", "quota_exhausted", "timeout",
     "connection_error", "malformed_response", "application_http_error",
     "application_response_invalid", "authentication", "unknown"}

\* _retryable_for, and LLMProviderError.retryable: the same categories.
RetryableCategories ==
    {"provider_unavailable", "timeout", "connection_error", "rate_limited"}

ProviderErrors ==
    {"LLMTimeoutError", "LLMConnectionError", "LLMAuthenticationError",
     "LLMRateLimitError", "LLMRequestError", "LLMServerError", "LLMResponseError"}

\* An exception: its class, the category an http target gives it, the facts
\* its message holds (an HTTP status, "timed out") and its attempts.
\* "none" and 0 stand for None.
Exception(class, category, code, timedOut, attempts) ==
    [class |-> class, category |-> category, code |-> code,
     timedOut |-> timedOut, attempts |-> attempts]

NoException == Exception("none", "none", 0, FALSE, 0)
Application(category, code, attempts) ==
    Exception("ApplicationInvocationError", category, code, FALSE, attempts)
Provider(class) == Exception(class, "none", 0, FALSE, 0)
Unexpected      == Exception("other", "none", 0, FALSE, 0)

\* classify_provider_error: its cases by class.
ProviderCategory ==
    [e \in ProviderErrors |->
        IF e = "LLMServerError"              THEN "provider_unavailable"
        ELSE IF e = "LLMRateLimitError"      THEN "rate_limited"
        ELSE IF e = "LLMTimeoutError"        THEN "timeout"
        ELSE IF e = "LLMConnectionError"     THEN "connection_error"
        ELSE IF e = "LLMAuthenticationError" THEN "authentication"
        ELSE IF e = "LLMResponseError"       THEN "malformed_response"
        ELSE "unknown"]

\* _application_category: the reference target's errors carry no category and
\* are told apart by their message.
LegacyCategory(e) ==
    IF e.code = 0        THEN IF e.timedOut THEN "timeout" ELSE "connection_error"
    ELSE IF e.code = 429 THEN "rate_limited"
    ELSE IF e.code >= 500 THEN "application_http_error"
    ELSE IF e.code >= 400 THEN "application_response_invalid"
    ELSE "unknown"

\* classify_failure.
Classify(e) ==
    IF e.class = "ApplicationInvocationError"
    THEN IF e.category \in Categories THEN e.category ELSE LegacyCategory(e)
    ELSE IF e.class \in ProviderErrors THEN ProviderCategory[e.class]
    ELSE "unknown"

-----------------------------------------------------------------------------
(* What each transport makes of an HTTP status.                            *)

RedirectStatuses  == {301, 302, 303, 307, 308}
DegradingStatuses == {301, 302, 303}

\* _RETRYABLE_STATUSES of the http target, RETRYABLE_STATUS_CODES of llm/base.
TransientFor(transport, s) ==
    \/ transport = "http"  /\ s \in {502, 503, 504}
    \/ transport = "mlgpt" /\ s >= 500
    \/ transport = "llm"   /\ s \in {429, 500, 502, 503, 504}

\* _send: the category of an error status that is not transient.
RefusalCategory(s) ==
    IF s = 429              THEN "rate_limited"
    ELSE IF s \in {401, 403} THEN "authentication"
    ELSE IF s >= 500        THEN "application_http_error"
    ELSE "application_response_invalid"

\* _error_for_status of both providers; Ollama has no credentials to reject.
ProviderErrorsFor(s) ==
    IF s = 429       THEN {"LLMRateLimitError"}
    ELSE IF s >= 500 THEN {"LLMServerError"}
    ELSE IF s \in {401, 403} THEN {"LLMAuthenticationError", "LLMRequestError"}
    ELSE {"LLMRequestError"}

-----------------------------------------------------------------------------
(* The call under way.                                                     *)

NoJob == [case |-> 0, guardrail |-> "none"]
Job(c, g) == [case |-> c, guardrail |-> g]
Judging == job.guardrail # "none"

\* Guardrail calls go to the provider, case calls to the run's target.
TransportOf(j) == IF j.guardrail # "none" THEN "llm" ELSE config.kind
Transport == TransportOf(job)

\* A request carries the prompt in its body, which only a POST has; a template
\* that spells the variable with blanks is accepted but never substituted.
Carries(m) == m = "POST" /\ config.template = "exact"

Outcome(what, s) == [what |-> what, status |-> s]
Nothing == Outcome("nothing", 0)
Whats == {"nothing", "answer", "timeout", "unreachable", "no connection", "status",
          "blocked", "cut", "too large", "garbled", "bad redirect", "bad delay"}

\* The reasons resolve_run_target, build_http_target and the provider factory
\* have for refusing; "ready" when there is none.
Refusals ==
    [http  |-> {"no api key", "no run", "no application", "no version", "no connection",
                "invalid connection", "no credential", "undecryptable credential"},
     mlgpt |-> {"no api key", "no run", "no application", "unknown target"},
     llm   |-> {"no api key"}]

Configs ==
    {x \in [kind : Transports, method : {"POST", "GET"}, template : {"exact", "spaced"},
            setup : UNION {Refusals[k] : k \in Transports} \cup {"ready"}] :
        /\ x.setup \in Refusals[x.kind] \cup {"ready"}
        /\ x.kind # "http" => x.method = "POST" /\ x.template = "exact"}

NoRecord == [result |-> "none", output |-> "none", category |-> "none",
             retryable |-> FALSE, attempts |-> 0]

Init ==
    /\ config \in Configs
    /\ pc = "resolve"
    /\ job = NoJob
    /\ attempt = 0 /\ hop = 0 /\ method = "POST" /\ status = 0
    /\ open = 0
    /\ exc = NoException
    /\ record = [c \in Cases |-> NoRecord]
    /\ verdict = [c \in Cases |-> [g \in Guardrails |-> "none"]]
    /\ lost = 0 /\ last = Nothing /\ degraded = FALSE /\ heard = {}

-----------------------------------------------------------------------------
(* Failures of a call.                                                     *)

\* The call ends with exception e.
Throw(e) == pc' = "raised" /\ exc' = e

\* A transient failure: another attempt after a backoff while one is left; e
\* is the last one's error, reported when none is.
TransientFirstError(e) ==
    IF attempt < MaxAttempts[Transport]
    THEN pc' = "backoff" /\ exc' = (IF exc = NoException THEN e ELSE exc)
    ELSE Throw(IF exc = NoException THEN e ELSE exc)

Transient(e) ==
    IF attempt < MaxAttempts[Transport]
    THEN pc' = "backoff" /\ exc' = e
    ELSE Throw(e)

\* The categories of the transient failures of an application call; the
\* reference target leaves the category open and writes it in the message.
TimedOut ==
    Exception("ApplicationInvocationError",
              IF Transport = "http" THEN "timeout" ELSE "none", 0, TRUE, attempt)
Unreachable ==
    Application(IF Transport = "http" THEN "connection_error" ELSE "none", 0, attempt)
ServerFailure(s) ==
    Application(IF Transport = "http" THEN "application_http_error" ELSE "none", s, attempt)

\* A failure that ends the call at once.  The reference target does not say
\* how many attempts it made.
Permanent(category, s) ==
    Throw(IF Transport = "http" THEN Application(category, s, attempt)
                                ELSE Application("none", s, 0))

Saw(what, s) == last' = Outcome(what, s)

-----------------------------------------------------------------------------
(* The worker: resolve the target, then one call after the other.          *)

\* create_provider and resolve_run_target: an execution that cannot be set up
\* makes no call at all.
Resolve ==
    /\ pc = "resolve"
    /\ pc' = IF config.setup = "ready" THEN "next" ELSE "closed"
    /\ UNCHANGED <<config, call, open, exc, stored, lost, history>>

FirstStep(t) == IF t = "http" THEN "check" ELSE "send"

\* The first attempt of a call.
Begin(j) ==
    /\ job' = j
    /\ attempt' = 1 /\ hop' = 0 /\ method' = config.method
    /\ pc' = FirstStep(TransportOf(j))
    /\ degraded' = FALSE
    /\ UNCHANGED <<config, status, open, exc, stored, lost, last, heard>>

Unrecorded == {c \in Cases : record[c].result = "none"}
Unjudged(c) == {g \in Guardrails : verdict[c][g] = "none"}
ToJudge == {c \in Cases : record[c].result = "executed" /\ Unjudged(c) # {}}

\* The runner's loop over the cases.
NextCase(c) ==
    /\ pc = "next"
    /\ c \in Unrecorded /\ \A d \in Unrecorded : c <= d
    /\ Begin(Job(c, "none"))

\* The harness: the executed cases, the deterministic guardrails first.
NextVerdict(c, g) ==
    /\ pc = "next" /\ Unrecorded = {}
    /\ c \in ToJudge /\ \A d \in ToJudge : c <= d
    /\ g \in Unjudged(c)
    /\ g \in Judges => Unjudged(c) \cap Deterministic = {}

\* A guardrail over regular expressions; without output it raises.
InspectVerdicts(output) == IF output = "blank" THEN {"error"} ELSE {"passed", "failed"}

Inspect(c, g) ==
    /\ NextVerdict(c, g) /\ g \in Deterministic
    /\ \E v \in InspectVerdicts(record[c].output) : verdict' = [verdict EXCEPT ![c][g] = v]
    /\ UNCHANGED <<config, pc, call, open, exc, record, lost, history>>

\* A judge raises without output to judge, hallucination without reference
\* material as well.
Unjudgeable(c, g) ==
    /\ verdict' = [verdict EXCEPT ![c][g] = "error"]
    /\ UNCHANGED <<config, pc, call, open, exc, record, lost, history>>

\* Otherwise it asks the provider.
AskJudge(c, g) ==
    /\ NextVerdict(c, g) /\ g \in Judges
    /\ \/ record[c].output # "blank" /\ Begin(Job(c, g))
       \/ Unjudgeable(c, g)

\* Everything is recorded: the worker closes the target and its pool.
Close ==
    /\ pc = "next" /\ Unrecorded = {} /\ ToJudge = {}
    /\ pc' = "closed"
    /\ open' = 0 /\ lost' = 0
    /\ UNCHANGED <<config, call, exc, stored, history>>

-----------------------------------------------------------------------------
(* HTTPApplicationTarget.                                                  *)

\* assert_url_resolves_public before each hop.
CheckDestination ==
    /\ pc = "check"
    /\ \/ pc' = "send" /\ UNCHANGED <<exc, last>>
       \/ Permanent("unknown", 0) /\ Saw("blocked", 0)
    /\ UNCHANGED <<config, call, open, stored, lost, degraded, heard>>

\* The request gets no response: no pooled connection within the pool timeout,
\* a timeout, a transport error, or an address the pinning transport refuses
\* (SSRFViolationError, which no handler of the target expects).
SendFails ==
    /\ pc = "send" /\ Transport = "http"
    /\ \/ open >= PoolSize /\ Transient(TimedOut) /\ Saw("no connection", 0)
       \/ open < PoolSize /\ Transient(TimedOut) /\ Saw("timeout", 0)
       \/ open < PoolSize /\ Transient(Unreachable) /\ Saw("unreachable", 0)
       \/ Throw(Unexpected) /\ Saw("cut", 0)
    /\ UNCHANGED <<config, call, open, stored, lost, degraded, heard>>

\* An error status: _send raises and drops the streamed response, whose
\* connection stays with it.
SendRefused(s) ==
    /\ pc = "send" /\ Transport = "http" /\ open < PoolSize
    /\ s >= 400
    /\ status' = s
    /\ open' = open + 1 /\ lost' = lost + 1
    /\ IF TransientFor("http", s) THEN Transient(ServerFailure(s))
                                  ELSE Permanent(RefusalCategory(s), s)
    /\ Saw("status", s)
    /\ UNCHANGED <<config, job, attempt, hop, method, stored, degraded, heard>>

\* Any other response is handed on, open.
SendAnswered(s) ==
    /\ pc = "send" /\ Transport = "http" /\ open < PoolSize
    /\ s < 400
    /\ status' = s
    /\ open' = open + 1
    /\ pc' = IF s \in RedirectStatuses THEN "redirect" ELSE "read"
    /\ UNCHANGED <<config, job, attempt, hop, method, exc, stored, lost, history>>

\* The hop is closed, then followed or refused.
RedirectForgettingHops ==
    /\ pc = "redirect"
    /\ open' = open - 1
    /\ pc' = "check"
    /\ method' = IF status \in DegradingStatuses THEN "GET" ELSE method
    /\ degraded' = (degraded \/ status \notin {307, 308})
    /\ UNCHANGED <<config, job, attempt, hop, status, exc, stored, lost, last, heard>>

RedirectLeavingItOpen ==
    /\ pc = "redirect"
    /\ pc' = "check"
    /\ hop < MaxRedirects /\ hop' = hop + 1
    /\ UNCHANGED <<config, job, attempt, method, status, open, exc, stored, lost, history>>

Redirect ==
    /\ pc = "redirect"
    /\ open' = open - 1
    /\ \/ /\ hop < MaxRedirects
          /\ hop' = hop + 1
          /\ method' = IF status \in DegradingStatuses THEN "GET" ELSE method
          /\ degraded' = (degraded \/ status \notin {307, 308})
          /\ pc' = "check"
          /\ UNCHANGED <<exc, last>>
       \/ \* no Location header, or one hop too many
          /\ Permanent("application_response_invalid", 0)
          /\ Saw("bad redirect", 0)
          /\ UNCHANGED <<hop, method, degraded>>
    /\ UNCHANGED <<config, job, attempt, status, stored, lost, heard>>

\* _read_and_extract, and the close in the finally clause around it.  Only a
\* timeout while reading is handled; a connection cut there is not.
Read ==
    /\ pc = "read"
    /\ open' = open - 1
    /\ \/ pc' = "answered" /\ Saw("answer", status) /\ UNCHANGED exc
       \/ Transient(TimedOut) /\ Saw("timeout", 0)
       \/ Throw(Unexpected) /\ Saw("cut", 0)
       \/ Permanent("application_response_invalid", 0) /\ Saw("too large", 0)
       \/ Permanent("malformed_response", 0) /\ Saw("garbled", 0)
       \/ Permanent("application_response_invalid", 0) /\ Saw("garbled", 0)
    /\ UNCHANGED <<config, call, stored, lost, degraded, heard>>

-----------------------------------------------------------------------------
(* HttpApplicationTarget, the reference application: the response is read   *)
(* and closed by the client before _invoke_once looks at it.               *)

Post ==
    /\ pc = "send" /\ Transport = "mlgpt"
    /\ \/ Transient(TimedOut) /\ Saw("timeout", 0) /\ UNCHANGED status
       \/ Transient(Unreachable) /\ Saw("unreachable", 0) /\ UNCHANGED status
       \/ \E s \in Statuses :
             /\ status' = s
             /\ \/ TransientFor("mlgpt", s) /\ Transient(ServerFailure(s)) /\ Saw("status", s)
                \/ s \in 400..499 /\ Permanent("none", s) /\ Saw("status", s)
                \/ s < 400 /\ pc' = "answered" /\ Saw("answer", s) /\ UNCHANGED exc
                \/ \* not JSON, no answer field, or an empty answer
                   s < 400 /\ Permanent("none", 0) /\ Saw("garbled", s)
    /\ UNCHANGED <<config, job, attempt, hop, method, open, stored, lost, degraded, heard>>

-----------------------------------------------------------------------------
(* OpenRouterProvider and OllamaProvider: send_with_retries, then the       *)
(* status and the payload of whatever it returns.                          *)

\* A transient status, deferred while an attempt is left; a Retry-After that no
\* sleep accepts (nan) escapes as a ValueError.
Deferred(s) ==
    /\ TransientFor("llm", s) /\ attempt < MaxAttempts["llm"]
    /\ Saw("status", s) /\ pc' = "backoff" /\ UNCHANGED exc

BadDelay(s) ==
    s = 429 /\ attempt < MaxAttempts["llm"] /\ Throw(Unexpected) /\ Saw("bad delay", s)

\* _interpret: an error status the retries did not absorb.
Interpret(s) ==
    /\ TransientFor("llm", s) => attempt = MaxAttempts["llm"]
    /\ s >= 400
    /\ \E e \in ProviderErrorsFor(s) : Throw(Provider(e))
    /\ Saw("status", s)

\* The payload is a completion, or it is not.
Parse(s) ==
    /\ s < 400
    /\ \/ pc' = "answered" /\ Saw("answer", s) /\ UNCHANGED exc
       \/ Throw(Provider("LLMResponseError")) /\ Saw("garbled", s)

Ask ==
    /\ pc = "send" /\ Transport = "llm"
    /\ \/ Transient(Provider("LLMTimeoutError")) /\ Saw("timeout", 0) /\ UNCHANGED status
       \/ Transient(Provider("LLMConnectionError")) /\ Saw("unreachable", 0) /\ UNCHANGED status
       \/ \E s \in Statuses :
             /\ status' = s
             /\ Deferred(s) \/ BadDelay(s) \/ Interpret(s) \/ Parse(s)
    /\ UNCHANGED <<config, job, attempt, hop, method, open, stored, lost, degraded, heard>>

\* The backoff is over: an attempt starts from the configured request again.
RetryAsRedirected ==
    /\ pc = "backoff"
    /\ attempt' = attempt + 1 /\ hop' = 0
    /\ pc' = FirstStep(Transport)
    /\ UNCHANGED <<config, job, method, status, open, exc, stored, lost, history>>

Retry ==
    /\ pc = "backoff"
    /\ attempt' = attempt + 1 /\ hop' = 0 /\ method' = config.method
    /\ pc' = FirstStep(Transport)
    /\ degraded' = FALSE
    /\ UNCHANGED <<config, job, status, open, exc, stored, lost, last, heard>>

-----------------------------------------------------------------------------
(* What the callers make of the outcome.                                   *)

CallDone ==
    /\ pc' = "next"
    /\ exc' = NoException
    /\ UNCHANGED <<config, call, open, lost, last, degraded>>

\* _execute_case: an answer, or the classified failure.  Only the provider's
\* completions may be empty.
RecordCase ==
    /\ ~Judging
    /\ \/ /\ pc = "answered"
          /\ \E text \in IF config.kind = "llm" THEN {"text", "blank"} ELSE {"text"} :
                record' = [record EXCEPT ![job.case] =
                              [NoRecord EXCEPT !.result = "executed", !.output = text]]
       \/ /\ pc = "raised"
          /\ record' = [record EXCEPT ![job.case] =
                            [NoRecord EXCEPT !.result    = "error",
                                             !.category  = Classify(exc),
                                             !.retryable = Classify(exc) \in RetryableCategories,
                                             !.attempts  = exc.attempts]]
    /\ CallDone
    /\ UNCHANGED <<verdict, heard>>

PassUnlessDenied(answer) ==
    IF answer = "unusable" THEN "passed" ELSE answer

\* parse_judge_output: a verdict, or JudgeOutputError; a provider error is a
\* GuardrailExecutionError.  _execute_one turns both into an error verdict.
JudgeVerdicts(answer) ==
    IF answer = "unusable" THEN "error" ELSE answer

RecordVerdict ==
    /\ Judging
    /\ \/ /\ pc = "answered"
          /\ \E answer \in {"passed", "failed", "unusable"} :
                /\ verdict' = [verdict EXCEPT ![job.case][job.guardrail] = JudgeVerdicts(answer)]
                /\ heard' = IF answer = "passed" THEN heard \cup {job} ELSE heard
       \/ /\ pc = "raised"
          /\ verdict' = [verdict EXCEPT ![job.case][job.guardrail] = "error"]
          /\ UNCHANGED heard
    /\ CallDone
    /\ UNCHANGED record

-----------------------------------------------------------------------------
Next ==
    \/ Resolve \/ Close
    \/ \E c \in Cases : NextCase(c)
    \/ \E c \in Cases, g \in Guardrails : Inspect(c, g) \/ AskJudge(c, g)
    \/ CheckDestination \/ SendFails \/ Redirect \/ Read
    \/ \E s \in Statuses : SendRefused(s) \/ SendAnswered(s)
    \/ Post \/ Ask \/ Retry
    \/ RecordCase \/ RecordVerdict

Spec == Init /\ [][Next]_vars

\* Every wait has a timeout and every sleep an end: the coroutine goes on.
FairSpec == Spec /\ WF_vars(Next)

-----------------------------------------------------------------------------
Exceptions ==
    [class : ProviderErrors \cup {"none", "other", "ApplicationInvocationError"},
     category : Categories \cup {"none"}, code : Statuses \cup {0},
     timedOut : BOOLEAN, attempts : Nat]
Records ==
    [result : {"none", "executed", "error"}, output : {"none", "text", "blank"},
     category : Categories \cup {"none"}, retryable : BOOLEAN, attempts : Nat]

TypeOK ==
    /\ config \in Configs
    /\ pc \in {"resolve", "next", "check", "send", "redirect", "read", "backoff",
               "answered", "raised", "closed"}
    /\ job \in [case : Cases \cup {0}, guardrail : Guardrails \cup {"none"}]
    /\ attempt \in Nat /\ hop \in 0..MaxRedirects
    /\ method \in {"POST", "GET"}
    /\ status \in Statuses \cup {0}
    /\ open \in Nat /\ lost \in Nat
    /\ exc \in Exceptions
    /\ record \in [Cases -> Records]
    /\ verdict \in [Cases -> [Guardrails -> {"none", "passed", "failed", "error"}]]
    /\ last \in [what : Whats, status : Statuses \cup {0}]
    /\ degraded \in BOOLEAN
    /\ heard \subseteq [case : Cases, guardrail : Judges]

\* The http target gives every connection back on redirects, reads and their
\* failures: what its pool is short of is exactly the error responses dropped
\* since it was built, and never more than it has (generic_http.py: _send
\* raises on an error status without closing the streamed response).
ConnectionsAccounted ==
    /\ open = lost + (IF pc \in {"redirect", "read"} THEN 1 ELSE 0)
    /\ open <= PoolSize

\* An application's failure is blamed on what the last attempt met, with the
\* number of attempts when it names one: no earlier attempt's error survives a
\* retry (invoke: last_error), no status is taken for another.
Explains(category) ==
    \/ category = "timeout" /\ last.what \in {"timeout", "no connection"}
    \/ category = "connection_error" /\ last.what \in {"unreachable", "garbled"}
    \/ category = "rate_limited" /\ last.status = 429
    \/ category = "authentication" /\ last.status \in {401, 403}
    \/ category \in {"application_http_error", "provider_unavailable"} /\ last.status >= 500
    \/ category = "application_response_invalid"
          /\ (last.what \in {"bad redirect", "too large", "garbled"} \/ last.status \in 400..499)
    \/ category = "malformed_response" /\ last.what = "garbled"
    \/ category = "unknown"
          /\ (last.what \in {"blocked", "cut", "bad delay"} \/ last.status \in 400..499)

BlamesTheLastAttempt ==
    pc = "raised" =>
        /\ Explains(Classify(exc))
        /\ exc.attempts # 0 => exc.attempts = attempt

\* Another attempt is made only after a failure the transport holds transient,
\* within the budget, and from the configured request, whatever the redirects
\* of the attempt before did to it.
CouldPass(t) ==
    \/ last.what \in {"timeout", "unreachable", "no connection"}
    \/ last.what = "status" /\ (last.status >= 500 \/ (t = "llm" /\ last.status = 429))
AsksAgainOnlyIfTransient ==
    [][attempt' > attempt /\ job' = job =>
          /\ CouldPass(Transport)
          /\ attempt' <= MaxAttempts[Transport]
          /\ method' = config.method /\ hop' = 0]_vars

\* The answer recorded for a case is one to its prompt: the request it answers
\* carried it, unless the configuration never sends it or a 301, 302 or 303
\* turned the POST into a GET.
PromptDelivered ==
    pc = "answered" /\ ~Judging /\ ~degraded =>
        Carries(method) \/ config.method = "GET" \/ config.template = "spaced"

\* judge.py: never a silent pass.  A judge's pass was said by the judge, about
\* an output there is.
NoSilentPass ==
    \A c \in Cases, g \in Judges :
        verdict[c][g] = "passed" => Job(c, g) \in heard /\ record[c].output = "text"

\* An execution that could be set up ends with a result for every case and a
\* verdict of every guardrail for every executed case, whatever the other side
\* does: no answer, redirect loop or empty pool keeps it busy for ever.
EveryCaseAnswered ==
    pc = "next" ~>
        /\ pc = "closed"
        /\ \A c \in Cases : record[c].result = "executed" => Unjudged(c) = {}
        /\ Unrecorded = {}

=============================================================================
