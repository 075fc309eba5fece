------------------------- MODULE OutboundCallsProofs -------------------------
(* Proofs about module OutboundCalls, for every number of cases, guardrails, *)
(* attempts, redirects and connections, and every set of statuses.           *)
EXTENDS OutboundCalls, TLAPS

-----------------------------------------------------------------------------
(* Type correctness.                                                       *)

LEMMA ConfigFields ==
    ASSUME TypeOK
    PROVE  /\ config.kind \in Transports /\ config.method \in {"POST", "GET"}
           /\ config.template \in {"exact", "spaced"}
           /\ Transport \in Transports
           /\ MaxAttempts[Transport] \in Nat \ {0}
<1>1. /\ config.kind \in Transports /\ config.method \in {"POST", "GET"}
      /\ config.template \in {"exact", "spaced"}
  BY DEF TypeOK, Configs
<1>2. Transport \in Transports
  BY <1>1 DEF Transport, TransportOf, Transports
<1>. QED BY <1>1, <1>2, OutboundAssumption

LEMMA ExceptionTypes ==
    ASSUME TypeOK
    PROVE  /\ NoException \in Exceptions /\ Unexpected \in Exceptions
           /\ TimedOut \in Exceptions /\ Unreachable \in Exceptions
           /\ \A s \in Statuses : ServerFailure(s) \in Exceptions
           /\ \A e \in ProviderErrors : Provider(e) \in Exceptions
<1>1. attempt \in Nat
  BY DEF TypeOK
<1>2. {"timeout", "connection_error", "application_http_error"} \subseteq Categories
  BY DEF Categories
<1>. QED
  BY <1>1, <1>2 DEF NoException, Unexpected, TimedOut, Unreachable, ServerFailure, Provider,
     Application, Exception, Exceptions

\* How a call fails: at once, or when no attempt is left.
LEMMA Throws ==
    ASSUME TypeOK, NEW e \in Exceptions, Throw(e)
    PROVE  pc' = "raised" /\ exc' \in Exceptions
BY DEF Throw

LEMMA TransientFailure ==
    ASSUME TypeOK, NEW e \in Exceptions, Transient(e)
    PROVE  /\ exc' = e /\ exc' \in Exceptions
           /\ pc' = "raised" \/ (pc' = "backoff" /\ attempt < MaxAttempts[Transport])
BY DEF Transient, Throw

LEMMA PermanentFailure ==
    ASSUME TypeOK, NEW category \in Categories \cup {"none"}, NEW s \in Statuses \cup {0},
           Permanent(category, s)
    PROVE  /\ pc' = "raised" /\ exc' \in Exceptions
           /\ exc' = IF Transport = "http" THEN Application(category, s, attempt)
                                           ELSE Application("none", s, 0)
<1>1. attempt \in Nat
  BY DEF TypeOK
<1>. QED BY <1>1 DEF Permanent, Throw, Application, Exception, Exceptions

LEMMA RefusalType == \A s \in Statuses : RefusalCategory(s) \in Categories
BY DEF RefusalCategory, Categories

LEMMA ClassifyType ==
    ASSUME NEW e \in Exceptions
    PROVE  Classify(e) \in Categories
<1>1. LegacyCategory(e) \in Categories
  BY DEF LegacyCategory, Categories
<1>2. \A c \in ProviderErrors : ProviderCategory[c] \in Categories
  BY DEF ProviderCategory, Categories, ProviderErrors
<1>3. "unknown" \in Categories
  BY DEF Categories
<1>. QED BY <1>1, <1>2, <1>3 DEF Classify

Pcs == {"resolve", "next", "check", "send", "redirect", "read", "backoff",
        "answered", "raised", "closed"}
Outcomes == [what : Whats, status : Statuses \cup {0}]

LEMMA SawType ==
    ASSUME NEW what \in Whats, NEW s \in Statuses \cup {0}, Saw(what, s)
    PROVE  last' \in Outcomes
BY DEF Saw, Outcome, Outcomes

\* What each step of a call does to the variables it changes.
LEMMA CheckType ==
    ASSUME TypeOK, CheckDestination
    PROVE  /\ pc' \in {"send", "raised"} /\ exc' \in Exceptions /\ last' \in Outcomes
           /\ UNCHANGED <<config, call, open, stored, lost, degraded, heard>>
<1>1. CASE pc' = "send" /\ UNCHANGED <<exc, last>>
  BY <1>1 DEF CheckDestination, TypeOK, Outcomes
<1>2. CASE Permanent("unknown", 0) /\ Saw("blocked", 0)
  <2>1. pc' = "raised" /\ exc' \in Exceptions
    BY <1>2, PermanentFailure DEF Categories
  <2>2. last' \in Outcomes
    BY <1>2 DEF Saw, Outcome, Outcomes, Whats
  <2>. QED BY <2>1, <2>2 DEF CheckDestination
<1>. QED BY <1>1, <1>2 DEF CheckDestination

LEMMA SendFailsType ==
    ASSUME TypeOK, SendFails
    PROVE  /\ pc' \in {"backoff", "raised"} /\ exc' \in Exceptions /\ last' \in Outcomes
           /\ UNCHANGED <<config, call, open, stored, lost, degraded, heard>>
<1>1. last' \in Outcomes
  <2>1. Saw("no connection", 0) \/ Saw("timeout", 0) \/ Saw("unreachable", 0) \/ Saw("cut", 0)
    BY DEF SendFails
  <2>. QED BY <2>1, SawType DEF Whats
<1>2. Transient(TimedOut) \/ Transient(Unreachable) \/ Throw(Unexpected)
  BY DEF SendFails
<1>3. pc' \in {"backoff", "raised"} /\ exc' \in Exceptions
  BY <1>2, ExceptionTypes, TransientFailure, Throws
<1>. QED BY <1>1, <1>3 DEF SendFails

LEMMA SendRefusedType ==
    ASSUME TypeOK, NEW s \in Statuses, SendRefused(s)
    PROVE  /\ pc' \in {"backoff", "raised"} /\ exc' \in Exceptions /\ last' \in Outcomes
           /\ status' \in Statuses \cup {0} /\ open' = open + 1 /\ lost' = lost + 1
           /\ UNCHANGED <<config, job, attempt, hop, method, stored, degraded, heard>>
<1>1. last' \in Outcomes
  BY DEF SendRefused, Saw, Outcome, Outcomes, Whats
<1>2. CASE Transient(ServerFailure(s))
  BY <1>1, <1>2, ExceptionTypes, TransientFailure DEF SendRefused
<1>3. CASE Permanent(RefusalCategory(s), s)
  <2>1. pc' = "raised" /\ exc' \in Exceptions
    BY <1>3, RefusalType, PermanentFailure
  <2>. QED BY <1>1, <2>1 DEF SendRefused
<1>. QED BY <1>2, <1>3 DEF SendRefused

LEMMA ReadType ==
    ASSUME TypeOK, Read
    PROVE  /\ pc' \in {"answered", "backoff", "raised"} /\ exc' \in Exceptions
           /\ last' \in Outcomes
           /\ UNCHANGED <<config, call, stored, lost, degraded, heard>>
<1>1. last' \in Outcomes
  <2>1. \/ Saw("answer", status) \/ Saw("timeout", 0) \/ Saw("cut", 0)
        \/ Saw("too large", 0) \/ Saw("garbled", 0)
    BY DEF Read
  <2>2. status \in Statuses \cup {0}
    BY DEF TypeOK
  <2>. QED BY <2>1, <2>2, SawType DEF Whats
<1>2. CASE pc' = "answered" /\ UNCHANGED exc
  BY <1>1, <1>2 DEF Read, TypeOK
<1>3. CASE Transient(TimedOut) \/ Throw(Unexpected)
  BY <1>1, <1>3, ExceptionTypes, TransientFailure, Throws DEF Read
<1>4. CASE \E category \in Categories : Permanent(category, 0)
  <2>1. pc' = "raised" /\ exc' \in Exceptions
    BY <1>4, PermanentFailure
  <2>. QED BY <1>1, <2>1 DEF Read
<1>. QED BY <1>2, <1>3, <1>4 DEF Read, Categories

LEMMA RedirectType ==
    ASSUME TypeOK, Redirect
    PROVE  /\ pc' \in {"check", "raised"} /\ exc' \in Exceptions /\ last' \in Outcomes
           /\ hop' \in 0..MaxRedirects /\ method' \in {"POST", "GET"} /\ degraded' \in BOOLEAN
           /\ UNCHANGED <<config, job, attempt, status, stored, lost, heard>>
<1>1. CASE Permanent("application_response_invalid", 0) /\ Saw("bad redirect", 0)
           /\ UNCHANGED <<hop, method, degraded>>
  <2>1. pc' = "raised" /\ exc' \in Exceptions
    BY <1>1, PermanentFailure DEF Categories
  <2>2. last' \in Outcomes
    BY <1>1 DEF Saw, Outcome, Outcomes, Whats
  <2>. QED BY <1>1, <2>1, <2>2 DEF Redirect, TypeOK
<1>2. CASE /\ hop < MaxRedirects /\ hop' = hop + 1
           /\ method' = IF status \in DegradingStatuses THEN "GET" ELSE method
           /\ degraded' = (degraded \/ status \notin {307, 308})
           /\ pc' = "check" /\ UNCHANGED <<exc, last>>
  <2>1. hop' \in 0..MaxRedirects
    BY <1>2, OutboundAssumption DEF TypeOK
  <2>. QED BY <1>2, <2>1 DEF Redirect, TypeOK, Outcomes
<1>. QED BY <1>1, <1>2 DEF Redirect

LEMMA PostType ==
    ASSUME TypeOK, Post
    PROVE  /\ pc' \in {"answered", "backoff", "raised"} /\ exc' \in Exceptions
           /\ last' \in Outcomes /\ status' \in Statuses \cup {0}
           /\ UNCHANGED <<config, job, attempt, hop, method, open, stored, lost, degraded, heard>>
<1>1. last' \in Outcomes /\ status' \in Statuses \cup {0}
  <2>1. CASE UNCHANGED status /\ (Saw("timeout", 0) \/ Saw("unreachable", 0))
    BY <2>1, SawType DEF Whats, TypeOK
  <2>2. CASE \E s \in Statuses : status' = s /\ \E what \in {"status", "answer", "garbled"} : Saw(what, s)
    BY <2>2, SawType DEF Whats
  <2>. QED BY <2>1, <2>2 DEF Post
<1>2. CASE Transient(TimedOut) \/ Transient(Unreachable)
           \/ \E s \in Statuses : Transient(ServerFailure(s))
  BY <1>1, <1>2, ExceptionTypes, TransientFailure DEF Post
<1>3. CASE \E s \in Statuses \cup {0} : Permanent("none", s)
  <2>1. pc' = "raised" /\ exc' \in Exceptions
    BY <1>3, PermanentFailure
  <2>. QED BY <1>1, <2>1 DEF Post
<1>4. CASE pc' = "answered" /\ UNCHANGED exc
  BY <1>1, <1>4 DEF Post, TypeOK
<1>. QED BY <1>2, <1>3, <1>4 DEF Post

LEMMA AskType ==
    ASSUME TypeOK, Ask
    PROVE  /\ pc' \in {"answered", "backoff", "raised"} /\ exc' \in Exceptions
           /\ last' \in Outcomes /\ status' \in Statuses \cup {0}
           /\ UNCHANGED <<config, job, attempt, hop, method, open, stored, lost, degraded, heard>>
<1>1. last' \in Outcomes /\ status' \in Statuses \cup {0}
  <2>1. CASE UNCHANGED status /\ (Saw("timeout", 0) \/ Saw("unreachable", 0))
    BY <2>1, SawType DEF Whats, TypeOK
  <2>2. CASE \E s \in Statuses : /\ status' = s
                               /\ \E what \in {"status", "bad delay", "answer", "garbled"} : Saw(what, s)
    BY <2>2, SawType DEF Whats
  <2>. QED BY <2>1, <2>2 DEF Ask, Deferred, BadDelay, Interpret, Parse
<1>2. \A s \in Statuses : ProviderErrorsFor(s) \subseteq ProviderErrors
  BY DEF ProviderErrorsFor, ProviderErrors
<1>3. {"LLMTimeoutError", "LLMConnectionError", "LLMResponseError"} \subseteq ProviderErrors
  BY DEF ProviderErrors
<1>4. CASE \E e \in ProviderErrors : Transient(Provider(e)) \/ Throw(Provider(e))
  BY <1>1, <1>4, ExceptionTypes, TransientFailure, Throws DEF Ask, Deferred, BadDelay, Interpret, Parse
<1>5. CASE pc' \in {"backoff", "answered"} /\ UNCHANGED exc
  BY <1>1, <1>5 DEF Ask, Deferred, BadDelay, Interpret, Parse, TypeOK
<1>6. CASE Throw(Unexpected)
  BY <1>1, <1>6, ExceptionTypes, Throws DEF Ask, Deferred, BadDelay, Interpret, Parse
<1>. QED BY <1>2, <1>3, <1>4, <1>5, <1>6 DEF Ask, Deferred, BadDelay, Interpret, Parse

\* A call under way has its case, a judge's call its guardrail; only the http
\* target checks destinations, follows redirects and streams.
CallInv ==
    /\ pc \in {"check", "send", "redirect", "read", "backoff", "answered", "raised"}
          => job.case \in Cases
    /\ Judging => job.case \in Cases /\ job.guardrail \in Judges
    /\ attempt = 0 => job = NoJob
    /\ pc \in {"check", "redirect", "read"} => Transport = "http"

\* In a step that reads or follows a response one connection is its own.
LEMMA HasConnection ==
    ASSUME TypeOK, ConnectionsAccounted, pc \in {"redirect", "read"}
    PROVE  open = lost + 1 /\ open - 1 = lost /\ open - 1 \in Nat
<1>1. lost \in Nat /\ open \in Nat
  BY DEF TypeOK
<1>2. open = lost + 1
  BY DEF ConnectionsAccounted
<1>. QED BY <1>1, <1>2

LEMMA InitTypeOK == Init => TypeOK /\ CallInv
<1>. SUFFICES ASSUME Init PROVE TypeOK /\ CallInv
  OBVIOUS
<1>1. job \in [case : Cases \cup {0}, guardrail : Guardrails \cup {"none"}]
  BY DEF Init, NoJob
<1>2. exc \in Exceptions
  BY DEF Init, NoException, Exception, Exceptions
<1>3. NoRecord \in Records
  BY DEF NoRecord, Records
<1>4. last \in [what : Whats, status : Statuses \cup {0}]
  BY DEF Init, Nothing, Outcome, Whats
<1>5. TypeOK
  <2>1. record \in [Cases -> Records]
    BY <1>3 DEF Init
  <2>2. hop \in 0..MaxRedirects
    BY OutboundAssumption DEF Init
  <2>. QED BY <1>1, <1>2, <1>4, <2>1, <2>2 DEF Init, TypeOK
<1>6. CallInv
  BY DEF Init, CallInv, Judging, NoJob
<1>. QED BY <1>5, <1>6

\* The first attempt of a call.
LEMMA BeginTypeOK ==
    ASSUME TypeOK, CallInv, NEW c \in Cases, NEW g \in Judges \cup {"none"},
           Begin(Job(c, g))
    PROVE  TypeOK' /\ CallInv'
<1>1. job' = Job(c, g) /\ job'.case = c /\ job'.guardrail = g
  BY DEF Begin, Job
<1>2. job' \in [case : Cases \cup {0}, guardrail : Guardrails \cup {"none"}]
  BY <1>1 DEF Job, Guardrails
<1>3. /\ attempt' = 1 /\ hop' = 0 /\ method' = config.method /\ degraded' = FALSE
      /\ pc' = FirstStep(TransportOf(Job(c, g)))
      /\ UNCHANGED <<config, status, open, exc, stored, lost, last, heard>>
  BY DEF Begin
<1>4. TypeOK'
  <2>1. pc' \in {"check", "send"} /\ attempt' \in Nat
    BY <1>3 DEF FirstStep
  <2>2. hop' \in 0..MaxRedirects /\ method' \in {"POST", "GET"}
    BY <1>3, ConfigFields, OutboundAssumption
  <2>. QED BY <1>2, <1>3, <2>1, <2>2 DEF TypeOK, stored
<1>5. Transport' = TransportOf(Job(c, g))
  BY <1>1, <1>3 DEF Transport, TransportOf
<1>6. CallInv'
  BY <1>1, <1>3, <1>5 DEF CallInv, FirstStep, Judging
<1>. QED BY <1>4, <1>6

\* A step of a call under way goes on with the same call.
LEMMA CallStepTypeOK ==
    ASSUME TypeOK, CallInv, ConnectionsAccounted,
           \/ CheckDestination \/ SendFails \/ Redirect \/ Read \/ Post \/ Ask
           \/ \E s \in Statuses : SendRefused(s) \/ SendAnswered(s)
    PROVE  TypeOK' /\ CallInv'
<1>1. /\ pc \in {"check", "send", "redirect", "read"}
      /\ UNCHANGED <<config, job, attempt>>
  BY DEF CheckDestination, SendFails, Redirect, Read, Post, Ask, Deferred, BadDelay, Interpret, Parse, SendRefused, SendAnswered, call
<1>t. Transport' = Transport
  BY <1>1 DEF Transport, TransportOf
<1>2. CASE CheckDestination
  BY <1>1, <1>t, <1>2, CheckType DEF TypeOK, CallInv, Judging, Outcomes, call, stored
<1>3. CASE SendFails
  BY <1>1, <1>t, <1>3, SendFailsType DEF TypeOK, CallInv, Judging, Outcomes, call, stored
<1>4. CASE Redirect
  <2>1. open' \in Nat
    BY <1>4, HasConnection DEF Redirect
  <2>2. TypeOK'
    BY <1>1, <1>4, <2>1, RedirectType DEF TypeOK, Outcomes, stored
  <2>3. CallInv'
    BY <1>1, <1>t, <1>4, RedirectType DEF Redirect, CallInv, Judging
  <2>. QED BY <2>2, <2>3
<1>5. CASE Read
  <2>1. open' \in Nat
    BY <1>5, HasConnection DEF Read
  <2>. QED BY <1>1, <1>t, <1>5, <2>1, ReadType DEF TypeOK, CallInv, Judging, Outcomes, call, stored
<1>6. CASE Post
  BY <1>1, <1>t, <1>6, PostType DEF TypeOK, CallInv, Judging, Outcomes, stored
<1>7. CASE Ask
  BY <1>1, <1>t, <1>7, AskType DEF TypeOK, CallInv, Judging, Outcomes, stored
<1>8. ASSUME NEW s \in Statuses, SendRefused(s) PROVE TypeOK' /\ CallInv'
  BY <1>1, <1>t, <1>8, SendRefusedType DEF TypeOK, CallInv, Judging, Outcomes, stored
<1>9. ASSUME NEW s \in Statuses, SendAnswered(s) PROVE TypeOK' /\ CallInv'
  <2>1. Transport = "http"
    BY <1>9 DEF SendAnswered
  <2>. QED BY <1>1, <1>t, <1>9, <2>1 DEF SendAnswered, TypeOK, CallInv, Judging, stored, history
<1>. QED BY <1>2, <1>3, <1>4, <1>5, <1>6, <1>7, <1>8, <1>9

LEMMA RetryTypeOK ==
    ASSUME TypeOK, CallInv, Retry
    PROVE  TypeOK' /\ CallInv'
<1>1. /\ pc = "backoff" /\ attempt' = attempt + 1 /\ hop' = 0 /\ method' = config.method
      /\ pc' = FirstStep(Transport) /\ degraded' = FALSE
      /\ UNCHANGED <<config, job, status, open, exc, stored, lost, last, heard>>
  BY DEF Retry
<1>2. TypeOK'
  <2>1. pc' \in {"check", "send"} /\ attempt' \in Nat
    BY <1>1 DEF FirstStep, TypeOK
  <2>2. hop' \in 0..MaxRedirects /\ method' \in {"POST", "GET"}
    BY <1>1, ConfigFields, OutboundAssumption
  <2>. QED BY <1>1, <2>1, <2>2 DEF TypeOK, stored
<1>3. Transport' = Transport
  BY <1>1 DEF Transport, TransportOf
<1>4. CallInv'
  BY <1>1, <1>3 DEF CallInv, FirstStep, Judging, TypeOK
<1>. QED BY <1>2, <1>4

\* A verdict of one guardrail of one case.
LEMMA VerdictType ==
    ASSUME TypeOK, NEW c \in Cases, NEW g \in Guardrails, NEW v \in {"passed", "failed", "error"},
           verdict' = [verdict EXCEPT ![c][g] = v]
    PROVE  /\ verdict' \in [Cases -> [Guardrails -> {"none", "passed", "failed", "error"}]]
           /\ \A d \in Cases, h \in Guardrails :
                 verdict'[d][h] = IF d = c /\ h = g THEN v ELSE verdict[d][h]
<1>1. [verdict[c] EXCEPT ![g] = v] \in [Guardrails -> {"none", "passed", "failed", "error"}]
  BY DEF TypeOK
<1>2. verdict' = [verdict EXCEPT ![c] = [verdict[c] EXCEPT ![g] = v]]
  OBVIOUS
<1>. QED BY <1>1, <1>2 DEF TypeOK

LEMMA GuardrailStepTypeOK ==
    ASSUME TypeOK, CallInv, NEW c \in Cases, NEW g \in Guardrails,
           Inspect(c, g) \/ AskJudge(c, g)
    PROVE  TypeOK' /\ CallInv'
<1>1. CASE /\ \E v \in {"passed", "failed", "error"} : verdict' = [verdict EXCEPT ![c][g] = v]
           /\ UNCHANGED <<config, pc, call, open, exc, record, lost, history>>
  <2>1. verdict' \in [Cases -> [Guardrails -> {"none", "passed", "failed", "error"}]]
    BY <1>1, VerdictType
  <2>2. TypeOK'
    BY <1>1, <2>1 DEF TypeOK, call, history
  <2>3. CallInv'
    BY <1>1 DEF CallInv, Judging, Transport, TransportOf, call
  <2>. QED BY <2>2, <2>3
<1>2. CASE g \in Judges /\ Begin(Job(c, g))
  BY <1>2, BeginTypeOK
<1>. QED BY <1>1, <1>2 DEF Inspect, InspectVerdicts, AskJudge, Unjudgeable

LEMMA ErrorRecord ==
    ASSUME NEW k \in Categories, NEW n \in Nat
    PROVE  [NoRecord EXCEPT !.result    = "error",
                            !.category  = k,
                            !.retryable = k \in RetryableCategories,
                            !.attempts  = n] \in Records
<1>1. ASSUME NEW b \in BOOLEAN
      PROVE  [NoRecord EXCEPT !.result = "error", !.category = k,
                              !.retryable = b, !.attempts = n] \in Records
  BY DEF NoRecord, Records
<1>2. (k \in RetryableCategories) \in BOOLEAN
  OBVIOUS
<1>. QED BY <1>1, <1>2

LEMMA RecordCaseTypeOK ==
    ASSUME TypeOK, CallInv, RecordCase
    PROVE  TypeOK' /\ CallInv'
<1>1. /\ pc' = "next" /\ exc' = NoException
      /\ UNCHANGED <<config, call, open, lost, last, degraded, verdict, heard>>
      /\ pc \in {"answered", "raised"}
  BY DEF RecordCase, CallDone
<1>2. record' \in [Cases -> Records]
  <2>1. CASE \E text \in {"text", "blank"} :
                record' = [record EXCEPT ![job.case] =
                              [NoRecord EXCEPT !.result = "executed", !.output = text]]
    <3>1. \A text \in {"text", "blank"} :
             [NoRecord EXCEPT !.result = "executed", !.output = text] \in Records
      BY DEF NoRecord, Records
    <3>. QED BY <2>1, <3>1 DEF TypeOK
  <2>2. CASE record' = [record EXCEPT ![job.case] =
                            [NoRecord EXCEPT !.result    = "error",
                                             !.category  = Classify(exc),
                                             !.retryable = Classify(exc) \in RetryableCategories,
                                             !.attempts  = exc.attempts]]
    <3>1. Classify(exc) \in Categories /\ exc.attempts \in Nat
      BY ClassifyType DEF TypeOK, Exceptions
    <3>2. [NoRecord EXCEPT !.result    = "error",
                           !.category  = Classify(exc),
                           !.retryable = Classify(exc) \in RetryableCategories,
                           !.attempts  = exc.attempts] \in Records
      BY <3>1, ErrorRecord
    <3>. QED BY <2>2, <3>2 DEF TypeOK
  <2>. QED BY <2>1, <2>2 DEF RecordCase
<1>3. TypeOK'
  BY <1>1, <1>2, ExceptionTypes DEF TypeOK, call
<1>4. CallInv'
  BY <1>1 DEF CallInv, Judging, Transport, TransportOf, call
<1>. QED BY <1>3, <1>4

LEMMA RecordVerdictTypeOK ==
    ASSUME TypeOK, CallInv, RecordVerdict
    PROVE  TypeOK' /\ CallInv'
<1>1. /\ pc' = "next" /\ exc' = NoException
      /\ UNCHANGED <<config, call, open, lost, last, degraded, record>>
  BY DEF RecordVerdict, CallDone
<1>2. job.case \in Cases /\ job.guardrail \in Judges /\ job.guardrail \in Guardrails
  BY DEF RecordVerdict, CallInv, Guardrails
<1>3. \E v \in {"passed", "failed", "error"} :
         verdict' = [verdict EXCEPT ![job.case][job.guardrail] = v]
  BY DEF RecordVerdict, JudgeVerdicts
<1>4. verdict' \in [Cases -> [Guardrails -> {"none", "passed", "failed", "error"}]]
  BY <1>2, <1>3, VerdictType
<1>5. job \in [case : Cases, guardrail : Judges]
  BY <1>2 DEF TypeOK
<1>6. heard' \subseteq [case : Cases, guardrail : Judges]
  BY <1>5 DEF RecordVerdict, TypeOK
<1>7. TypeOK'
  BY <1>1, <1>4, <1>6, ExceptionTypes DEF TypeOK, call
<1>8. CallInv'
  BY <1>1 DEF CallInv, Judging, Transport, TransportOf, call
<1>. QED BY <1>7, <1>8

\* The http target's connections, one step at a time.
LEMMA AccountedStep ==
    ASSUME TypeOK, ConnectionsAccounted, Next
    PROVE  ConnectionsAccounted'
<1>1. CASE \/ Resolve \/ Post \/ Ask \/ Retry \/ RecordCase \/ RecordVerdict
           \/ CheckDestination \/ SendFails
           \/ \E c \in Cases : NextCase(c)
           \/ \E c \in Cases, g \in Guardrails : Inspect(c, g) \/ AskJudge(c, g)
  <2>1. UNCHANGED <<open, lost>>
    BY <1>1 DEF Resolve, NextCase, Post, Ask, Deferred, BadDelay, Interpret, Parse, Retry, RecordCase, RecordVerdict, CallDone,
       CheckDestination, SendFails, Inspect, InspectVerdicts, AskJudge, Unjudgeable, Begin
  <2>2. pc' = pc \/ (pc \notin {"redirect", "read"} /\ pc' \notin {"redirect", "read"})
    <3>1. CASE CheckDestination \/ SendFails \/ Post \/ Ask
      BY <3>1, CheckType, SendFailsType, PostType, AskType
         DEF CheckDestination, SendFails, Post, Ask, Deferred, BadDelay, Interpret, Parse
    <3>2. CASE Resolve \/ (\E c \in Cases : NextCase(c)) \/ Retry \/ RecordCase \/ RecordVerdict
      BY <3>2 DEF Resolve, NextCase, Retry, RecordCase, RecordVerdict, CallDone, Begin, FirstStep
    <3>3. CASE \E c \in Cases, g \in Guardrails : Inspect(c, g) \/ AskJudge(c, g)
      BY <3>3 DEF Inspect, InspectVerdicts, AskJudge, Unjudgeable, NextVerdict, Begin, FirstStep
    <3>. QED BY <1>1, <3>1, <3>2, <3>3
  <2>. QED BY <2>1, <2>2 DEF ConnectionsAccounted
<1>2. CASE Close
  BY <1>2, OutboundAssumption DEF Close, ConnectionsAccounted
<1>3. CASE Redirect
  <2>1. open' = lost /\ lost' = lost /\ open <= PoolSize /\ pc' \in {"check", "raised"}
    BY <1>3, HasConnection, RedirectType DEF Redirect, ConnectionsAccounted
  <2>2. open' <= PoolSize
    <3>1. lost \in Nat /\ open = lost + 1 /\ PoolSize \in Nat
      BY <1>3, HasConnection, OutboundAssumption DEF Redirect, TypeOK
    <3>. QED BY <2>1, <3>1
  <2>3. pc' \notin {"redirect", "read"} /\ lost' \in Nat
    BY <2>1 DEF TypeOK
  <2>. QED BY <2>1, <2>2, <2>3 DEF ConnectionsAccounted
<1>4. CASE Read
  <2>1. open' = lost /\ lost' = lost /\ open <= PoolSize
        /\ pc' \in {"answered", "backoff", "raised"}
    BY <1>4, HasConnection, ReadType DEF Read, ConnectionsAccounted
  <2>2. open' <= PoolSize
    <3>1. lost \in Nat /\ open = lost + 1 /\ PoolSize \in Nat
      BY <1>4, HasConnection, OutboundAssumption DEF Read, TypeOK
    <3>. QED BY <2>1, <3>1
  <2>3. pc' \notin {"redirect", "read"} /\ lost' \in Nat
    BY <2>1 DEF TypeOK
  <2>. QED BY <2>1, <2>2, <2>3 DEF ConnectionsAccounted
<1>5. ASSUME NEW s \in Statuses, SendRefused(s) PROVE ConnectionsAccounted'
  BY <1>5, SendRefusedType, OutboundAssumption DEF SendRefused, ConnectionsAccounted, TypeOK
<1>6. ASSUME NEW s \in Statuses, SendAnswered(s) PROVE ConnectionsAccounted'
  BY <1>6, OutboundAssumption DEF SendAnswered, ConnectionsAccounted, TypeOK
<1>. QED BY <1>1, <1>2, <1>3, <1>4, <1>5, <1>6 DEF Next

Typed == TypeOK /\ CallInv /\ ConnectionsAccounted

LEMMA TypedInvariant == Spec => []Typed
<1>1. Init => Typed
  BY InitTypeOK, OutboundAssumption DEF Init, Typed, ConnectionsAccounted
<1>2. Typed /\ [Next]_vars => Typed'
  <2>. SUFFICES ASSUME TypeOK, CallInv, ConnectionsAccounted, [Next]_vars
                PROVE  TypeOK' /\ CallInv' /\ ConnectionsAccounted'
    BY DEF Typed
  <2>1. CASE UNCHANGED vars
    <3>1. UNCHANGED <<config, pc, job, attempt, hop, method, status, open, exc, record,
                      verdict, lost, last, degraded, heard>>
      BY <2>1 DEF vars, call, stored, history
    <3>2. TypeOK'
      BY <3>1 DEF TypeOK
    <3>. QED BY <3>1, <3>2 DEF CallInv, ConnectionsAccounted, Judging, Transport, TransportOf
  <2>2. CASE Next
    <3>1. CASE Resolve \/ Close
      <4>1. TypeOK'
        BY <3>1 DEF Resolve, Close, TypeOK, call, stored, history
      <4>2. CallInv'
        BY <3>1 DEF Resolve, Close, CallInv, Judging, Transport, TransportOf, call
      <4>. QED BY <2>2, <4>1, <4>2, AccountedStep
    <3>2. CASE \E c \in Cases : NextCase(c)
      <4>1. PICK c \in Cases : Begin(Job(c, "none"))
        BY <3>2 DEF NextCase
      <4>. QED BY <2>2, <4>1, BeginTypeOK, AccountedStep
    <3>3. CASE \E c \in Cases, g \in Guardrails : Inspect(c, g) \/ AskJudge(c, g)
      BY <2>2, <3>3, GuardrailStepTypeOK, AccountedStep
    <3>4. CASE \/ CheckDestination \/ SendFails \/ Redirect \/ Read \/ Post \/ Ask
               \/ \E s \in Statuses : SendRefused(s) \/ SendAnswered(s)
      BY <2>2, <3>4, CallStepTypeOK, AccountedStep
    <3>5. CASE Retry \/ RecordCase \/ RecordVerdict
      BY <2>2, <3>5, RetryTypeOK, RecordCaseTypeOK, RecordVerdictTypeOK, AccountedStep
    <3>. QED BY <2>2, <3>1, <3>2, <3>3, <3>4, <3>5 DEF Next
  <2>. QED BY <2>1, <2>2
<1>. QED BY <1>1, <1>2, PTL DEF Spec

\* Every reachable state of an execution's calls is typed.
THEOREM TypeCorrect == Spec => []TypeOK
BY TypedInvariant, PTL DEF Typed

\* generic_http.py: redirects, reads and their failures give the connection
\* back; the pool is short of the dropped error responses and nothing else.
THEOREM ConnectionsAreAccounted == Spec => []ConnectionsAccounted
BY TypedInvariant, PTL DEF Typed

-----------------------------------------------------------------------------
(* The prompt.                                                             *)

\* An attempt that was not turned into a GET is still the configured POST.
Undegraded ==
    ~degraded /\ config.method = "POST" => method = "POST"

LEMMA UndegradedStep ==
    ASSUME TypeOK, Undegraded, [Next]_vars
    PROVE  Undegraded'
<1>1. CASE Redirect
  <2>1. DegradingStatuses \cap {307, 308} = {}
    BY DEF DegradingStatuses
  <2>. QED BY <1>1, <2>1 DEF Redirect, Undegraded, TypeOK
<1>2. CASE \E c \in Cases : NextCase(c)
  BY <1>2 DEF NextCase, Begin, Undegraded
<1>3. CASE \E c \in Cases, g \in Guardrails : Inspect(c, g) \/ AskJudge(c, g)
  BY <1>3 DEF Inspect, InspectVerdicts, AskJudge, Unjudgeable, Begin, Undegraded, call, history
<1>4. CASE Retry
  BY <1>4 DEF Retry, Undegraded
<1>5. CASE \/ Resolve \/ Close \/ CheckDestination \/ SendFails \/ Read \/ Post \/ Ask
           \/ RecordCase \/ RecordVerdict \/ UNCHANGED vars
           \/ \E s \in Statuses : SendRefused(s) \/ SendAnswered(s)
  <2>1. UNCHANGED <<config, method, degraded>>
    BY <1>5 DEF Resolve, Close, CheckDestination, SendFails, Read, Post, Ask, Deferred, BadDelay, Interpret, Parse, RecordCase,
       RecordVerdict, CallDone, SendRefused, SendAnswered, vars, call, history
  <2>. QED BY <2>1 DEF Undegraded
<1>. QED BY <1>1, <1>2, <1>3, <1>4, <1>5 DEF Next

\* generic_http.py: an answer that is recorded for a case is one to a request
\* that carried its prompt, or the configuration or a degrading redirect is why
\* it is not.
THEOREM PromptIsDelivered == Spec => []PromptDelivered
<1>1. Init => Undegraded
  BY DEF Init, Undegraded
<1>2. TypeOK /\ Undegraded /\ [Next]_vars => Undegraded'
  BY UndegradedStep
<1>3. TypeOK /\ Undegraded => PromptDelivered
  BY ConfigFields DEF Undegraded, PromptDelivered, Carries
<1>. QED BY <1>1, <1>2, <1>3, TypeCorrect, PTL DEF Spec

-----------------------------------------------------------------------------
(* Retries.                                                                *)

LEMMA OutcomeFields == \A what, s : Outcome(what, s).what = what /\ Outcome(what, s).status = s
BY DEF Outcome

\* A backoff follows a transient failure, with attempts left.
Waiting ==
    pc = "backoff" => CouldPass(Transport) /\ attempt < MaxAttempts[Transport]

LEMMA WaitingStep ==
    ASSUME TypeOK, CallInv, Waiting, [Next]_vars
    PROVE  Waiting'
<1>. SUFFICES ASSUME pc' = "backoff" PROVE Waiting'
  BY DEF Waiting
<1>h. Statuses \subseteq 100..599
  BY OutboundAssumption
<1>1. CASE \/ Resolve \/ Close \/ CheckDestination \/ Redirect \/ RecordCase \/ RecordVerdict
           \/ Retry \/ \E c \in Cases : NextCase(c)
           \/ \E s \in Statuses : SendAnswered(s)
  BY <1>1, CheckType, RedirectType DEF Resolve, Close, RecordCase, RecordVerdict,
     CallDone, Retry, FirstStep, NextCase, Begin, SendAnswered
<1>2. CASE \E c \in Cases, g \in Guardrails : Inspect(c, g) \/ AskJudge(c, g)
  BY <1>2 DEF Inspect, InspectVerdicts, AskJudge, Unjudgeable, NextVerdict, Begin, FirstStep
<1>3. CASE UNCHANGED vars
  BY <1>3 DEF vars, call, history, Waiting, CouldPass, Transport, TransportOf
<1>4. CASE SendFails \/ Read
  <2>1. UNCHANGED <<config, job, attempt>> /\ attempt < MaxAttempts[Transport]
    BY <1>4, SendFailsType, ReadType DEF call, SendFails, Read, Transient, Throw, Permanent
  <2>2. last' \in {Outcome("no connection", 0), Outcome("timeout", 0), Outcome("unreachable", 0)}
    BY <1>4 DEF SendFails, Read, Saw, Transient, Throw, Permanent
  <2>3. CouldPass(Transport)'
    <3>1. last'.what \in {"no connection", "timeout", "unreachable"}
      BY <2>2, OutcomeFields
    <3>. QED BY <3>1 DEF CouldPass
  <2>. QED BY <2>1, <2>3 DEF Waiting, Transport, TransportOf
<1>5. ASSUME NEW s \in Statuses, SendRefused(s) PROVE Waiting'
  <2>1. UNCHANGED <<config, job, attempt>>
    BY <1>5 DEF SendRefused
  <2>2. TransientFor("http", s) /\ attempt < MaxAttempts[Transport] /\ last' = Outcome("status", s)
    BY <1>5 DEF SendRefused, Transient, Throw, Permanent, Saw
  <2>3. s >= 500
    BY <2>2 DEF TransientFor
  <2>4. CouldPass(Transport)'
    <3>1. last'.what = "status" /\ last'.status >= 500
      BY <2>2, <2>3, OutcomeFields
    <3>. QED BY <3>1 DEF CouldPass
  <2>. QED BY <2>1, <2>2, <2>4 DEF Waiting, Transport, TransportOf
<1>6. CASE Post
  <2>1. UNCHANGED <<config, job, attempt>> /\ attempt < MaxAttempts[Transport]
    BY <1>6, PostType DEF Post, Transient, Throw, Permanent
  <2>2. \/ last' \in {Outcome("timeout", 0), Outcome("unreachable", 0)}
        \/ \E s \in Statuses : TransientFor("mlgpt", s) /\ last' = Outcome("status", s)
    BY <1>6 DEF Post, Saw, Transient, Throw, Permanent
  <2>3. \A s \in Statuses : TransientFor("mlgpt", s) => s >= 500
    BY DEF TransientFor
  <2>4. CouldPass(Transport)'
    <3>1. \/ last'.what \in {"timeout", "unreachable"}
          \/ last'.what = "status" /\ last'.status >= 500
      BY <2>2, <2>3, OutcomeFields
    <3>. QED BY <3>1 DEF CouldPass
  <2>. QED BY <2>1, <2>4 DEF Waiting, Transport, TransportOf
<1>7. CASE Ask
  <2>1. UNCHANGED <<config, job, attempt>> /\ Transport = "llm"
    BY <1>7 DEF Ask, Deferred, BadDelay, Interpret, Parse
  <2>2. attempt < MaxAttempts[Transport]
    BY <1>7, <2>1 DEF Ask, Deferred, BadDelay, Interpret, Parse, Transient, Throw
  <2>3. \/ last' \in {Outcome("timeout", 0), Outcome("unreachable", 0)}
        \/ \E s \in Statuses : TransientFor("llm", s) /\ last' = Outcome("status", s)
    BY <1>7 DEF Ask, Deferred, BadDelay, Interpret, Parse, Saw, Transient, Throw
  <2>4. \A s \in Statuses : TransientFor("llm", s) => s >= 500 \/ s = 429
    BY DEF TransientFor
  <2>5. Transport' = "llm"
    BY <2>1 DEF Transport, TransportOf
  <2>6. CouldPass(Transport)'
    <3>1. \/ last'.what \in {"timeout", "unreachable"}
          \/ last'.what = "status" /\ (last'.status >= 500 \/ last'.status = 429)
      BY <2>3, <2>4, OutcomeFields
    <3>. QED BY <2>5, <3>1 DEF CouldPass
  <2>. QED BY <2>1, <2>2, <2>5, <2>6 DEF Waiting
<1>. QED BY <1>1, <1>2, <1>3, <1>4, <1>5, <1>6, <1>7 DEF Next

LEMMA AgainStep ==
    ASSUME TypeOK, CallInv, Waiting, [Next]_vars, attempt' > attempt, job' = job
    PROVE  /\ CouldPass(Transport)
           /\ attempt' <= MaxAttempts[Transport]
           /\ method' = config.method /\ hop' = 0
<1>1. attempt \in Nat
  BY DEF TypeOK
<1>2. CASE Retry
  <2>1. attempt < MaxAttempts[Transport] /\ CouldPass(Transport) /\ attempt' = attempt + 1
    BY <1>2 DEF Retry, Waiting
  <2>2. MaxAttempts[Transport] \in Nat
    BY ConfigFields
  <2>3. attempt' <= MaxAttempts[Transport]
    BY <1>1, <2>1, <2>2
  <2>. QED BY <1>2, <2>1, <2>3 DEF Retry
<1>3. ASSUME NEW c \in Cases, NEW g \in Judges \cup {"none"}, Begin(Job(c, g)) PROVE FALSE
  <2>1. attempt' = 1 /\ job' = Job(c, g)
    BY <1>3 DEF Begin
  <2>2. attempt = 0
    BY <1>1, <2>1
  <2>3. job = NoJob
    BY <2>2 DEF CallInv
  <2>4. Job(c, g).case # NoJob.case
    BY OutboundAssumption DEF Job, NoJob, Cases
  <2>. QED BY <2>1, <2>3, <2>4
<1>4. CASE \E c \in Cases : NextCase(c)
  BY <1>3, <1>4 DEF NextCase
<1>5. CASE \E c \in Cases, g \in Guardrails : Inspect(c, g) \/ AskJudge(c, g)
  <2>1. CASE attempt' = attempt
    BY <1>1, <2>1
  <2>2. CASE \E c \in Cases, g \in Judges : Begin(Job(c, g))
    BY <1>3, <2>2
  <2>. QED BY <1>5, <2>1, <2>2 DEF Inspect, InspectVerdicts, AskJudge, Unjudgeable, call
<1>6. CASE \/ Resolve \/ Close \/ CheckDestination \/ SendFails \/ Redirect \/ Read \/ Post
           \/ Ask \/ RecordCase \/ RecordVerdict \/ UNCHANGED vars
           \/ \E s \in Statuses : SendRefused(s) \/ SendAnswered(s)
  <2>1. attempt' = attempt
    BY <1>6 DEF Resolve, Close, CheckDestination, SendFails, Redirect, Read, Post, Ask, Deferred, BadDelay, Interpret, Parse,
       RecordCase, RecordVerdict, CallDone, SendRefused, SendAnswered, vars, call
  <2>. QED BY <1>1, <2>1
<1>. QED BY <1>2, <1>4, <1>5, <1>6 DEF Next

LEMMA WaitingInvariant == Spec => []Waiting
<1>1. Init => Waiting
  BY DEF Init, Waiting
<1>2. Typed /\ Waiting /\ [Next]_vars => Waiting'
  BY WaitingStep DEF Typed
<1>. QED BY <1>1, <1>2, TypedInvariant, PTL DEF Spec

\* generic_http.py, http.py and llm/base.py: an attempt is repeated only after
\* a failure that could pass, within the budget, from the configured request.
THEOREM OnlyTransientIsRetried == Spec => AsksAgainOnlyIfTransient
<1>1. Typed /\ Waiting /\ [Next]_vars =>
         [attempt' > attempt /\ job' = job =>
          /\ CouldPass(Transport)
          /\ attempt' <= MaxAttempts[Transport]
          /\ method' = config.method /\ hop' = 0]_vars
  BY AgainStep DEF Typed
<1>. QED BY <1>1, TypedInvariant, WaitingInvariant, PTL DEF Spec, AsksAgainOnlyIfTransient

-----------------------------------------------------------------------------
(* Judges.                                                                 *)

\* What is recorded of a case: an executed case has its output, a case being
\* executed has no record yet, and one being judged has an output to judge.
Recorded ==
    /\ \A c \in Cases :
          /\ record[c].result = "executed" => record[c].output \in {"text", "blank"}
          /\ record[c].output = "text" => record[c].result = "executed"
    /\ pc \in {"check", "send", "redirect", "read", "backoff", "answered", "raised"} =>
          IF Judging THEN record[job.case].output = "text"
                     ELSE record[job.case].result = "none"

\* A step that leaves records, verdicts and the call alone.
LEMMA JudgedStays ==
    ASSUME TypeOK, CallInv, Recorded, NoSilentPass,
           UNCHANGED <<record, verdict, heard, job>>,
           \/ pc' \in {"next", "closed"}
           \/ pc \in {"check", "send", "redirect", "read", "backoff", "answered", "raised"}
    PROVE  Recorded' /\ NoSilentPass'
<1>1. Judging' <=> Judging
  BY DEF Judging
<1>2. Recorded'
  BY <1>1 DEF Recorded
<1>. QED BY <1>2 DEF NoSilentPass

LEMMA JobFields == \A c, g : Job(c, g).case = c /\ Job(c, g).guardrail = g
BY DEF Job

LEMMA RecordFields ==
    /\ NoRecord.result = "none" /\ NoRecord.output = "none"
    /\ \A text \in {"text", "blank"} :
          /\ [NoRecord EXCEPT !.result = "executed", !.output = text].result = "executed"
          /\ [NoRecord EXCEPT !.result = "executed", !.output = text].output = text
    /\ \A k, b, n :
          /\ [NoRecord EXCEPT !.result = "error", !.category = k, !.retryable = b,
                              !.attempts = n].result = "error"
          /\ [NoRecord EXCEPT !.result = "error", !.category = k, !.retryable = b,
                              !.attempts = n].output = "none"
BY DEF NoRecord

LEMMA CaseJudged ==
    ASSUME TypeOK, CallInv, Recorded, NoSilentPass, RecordCase
    PROVE  Recorded' /\ NoSilentPass'
<1>1. /\ pc' = "next" /\ verdict' = verdict /\ heard' = heard
      /\ ~Judging /\ pc \in {"answered", "raised"}
  BY DEF RecordCase, CallDone
<1>2. job.case \in Cases /\ record[job.case].result = "none"
  BY <1>1 DEF CallInv, Recorded
<1>3. \A c \in Cases : c # job.case => record'[c] = record[c]
  BY DEF RecordCase, TypeOK
<1>4. \/ record'[job.case].result = "executed" /\ record'[job.case].output \in {"text", "blank"}
      \/ record'[job.case].result = "error" /\ record'[job.case].output = "none"
  <2>0. record \in [Cases -> Records]
    BY DEF TypeOK
  <2>1. ASSUME NEW text \in {"text", "blank"},
               record' = [record EXCEPT ![job.case] =
                             [NoRecord EXCEPT !.result = "executed", !.output = text]]
        PROVE  record'[job.case].result = "executed" /\ record'[job.case].output = text
    BY <1>2, <2>0, <2>1, RecordFields
  <2>2. ASSUME NEW k, NEW b, NEW n,
               record' = [record EXCEPT ![job.case] =
                             [NoRecord EXCEPT !.result = "error", !.category = k,
                                              !.retryable = b, !.attempts = n]]
        PROVE  record'[job.case].result = "error" /\ record'[job.case].output = "none"
    BY <1>2, <2>0, <2>2, RecordFields
  <2>3. CASE record' = [record EXCEPT ![job.case] =
                            [NoRecord EXCEPT !.result    = "error",
                                             !.category  = Classify(exc),
                                             !.retryable = Classify(exc) \in RetryableCategories,
                                             !.attempts  = exc.attempts]]
    BY <2>2, <2>3
  <2>. QED BY <2>1, <2>3 DEF RecordCase
<1>5. Recorded'
  BY <1>1, <1>3, <1>4 DEF Recorded
<1>6. record[job.case].output # "text"
  BY <1>2 DEF Recorded
<1>. QED BY <1>1, <1>3, <1>5, <1>6 DEF NoSilentPass

LEMMA VerdictJudged ==
    ASSUME TypeOK, CallInv, Recorded, NoSilentPass, RecordVerdict
    PROVE  Recorded' /\ NoSilentPass'
<1>1. pc' = "next" /\ record' = record /\ Judging /\ pc \in {"answered", "raised"}
  BY DEF RecordVerdict, CallDone
<1>2. /\ job.case \in Cases /\ job.guardrail \in Judges /\ job.guardrail \in Guardrails
      /\ record[job.case].output = "text"
  BY <1>1 DEF CallInv, Guardrails, Recorded
<1>3. PICK v \in {"passed", "failed", "error"} :
         /\ verdict' = [verdict EXCEPT ![job.case][job.guardrail] = v]
         /\ v = "passed" => job \in heard'
  BY DEF RecordVerdict, JudgeVerdicts
<1>4. \A d \in Cases, h \in Guardrails :
         verdict'[d][h] = IF d = job.case /\ h = job.guardrail THEN v ELSE verdict[d][h]
  BY <1>2, <1>3, VerdictType
<1>5. heard \subseteq heard'
  BY DEF RecordVerdict
<1>6. job = Job(job.case, job.guardrail)
  BY DEF TypeOK, Job
<1>7. NoSilentPass'
  BY <1>1, <1>2, <1>3, <1>4, <1>5, <1>6 DEF NoSilentPass, Guardrails
<1>8. Recorded'
  BY <1>1 DEF Recorded
<1>. QED BY <1>7, <1>8

LEMMA GuardrailJudged ==
    ASSUME TypeOK, CallInv, Recorded, NoSilentPass, NEW c \in Cases, NEW g \in Guardrails,
           Inspect(c, g) \/ AskJudge(c, g)
    PROVE  Recorded' /\ NoSilentPass'
<1>1. pc = "next" /\ record' = record /\ heard' = heard
  BY DEF Inspect, InspectVerdicts, AskJudge, Unjudgeable, NextVerdict, Begin, stored, history
<1>2. CASE g \in Judges /\ Begin(Job(c, g)) /\ record[c].output # "blank"
  <2>1. record[c].output = "text"
    <3>1. record[c].result = "executed"
      BY DEF Inspect, InspectVerdicts, AskJudge, Unjudgeable, NextVerdict, ToJudge
    <3>. QED BY <1>2, <3>1 DEF Recorded
  <2>2. verdict' = verdict /\ job'.case = c /\ job'.guardrail = g
    BY <1>2, JobFields DEF Begin, stored
  <2>3. Judging'
    BY <1>2, <2>2, OutboundAssumption DEF Judging, Guardrails
  <2>4. Recorded'
    BY <1>1, <2>1, <2>2, <2>3 DEF Recorded
  <2>. QED BY <1>1, <2>2, <2>4 DEF NoSilentPass
<1>3. CASE /\ \E v \in {"passed", "failed", "error"} :
                 /\ verdict' = [verdict EXCEPT ![c][g] = v]
                 /\ g \in Judges => v = "error"
           /\ pc' = pc
  <2>1. PICK v \in {"passed", "failed", "error"} :
            /\ verdict' = [verdict EXCEPT ![c][g] = v]
            /\ g \in Judges => v = "error"
    BY <1>3
  <2>2. \A d \in Cases, h \in Guardrails :
           verdict'[d][h] = IF d = c /\ h = g THEN v ELSE verdict[d][h]
    BY <2>1, VerdictType
  <2>3. Recorded'
    BY <1>1, <1>3 DEF Recorded
  <2>. QED BY <1>1, <2>1, <2>2, <2>3 DEF NoSilentPass, Guardrails
<1>4. g \in Deterministic => g \notin Judges
  BY OutboundAssumption
<1>. QED BY <1>2, <1>3, <1>4 DEF Inspect, InspectVerdicts, AskJudge, Unjudgeable

LEMMA JudgedStep ==
    ASSUME TypeOK, CallInv, Recorded, NoSilentPass, [Next]_vars
    PROVE  Recorded' /\ NoSilentPass'
<1>1. CASE Resolve \/ Close
  <2>1. UNCHANGED <<record, verdict, heard, job>> /\ pc' \in {"next", "closed"}
    BY <1>1 DEF Resolve, Close, call, stored, history
  <2>. QED BY <2>1, JudgedStays
<1>2. CASE \E c \in Cases : NextCase(c)
  <2>1. PICK c \in Cases : NextCase(c)
    BY <1>2
  <2>2. record[c].result = "none" /\ UNCHANGED <<record, verdict, heard>> /\ job' = Job(c, "none")
    BY <2>1 DEF NextCase, Unrecorded, Begin, stored
  <2>3. job'.case = c /\ ~Judging'
    BY <2>2, JobFields DEF Judging
  <2>. QED BY <2>2, <2>3 DEF Recorded, NoSilentPass
<1>3. CASE \/ CheckDestination \/ SendFails \/ Redirect \/ Read \/ Post \/ Ask \/ Retry
           \/ \E s \in Statuses : SendRefused(s) \/ SendAnswered(s)
  <2>1. /\ UNCHANGED <<record, verdict, heard, job>>
        /\ pc \in {"check", "send", "redirect", "read", "backoff"}
    BY <1>3 DEF CheckDestination, SendFails, Redirect, Read, Post, Ask, Deferred, BadDelay, Interpret, Parse, Retry, SendRefused,
       SendAnswered, call, stored, history
  <2>. QED BY <2>1, JudgedStays
<1>4. CASE UNCHANGED vars
  BY <1>4 DEF vars, call, stored, history, Recorded, NoSilentPass, Judging
<1>. QED BY <1>1, <1>2, <1>3, <1>4, CaseJudged, VerdictJudged, GuardrailJudged DEF Next

\* judge.py: no verdict is a silent pass; a judge's pass was said by the judge,
\* about an output there is.
THEOREM NoPassIsSilent == Spec => []NoSilentPass
<1>1. Init => Recorded /\ NoSilentPass
  BY RecordFields DEF Init, Recorded, NoSilentPass, Guardrails
<1>2. Typed /\ Recorded /\ NoSilentPass /\ [Next]_vars => (Recorded /\ NoSilentPass)'
  BY JudgedStep DEF Typed
<1>. QED BY <1>1, <1>2, TypedInvariant, PTL DEF Spec

-----------------------------------------------------------------------------
(* Blame.                                                                  *)

\* How each exception is classified.
LEMMA ClassifyApplication ==
    ASSUME NEW k, NEW s, NEW n
    PROVE  /\ Application(k, s, n).attempts = n
           /\ k \in Categories => Classify(Application(k, s, n)) = k
           /\ k = "none" =>
                 Classify(Application(k, s, n)) =
                    IF s = 0        THEN "connection_error"
                    ELSE IF s = 429 THEN "rate_limited"
                    ELSE IF s >= 500 THEN "application_http_error"
                    ELSE IF s >= 400 THEN "application_response_invalid"
                    ELSE "unknown"
<1>. DEFINE e == Application(k, s, n)
<1>1. /\ e.class = "ApplicationInvocationError" /\ e.category = k /\ e.code = s
      /\ e.timedOut = FALSE /\ e.attempts = n
  BY DEF Application, Exception
<1>2. "none" \notin Categories
  BY DEF Categories
<1>. HIDE DEF e
<1>3. k \in Categories => Classify(e) = k
  BY <1>1 DEF Classify
<1>4. k = "none" => Classify(e) = LegacyCategory(e)
  BY <1>1, <1>2 DEF Classify
<1>5. LegacyCategory(e) = IF s = 0        THEN "connection_error"
                          ELSE IF s = 429 THEN "rate_limited"
                          ELSE IF s >= 500 THEN "application_http_error"
                          ELSE IF s >= 400 THEN "application_response_invalid"
                          ELSE "unknown"
  BY <1>1 DEF LegacyCategory
<1>. QED BY <1>1, <1>3, <1>4, <1>5 DEF e

LEMMA ClassifyProvider ==
    ASSUME NEW p \in ProviderErrors
    PROVE  Classify(Provider(p)) = ProviderCategory[p] /\ Provider(p).attempts = 0
<1>. DEFINE e == Provider(p)
<1>1. "ApplicationInvocationError" \notin ProviderErrors
  BY DEF ProviderErrors
<1>2. e.class = p /\ e.attempts = 0
  BY DEF Provider, Exception
<1>. HIDE DEF e
<1>3. Classify(e) = ProviderCategory[p]
  BY <1>1, <1>2 DEF Classify
<1>. QED BY <1>2, <1>3 DEF e

LEMMA ClassifyUnexpected == Classify(Unexpected) = "unknown" /\ Unexpected.attempts = 0
<1>. DEFINE e == Unexpected
<1>1. "other" \notin ProviderErrors
  BY DEF ProviderErrors
<1>2. e.class = "other" /\ e.attempts = 0
  BY DEF Unexpected, Exception
<1>. HIDE DEF e
<1>3. Classify(e) = "unknown"
  BY <1>1, <1>2 DEF Classify
<1>. QED BY <1>2, <1>3 DEF e

LEMMA ClassifyTimedOut == Classify(TimedOut) = "timeout" /\ TimedOut.attempts = attempt
<1>. DEFINE e == TimedOut
<1>1. "none" \notin Categories /\ "timeout" \in Categories
  BY DEF Categories
<1>2. /\ e.class = "ApplicationInvocationError" /\ e.category \in {"timeout", "none"}
      /\ e.code = 0 /\ e.timedOut = TRUE /\ e.attempts = attempt
  BY DEF TimedOut, Exception
<1>. HIDE DEF e
<1>3. Classify(e) = "timeout"
  BY <1>1, <1>2 DEF Classify, LegacyCategory
<1>. QED BY <1>2, <1>3 DEF e

LEMMA ClassifyUnreachable ==
    Classify(Unreachable) = "connection_error" /\ Unreachable.attempts = attempt
<1>1. "connection_error" \in Categories
  BY DEF Categories
<1>. QED BY <1>1, ClassifyApplication DEF Unreachable

LEMMA ClassifyServerFailure ==
    ASSUME NEW s \in Statuses, s >= 500
    PROVE  /\ Classify(ServerFailure(s)) = "application_http_error"
           /\ ServerFailure(s).attempts = attempt
<1>1. s \in Nat /\ "application_http_error" \in Categories
  BY OutboundAssumption DEF Categories
<1>. QED BY <1>1, ClassifyApplication DEF ServerFailure

\* A step that ends the call with an exception of category k.
LEMMA Blamed ==
    ASSUME NEW k, Classify(exc') = k, Explains(k)', attempt' = attempt,
           exc'.attempts # 0 => exc'.attempts = attempt
    PROVE  BlamesTheLastAttempt'
BY DEF BlamesTheLastAttempt, Classify, LegacyCategory

LEMMA SawFields ==
    ASSUME NEW what, NEW s, Saw(what, s)
    PROVE  last'.what = what /\ last'.status = s
BY OutcomeFields DEF Saw

LEMMA BlameTimeout ==
    ASSUME TypeOK, Transient(TimedOut), attempt' = attempt,
           NEW what \in {"timeout", "no connection"}, Saw(what, 0)
    PROVE  BlamesTheLastAttempt'
<1>1. exc' = TimedOut
  BY DEF Transient, Throw
<1>2. Explains("timeout")'
  BY SawFields DEF Explains
<1>. QED BY <1>1, <1>2, ClassifyTimedOut, Blamed

LEMMA BlameUnreachable ==
    ASSUME TypeOK, Transient(Unreachable), attempt' = attempt, Saw("unreachable", 0)
    PROVE  BlamesTheLastAttempt'
<1>1. exc' = Unreachable
  BY DEF Transient, Throw
<1>2. Explains("connection_error")'
  BY SawFields DEF Explains
<1>. QED BY <1>1, <1>2, ClassifyUnreachable, Blamed

LEMMA BlameServer ==
    ASSUME TypeOK, NEW s \in Statuses, s >= 500, Transient(ServerFailure(s)),
           attempt' = attempt, Saw("status", s)
    PROVE  BlamesTheLastAttempt'
<1>1. exc' = ServerFailure(s)
  BY DEF Transient, Throw
<1>2. Explains("application_http_error")'
  BY SawFields DEF Explains
<1>. QED BY <1>1, <1>2, ClassifyServerFailure, Blamed

LEMMA BlameUnexpected ==
    ASSUME TypeOK, Throw(Unexpected), attempt' = attempt,
           NEW what \in {"cut", "bad delay"}, NEW s, Saw(what, s)
    PROVE  BlamesTheLastAttempt'
<1>1. exc' = Unexpected
  BY DEF Throw
<1>2. Explains("unknown")'
  BY SawFields DEF Explains
<1>. QED BY <1>1, <1>2, ClassifyUnexpected, Blamed

\* A permanent failure of the http target, and of the reference target.
LEMMA BlamePermanent ==
    ASSUME TypeOK, Transport = "http", NEW k \in Categories, NEW s \in Statuses \cup {0},
           Permanent(k, s), attempt' = attempt, Explains(k)'
    PROVE  BlamesTheLastAttempt'
<1>1. exc' = Application(k, s, attempt)
  BY PermanentFailure
<1>. QED BY <1>1, ClassifyApplication, Blamed

LEMMA BlameReference ==
    ASSUME TypeOK, Transport # "http", NEW s \in 400..499 \cup {0}, Permanent("none", s),
           attempt' = attempt,
           IF s = 0 THEN last'.what = "garbled" ELSE last'.status = s
    PROVE  BlamesTheLastAttempt'
<1>1. exc' = Application("none", s, 0)
  BY DEF Permanent, Throw
<1>2. exc'.attempts = 0
  BY <1>1, ClassifyApplication
<1>3. CASE s = 0
  <2>1. Classify(exc') = "connection_error"
    BY <1>1, <1>3, ClassifyApplication
  <2>2. Explains("connection_error")'
    BY <1>3 DEF Explains
  <2>. QED BY <1>2, <2>1, <2>2, Blamed
<1>4. CASE s = 429
  <2>1. Classify(exc') = "rate_limited"
    BY <1>1, <1>4, ClassifyApplication
  <2>2. Explains("rate_limited")'
    BY <1>4 DEF Explains
  <2>. QED BY <1>2, <2>1, <2>2, Blamed
<1>5. CASE s \notin {0, 429}
  <2>1. Classify(exc') = "application_response_invalid"
    BY <1>1, <1>5, ClassifyApplication
  <2>2. last'.status \in 400..499
    BY <1>5
  <2>3. Explains("application_response_invalid")'
    BY <2>2 DEF Explains
  <2>. QED BY <1>2, <2>1, <2>3, Blamed
<1>. QED BY <1>3, <1>4, <1>5

\* The provider's own error for a status.
LEMMA BlameProvider ==
    ASSUME TypeOK, NEW e \in ProviderErrors, Throw(Provider(e)), attempt' = attempt,
           Explains(ProviderCategory[e])'
    PROVE  BlamesTheLastAttempt'
<1>1. exc' = Provider(e)
  BY DEF Throw
<1>. QED BY <1>1, ClassifyProvider, Blamed

LEMMA ProviderStatusExplained ==
    ASSUME NEW s \in Statuses, s >= 400, NEW e \in ProviderErrorsFor(s), last'.status = s
    PROVE  e \in ProviderErrors /\ Explains(ProviderCategory[e])'
<1>0. s \in 400..599
  BY OutboundAssumption
<1>1. /\ ProviderCategory["LLMRateLimitError"] = "rate_limited"
      /\ ProviderCategory["LLMServerError"] = "provider_unavailable"
      /\ ProviderCategory["LLMAuthenticationError"] = "authentication"
      /\ ProviderCategory["LLMRequestError"] = "unknown"
  BY DEF ProviderCategory, ProviderErrors
<1>2. CASE s = 429 /\ e = "LLMRateLimitError"
  <2>1. Explains("rate_limited")'
    BY <1>2 DEF Explains
  <2>2. e \in ProviderErrors
    BY <1>2 DEF ProviderErrors
  <2>. QED BY <1>1, <1>2, <2>1, <2>2
<1>3. CASE s >= 500 /\ e = "LLMServerError"
  BY <1>1, <1>3 DEF Explains, ProviderErrors
<1>4. CASE s \in {401, 403} /\ e = "LLMAuthenticationError"
  BY <1>1, <1>4 DEF Explains, ProviderErrors
<1>5. CASE s \in 400..499 /\ e = "LLMRequestError"
  BY <1>1, <1>5 DEF Explains, ProviderErrors
<1>. QED BY <1>0, <1>2, <1>3, <1>4, <1>5 DEF ProviderErrorsFor

LEMMA RefusalExplained ==
    ASSUME NEW s \in Statuses, s >= 400, last'.status = s
    PROVE  Explains(RefusalCategory(s))'
<1>0. s \in 400..599
  BY OutboundAssumption
<1>1. CASE s = 429
  BY <1>1 DEF RefusalCategory, Explains
<1>2. CASE s \in {401, 403}
  BY <1>2 DEF RefusalCategory, Explains
<1>3. CASE s >= 500
  BY <1>3 DEF RefusalCategory, Explains
<1>4. CASE s \in 400..499 \ {401, 403, 429}
  <2>1. RefusalCategory(s) = "application_response_invalid"
    BY <1>4 DEF RefusalCategory
  <2>2. last'.status \in 400..499
    BY <1>4
  <2>3. Explains("application_response_invalid")'
    BY <2>2 DEF Explains
  <2>. QED BY <2>1, <2>3
<1>. QED BY <1>0, <1>1, <1>2, <1>3, <1>4

LEMMA ExplainsKept ==
    ASSUME NEW k, last' = last
    PROVE  Explains(k)' <=> Explains(k)
BY SMT DEF Explains

LEMMA BlameStep ==
    ASSUME TypeOK, CallInv, BlamesTheLastAttempt, [Next]_vars
    PROVE  BlamesTheLastAttempt'
<1>. SUFFICES ASSUME pc' = "raised" PROVE BlamesTheLastAttempt'
  BY DEF BlamesTheLastAttempt
<1>h. Statuses \subseteq 100..599
  BY OutboundAssumption
<1>c. {"unknown", "application_response_invalid", "malformed_response"} \subseteq Categories
  BY DEF Categories
<1>z. 0 \in Statuses \cup {0} /\ 0 \in 400..499 \cup {0}
  OBVIOUS
<1>1. CASE \/ Resolve \/ Close \/ RecordCase \/ RecordVerdict \/ Retry
           \/ \E c \in Cases : NextCase(c)
           \/ \E s \in Statuses : SendAnswered(s)
  BY <1>1 DEF Resolve, Close, RecordCase, RecordVerdict, CallDone, Retry, FirstStep,
     NextCase, Begin, SendAnswered
<1>2. CASE \E c \in Cases, g \in Guardrails : Inspect(c, g) \/ AskJudge(c, g)
  BY <1>2 DEF Inspect, InspectVerdicts, AskJudge, Unjudgeable, NextVerdict, Begin, FirstStep
<1>3. CASE UNCHANGED vars
  <2>1. exc' = exc /\ last' = last /\ attempt' = attempt /\ pc' = pc
    BY <1>3 DEF vars, call, history
  <2>2. Explains(Classify(exc)) /\ (exc.attempts # 0 => exc.attempts = attempt)
    BY <2>1 DEF BlamesTheLastAttempt
  <2>3. \A k : Explains(k)' <=> Explains(k)
    BY <2>1, ExplainsKept
  <2>. QED BY <2>1, <2>2, <2>3 DEF BlamesTheLastAttempt
<1>4. CASE CheckDestination
  <2>1. Permanent("unknown", 0) /\ Saw("blocked", 0) /\ attempt' = attempt /\ Transport = "http"
    BY <1>4 DEF CheckDestination, call, CallInv
  <2>2. Explains("unknown")'
    BY <2>1, SawFields DEF Explains
  <2>. QED BY <1>c, <1>z, <2>1, <2>2, BlamePermanent
<1>5. CASE SendFails
  <2>1. attempt' = attempt
    BY <1>5 DEF SendFails, call
  <2>2. \/ Transient(TimedOut) /\ (Saw("no connection", 0) \/ Saw("timeout", 0))
        \/ Transient(Unreachable) /\ Saw("unreachable", 0)
        \/ Throw(Unexpected) /\ Saw("cut", 0)
    BY <1>5 DEF SendFails
  <2>. QED BY <2>1, <2>2, BlameTimeout, BlameUnreachable, BlameUnexpected
<1>6. ASSUME NEW s \in Statuses, SendRefused(s) PROVE BlamesTheLastAttempt'
  <2>1. attempt' = attempt /\ Saw("status", s) /\ Transport = "http" /\ s >= 400
    BY <1>6 DEF SendRefused
  <2>2. CASE TransientFor("http", s) /\ Transient(ServerFailure(s))
    <3>1. s >= 500
      BY <2>2 DEF TransientFor
    <3>. QED BY <2>1, <2>2, <3>1, BlameServer
  <2>3. CASE Permanent(RefusalCategory(s), s)
    <3>1. Explains(RefusalCategory(s))'
      BY <2>1, SawFields, RefusalExplained
    <3>2. RefusalCategory(s) \in Categories /\ s \in Statuses \cup {0}
      BY RefusalType
    <3>. QED BY <2>1, <2>3, <3>1, <3>2, BlamePermanent
  <2>. QED BY <1>6, <2>2, <2>3 DEF SendRefused
<1>7. CASE Redirect
  <2>1. /\ Permanent("application_response_invalid", 0) /\ Saw("bad redirect", 0)
        /\ attempt' = attempt /\ Transport = "http"
    BY <1>7 DEF Redirect, CallInv
  <2>2. Explains("application_response_invalid")'
    BY <2>1, SawFields DEF Explains
  <2>. QED BY <1>c, <1>z, <2>1, <2>2, BlamePermanent
<1>8. CASE Read
  <2>1. attempt' = attempt /\ Transport = "http"
    BY <1>8 DEF Read, call, CallInv
  <2>2. \/ Transient(TimedOut) /\ Saw("timeout", 0)
        \/ Throw(Unexpected) /\ Saw("cut", 0)
        \/ Permanent("application_response_invalid", 0) /\ (Saw("too large", 0) \/ Saw("garbled", 0))
        \/ Permanent("malformed_response", 0) /\ Saw("garbled", 0)
    BY <1>8 DEF Read
  <2>3. CASE Transient(TimedOut) /\ Saw("timeout", 0)
    BY <2>1, <2>3, BlameTimeout
  <2>4. CASE Throw(Unexpected) /\ Saw("cut", 0)
    BY <2>1, <2>4, BlameUnexpected
  <2>5. CASE Permanent("application_response_invalid", 0) /\ (Saw("too large", 0) \/ Saw("garbled", 0))
    <3>a. last'.what \in {"too large", "garbled"}
      BY <2>5, SawFields
    <3>1. Explains("application_response_invalid")'
      BY <3>a DEF Explains
    <3>. QED BY <1>c, <1>z, <2>1, <2>5, <3>1, BlamePermanent
  <2>6. CASE Permanent("malformed_response", 0) /\ Saw("garbled", 0)
    <3>1. Explains("malformed_response")'
      BY <2>6, SawFields DEF Explains
    <3>. QED BY <1>c, <1>z, <2>1, <2>6, <3>1, BlamePermanent
  <2>. QED BY <2>2, <2>3, <2>4, <2>5, <2>6
<1>9. CASE Post
  <2>1. attempt' = attempt /\ Transport # "http"
    BY <1>9 DEF Post
  <2>2. CASE \/ Transient(TimedOut) /\ Saw("timeout", 0)
             \/ Transient(Unreachable) /\ Saw("unreachable", 0)
    BY <2>1, <2>2, BlameTimeout, BlameUnreachable
  <2>3. ASSUME NEW s \in Statuses, TransientFor("mlgpt", s), Transient(ServerFailure(s)),
               Saw("status", s)
        PROVE  BlamesTheLastAttempt'
    <3>1. s >= 500
      BY <2>3 DEF TransientFor
    <3>. QED BY <2>1, <2>3, <3>1, BlameServer
  <2>4. ASSUME NEW s \in 400..499, Permanent("none", s), Saw("status", s)
        PROVE  BlamesTheLastAttempt'
    <3>1. last'.status = s /\ s # 0 /\ s \in 400..499 \cup {0}
      BY <2>4, SawFields
    <3>. QED BY <2>1, <2>4, <3>1, BlameReference
  <2>5. ASSUME NEW s, Permanent("none", 0), Saw("garbled", s)
        PROVE  BlamesTheLastAttempt'
    <3>1. last'.what = "garbled"
      BY <2>5, SawFields
    <3>. QED BY <1>z, <2>1, <2>5, <3>1, BlameReference
  <2>. QED BY <1>9, <2>2, <2>3, <2>4, <2>5 DEF Post
<1>10. CASE Ask
  <2>1. attempt' = attempt
    BY <1>10 DEF Ask, Deferred, BadDelay, Interpret, Parse
  <2>p. /\ {"LLMTimeoutError", "LLMConnectionError", "LLMResponseError"} \subseteq ProviderErrors
        /\ ProviderCategory["LLMTimeoutError"] = "timeout"
        /\ ProviderCategory["LLMConnectionError"] = "connection_error"
        /\ ProviderCategory["LLMResponseError"] = "malformed_response"
    BY DEF ProviderErrors, ProviderCategory
  <2>2. CASE Transient(Provider("LLMTimeoutError")) /\ Saw("timeout", 0)
    <3>1. Throw(Provider("LLMTimeoutError"))
      BY <2>2 DEF Transient
    <3>2. Explains("timeout")'
      BY <2>2, SawFields DEF Explains
    <3>. QED BY <2>1, <2>p, <3>1, <3>2, BlameProvider
  <2>3. CASE Transient(Provider("LLMConnectionError")) /\ Saw("unreachable", 0)
    <3>1. Throw(Provider("LLMConnectionError"))
      BY <2>3 DEF Transient
    <3>2. Explains("connection_error")'
      BY <2>3, SawFields DEF Explains
    <3>. QED BY <2>1, <2>p, <3>1, <3>2, BlameProvider
  <2>4. ASSUME NEW s \in Statuses, Throw(Unexpected), Saw("bad delay", s)
        PROVE  BlamesTheLastAttempt'
    BY <2>1, <2>4, BlameUnexpected
  <2>5. ASSUME NEW s \in Statuses, s >= 400, NEW e \in ProviderErrorsFor(s),
               Throw(Provider(e)), Saw("status", s)
        PROVE  BlamesTheLastAttempt'
    <3>1. e \in ProviderErrors /\ Explains(ProviderCategory[e])'
      BY <2>5, SawFields, ProviderStatusExplained
    <3>. QED BY <2>1, <2>5, <3>1, BlameProvider
  <2>6. ASSUME NEW s \in Statuses, Throw(Provider("LLMResponseError")), Saw("garbled", s)
        PROVE  BlamesTheLastAttempt'
    <3>1. Explains("malformed_response")'
      BY <2>6, SawFields DEF Explains
    <3>. QED BY <2>1, <2>p, <2>6, <3>1, BlameProvider
  <2>. QED BY <1>10, <2>2, <2>3, <2>4, <2>5, <2>6 DEF Ask, Deferred, BadDelay, Interpret, Parse
<1>. QED BY <1>1, <1>2, <1>3, <1>4, <1>5, <1>6, <1>7, <1>8, <1>9, <1>10 DEF Next

\* failures.py, classify_failure, with the retries of the three transports: a
\* failure is blamed on what the last attempt met, and counts that attempt.
THEOREM TheLastAttemptIsBlamed == Spec => []BlamesTheLastAttempt
<1>1. Init => BlamesTheLastAttempt
  BY DEF Init, BlamesTheLastAttempt
<1>2. Typed /\ BlamesTheLastAttempt /\ [Next]_vars => BlamesTheLastAttempt'
  BY BlameStep DEF Typed
<1>. QED BY <1>1, <1>2, TypedInvariant, PTL DEF Spec

=============================================================================
