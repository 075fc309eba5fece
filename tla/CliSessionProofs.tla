--------------------------- MODULE CliSessionProofs ---------------------------
(* Proofs about module CliSession, for every number of retries, polls and    *)
(* sample questions.                                                         *)
EXTENDS CliSession, SequenceTheorems, TLAPS

-----------------------------------------------------------------------------
(* The scripts.                                                            *)

Calls == {c \in [method : {"GET", "WRITE"},
                 op : {"show", "page", "kind", "create", "change", "test", "probe", "submit",
                       "poll", "compare"},
                 named : BOOLEAN] : c.op = "change" => c.method = "WRITE"}

\* What the proofs need of a script: it asks for something, polls last and then
\* for what it was not told by an argument, and goes on with a read after a
\* request that an argument could spoil, unless its answer is looked into.
IsScript(s) ==
    /\ s \in Seq(Calls) /\ Len(s) > 0
    /\ \A i \in 1..(Len(s) - 1) : s[i].op # "poll"
    /\ s[Len(s)].op = "poll" =>
          s[Len(s)].method = "GET" /\ \A i \in 1..Len(s) : ~s[i].named
    /\ \A i, k \in 1..Len(s) :
          i < k /\ s[i].named /\ s[i].op # "kind" => s[k].method = "GET"

LEMMA CallTypes ==
    /\ \A op \in {"show", "page", "kind", "poll", "compare"} :
          /\ Get(op) \in Calls /\ Get(op).op = op
          /\ Get(op).method = "GET" /\ ~Get(op).named
    /\ \A op \in {"create", "change", "test", "probe", "submit", "compare"} :
          Write(op) \in Calls /\ Write(op).op = op /\ ~Write(op).named
BY DEF Calls, Get, Write

LEMMA NamedCalls ==
    ASSUME NEW c \in Calls
    PROVE  /\ Named(c) \in Calls /\ Named(c).op = c.op /\ Named(c).method = c.method
           /\ Named(c).named
BY DEF Calls, Named

LEMMA Singles ==
    ASSUME NEW c \in Calls, c.op # "poll"
    PROVE  IsScript(<<c>>)
BY DEF IsScript

LEMMA Pairs ==
    /\ IsScript(<<Named(Get("show")), Named(Get("show"))>>)
    /\ IsScript(<<Named(Get("kind")), Named(Write("create"))>>)
    /\ IsScript(<<Write("submit"), Get("poll")>>)
BY CallTypes, NamedCalls DEF IsScript

\* Calls that are no polls and take no argument.
Steady == {c \in Calls : c.op # "poll" /\ ~c.named}

LEMMA QuickstartScripts ==
    ASSUME NEW credential \in {<< >>, <<Write("change")>>}, NEW n \in Nat
    PROVE  IsScript(Onboarding(credential, n))
<1>. DEFINE a == <<Write("create"), Write("create")>>
            b == <<Write("probe"), Write("create"), Write("create")>>
            c == [i \in 1..n |-> Write("create")]
            d == <<Write("submit"), Get("poll")>>
            front == a \o credential \o b \o c
<1>0. \A op \in {"create", "change", "probe", "submit"} : Write(op) \in Steady
  BY CallTypes DEF Steady
<1>1. a \in Seq(Steady) /\ b \in Seq(Steady)
  BY <1>0
<1>c. credential \in Seq(Steady)
  <2>1. << >> \in Seq(Steady)
    OBVIOUS
  <2>2. <<Write("change")>> \in Seq(Steady)
    BY <1>0
  <2>. QED BY <2>1, <2>2
<1>2. c \in Seq(Steady)
  BY <1>0
<1>3. front \in Seq(Steady)
  <2>. HIDE DEF a, b, c
  <2>. QED BY <1>1, <1>c, <1>2
<1>4. /\ d \in Seq(Calls) /\ Len(d) = 2
      /\ d[1] \in Steady /\ d[2].method = "GET" /\ ~d[2].named
  BY CallTypes DEF Steady
<1>5. IsScript(front \o d)
  <2>. HIDE DEF front, d
  <2>1. front \in Seq(Calls)
    BY <1>3 DEF Steady
  <2>2. front \o d \in Seq(Calls)
    BY <1>4, <2>1, ConcatProperties
  <2>3. Len(front) \in Nat
    BY <2>1, LenProperties
  <2>4. d \in Seq(Calls) /\ Len(d) = 2
    BY <1>4
  <2>5. Len(front \o d) = Len(front) + Len(d)
    BY <2>1, <2>4, ConcatProperties
  <2>6. Len(front \o d) = Len(front) + 2 /\ Len(front) \in Nat
    BY <2>3, <2>4, <2>5
  <2>7. \A i \in 1..(Len(front) + 1) : (front \o d)[i] \in Steady
    <3>1. \A i \in 1..Len(front) : (front \o d)[i] = front[i]
      BY <2>1, <2>3, <2>4, ConcatProperties
    <3>2. \A i \in 1..Len(front) : front[i] \in Steady
      BY <1>3, ElementOfSeq
    <3>3. (front \o d)[Len(front) + 1] = d[1]
      BY <2>1, <2>3, <2>4, ConcatProperties
    <3>4. \A m \in Nat : \A i \in 1..(m + 1) : i \in 1..m \/ i = m + 1
      OBVIOUS
    <3>5. \A i \in 1..(Len(front) + 1) : i \in 1..Len(front) \/ i = Len(front) + 1
      BY <2>3, <3>4
    <3>6. d[1] \in Steady
      BY <1>4
    <3>. QED BY ONLY <3>1, <3>2, <3>3, <3>5, <3>6
  <2>8. LET last == (front \o d)[Len(front) + 2]
        IN  last.method = "GET" /\ ~last.named
    BY <1>4, <2>1, <2>3, ConcatProperties
  <2>9. \A i \in 1..(Len(front) + 2) : ~(front \o d)[i].named
    <3>1. \A m \in Nat : \A i \in 1..(m + 2) : i \in 1..(m + 1) \/ i = m + 2
      OBVIOUS
    <3>. QED BY <2>3, <2>7, <2>8, <3>1 DEF Steady
  <2>. QED BY <2>2, <2>6, <2>7, <2>8, <2>9 DEF IsScript, Steady
<1>6. Onboarding(credential, n) = front \o d
  BY DEF Onboarding
<1>. QED BY <1>5, <1>6

LEMMA ScriptShape ==
    ASSUME NEW s \in Scripts
    PROVE  IsScript(s)
<1>1. CASE s \in Quickstart
  <2>1. PICK credential \in {<< >>, <<Write("change")>>}, n \in 1..MaxCases :
               s = Onboarding(credential, n)
    BY <1>1 DEF Quickstart
  <2>2. n \in Nat
    BY CliAssumption
  <2>. QED BY <2>1, <2>2, QuickstartScripts
<1>c. /\ \A op \in {"show", "page", "compare"} :
            IsScript(<<Get(op)>>) /\ IsScript(<<Named(Get(op))>>)
      /\ \A op \in {"create", "change", "test", "submit", "compare"} :
            IsScript(<<Write(op)>>) /\ IsScript(<<Named(Write(op))>>)
  BY CallTypes, NamedCalls, Singles
<1>2. CASE s \in AppVersion \cup EvalRun
  BY <1>2, <1>c, Pairs DEF AppVersion, EvalRun
<1>3. CASE s \in Scripts \ (Quickstart \cup AppVersion \cup EvalRun)
  BY <1>3, <1>c, Pairs DEF Scripts, Whoami, AppList, AppCreate, AppShow,
     AppDelete, AppTest, AppSecret, DatasetList, DatasetCreate, DatasetShow, DatasetAddCase,
     EvalList, EvalShow, EvalResults, EvalGuardrails, Reliability, RegressionRun,
     RegressionShow
<1>. QED BY <1>1, <1>2, <1>3

-----------------------------------------------------------------------------
(* Type correctness.                                                       *)

LEMMA Shape ==
    ASSUME TypeOK
    PROVE  /\ Len(script) \in Nat \ {0} /\ DOMAIN script = 1..Len(script)
           /\ at \in 1..Len(script) /\ Request \in Calls
           /\ Request.op = "poll" => at = Len(script) /\ Request.method = "GET"
           /\ Request.op = "poll" => \A i \in DOMAIN script : ~script[i].named
           /\ Request.op = "change" => Request.method = "WRITE"
           /\ \A i, k \in DOMAIN script :
                 i < k /\ script[i].named /\ script[i].op # "kind" => script[k].method = "GET"
<1>1. IsScript(script)
  BY ScriptShape DEF TypeOK
<1>2. Len(script) \in Nat \ {0} /\ DOMAIN script = 1..Len(script)
  BY <1>1, LenProperties DEF IsScript
<1>3. at \in 1..Len(script)
  BY <1>2 DEF TypeOK
<1>4. Request \in Calls
  BY <1>1, <1>3, ElementOfSeq DEF IsScript, Request
<1>5. Request.op = "poll" => at = Len(script) /\ Request.method = "GET"
  <2>1. ASSUME at # Len(script) PROVE script[at].op # "poll"
    <3>1. \A n \in Nat \ {0} : \A a \in 1..n : a # n => a \in 1..(n - 1)
      OBVIOUS
    <3>2. at \in 1..(Len(script) - 1)
      BY <1>2, <1>3, <2>1, <3>1
    <3>. QED BY <1>1, <3>2 DEF IsScript
  <2>. QED BY <1>1, <2>1 DEF Request, IsScript
<1>6. Request.op = "poll" => \A i \in DOMAIN script : ~script[i].named
  BY <1>1, <1>2, <1>5 DEF Request, IsScript
<1>7. Request.op = "change" => Request.method = "WRITE"
  BY <1>4 DEF Calls
<1>8. \A i, k \in DOMAIN script :
         i < k /\ script[i].named /\ script[i].op # "kind" => script[k].method = "GET"
  BY <1>1, <1>2 DEF IsScript
<1>. QED BY <1>2, <1>3, <1>4, <1>5, <1>6, <1>7, <1>8

\* What the commands' ways on do to the client's variables.
LEMMA ExitTypeOK ==
    ASSUME TypeOK, NEW code \in 0..8, Exit(code)
    PROVE  /\ at' = at /\ phase' = "exited" /\ attempts' = attempts /\ polls' = polls
           /\ exit' = code
BY DEF Exit

LEMMA RetryTypeOK ==
    ASSUME TypeOK, NEW code \in 0..8, RetryOr(code)
    PROVE  /\ at' = at /\ phase' \in {"send", "exited"} /\ attempts' = attempts
           /\ polls' = polls /\ exit' \in {exit, code}
BY DEF RetryOr, Exit

LEMMA NormalizeType ==
    ASSUME NEW code
    PROVE  Normalize(code) \in 1..5
BY DEF Normalize, ExitUsage, ExitError

LEMMA FinalCodeType ==
    ASSUME NEW r
    PROVE  FinalCode(r) \in {0, 7, 8}
BY DEF FinalCode, ExitOk, ExitQualityFailures, ExitExecutionErrors

LEMMA InitTypeOK == Init => TypeOK
<1>. SUFFICES ASSUME Init PROVE TypeOK
  OBVIOUS
<1>1. IsScript(script)
  BY ScriptShape DEF Init
<1>2. Len(script) \in Nat \ {0} /\ DOMAIN script = 1..Len(script)
  BY <1>1, LenProperties DEF IsScript
<1>3. at \in DOMAIN script
  BY <1>2 DEF Init
<1>4. NoRun \in Runs
  BY DEF NoRun, Run, Runs
<1>5. carried \in [DOMAIN script -> 0..2] /\ exit \in 0..8
  BY DEF Init, ExitOk
<1>. QED BY <1>3, <1>4, <1>5 DEF Init, TypeOK

\* Records of runs.
Statuses == {"none", "pending", "running", "completed", "scored", "failed", "cancelled"}

LEMMA RunFields ==
    /\ \A st \in Statuses, f \in BOOLEAN, e \in BOOLEAN :
          /\ Run(st, f, e) \in Runs
          /\ Run(st, f, e).status = st
          /\ Run(st, f, e).failed = f /\ Run(st, f, e).error = e
    /\ \A r \in Runs : r.status \in Statuses /\ r.failed \in BOOLEAN /\ r.error \in BOOLEAN
BY DEF Run, Runs, Statuses

LEMMA StatusUpdate ==
    ASSUME NEW r \in Runs, NEW st \in Statuses
    PROVE  /\ [r EXCEPT !.status = st] \in Runs
           /\ [r EXCEPT !.status = st].status = st
           /\ [r EXCEPT !.status = st].failed = r.failed
           /\ [r EXCEPT !.status = st].error = r.error
BY DEF Runs, Statuses

LEMMA CountsUpdate ==
    ASSUME NEW r \in Runs, NEW f \in BOOLEAN, NEW e \in BOOLEAN
    PROVE  /\ [r EXCEPT !.failed = f, !.error = e] \in Runs
           /\ [r EXCEPT !.failed = f, !.error = e].status = r.status
           /\ [r EXCEPT !.failed = f, !.error = e].failed = f
           /\ [r EXCEPT !.failed = f, !.error = e].error = e
BY DEF Runs

\* The worker's steps on a run.
LEMMA WorkOnRun ==
    ASSUME TypeOK, Work
    PROVE  /\ run' \in Runs
           /\ \/ /\ run.status \in {"pending", "running"}
                 /\ run'.status \in {"running", "failed", "cancelled"}
                 /\ run'.failed = run.failed /\ run'.error = run.error
              \/ /\ run.status = "running" /\ run'.status = "completed" /\ ~run'.failed
              \/ /\ run.status = "completed" /\ run'.status = "scored"
                 /\ run.error => run'.error
<1>1. run \in Runs
  BY DEF TypeOK
<1>2. CASE \/ run.status = "pending" /\ run' = [run EXCEPT !.status = "running"]
           \/ /\ run.status \in {"pending", "running"}
              /\ \E s \in {"failed", "cancelled"} : run' = [run EXCEPT !.status = s]
  <2>0. "running" \in Statuses /\ "failed" \in Statuses /\ "cancelled" \in Statuses /\ TRUE \in BOOLEAN
    BY DEF Statuses
  <2>1. PICK st \in {"running", "failed", "cancelled"} : run' = [run EXCEPT !.status = st]
    BY <1>2
  <2>2. st \in Statuses
    BY <2>0
  <2>3. run' \in Runs /\ run'.status = st /\ run'.failed = run.failed /\ run'.error = run.error
    BY <1>1, <2>1, <2>2, StatusUpdate
  <2>. QED BY <1>2, <2>3
<1>3. CASE run.status = "running" /\ \E e \in BOOLEAN : run' = Run("completed", FALSE, e)
  <2>1. PICK e \in BOOLEAN : run' = Run("completed", FALSE, e)
    BY <1>3
  <2>2. "completed" \in Statuses /\ FALSE \in BOOLEAN
    BY DEF Statuses
  <2>3. run' \in Runs /\ run'.status = "completed" /\ run'.failed = FALSE
    BY <2>1, <2>2, RunFields
  <2>. QED BY <1>3, <2>3
<1>4. CASE run.status = "completed"
           /\ \E f \in BOOLEAN, e \in {run.error, TRUE} : run' = Run("scored", f, e)
  <2>1. PICK f \in BOOLEAN, e \in {run.error, TRUE} : run' = Run("scored", f, e)
    BY <1>4
  <2>2. e \in BOOLEAN
    BY <1>1, RunFields
  <2>. QED BY <1>4, <2>1, <2>2, RunFields DEF Statuses
<1>. QED BY <1>2, <1>3, <1>4 DEF Work

LEMMA ApiTypeOK ==
    ASSUME TypeOK, Serve \/ Count \/ Work
    PROVE  TypeOK'
<1>1. UNCHANGED <<script, json, at, phase, attempts, polls, exit, blank>>
  BY DEF Serve, Count, Work, command, client
<1>2. reply' \in {0, 1, 200, 307, 500} \cup Refusals
  BY DEF Serve, Count, Work, TypeOK
<1>3. run' \in Runs
  <2>1. CASE Work
    BY <2>1, WorkOnRun
  <2>2. CASE Serve \/ Count
    <3>1. run' \in {run, Run("pending", FALSE, FALSE)}
      BY <2>2 DEF Serve, CarryOut, Count, api
    <3>2. "pending" \in Statuses /\ FALSE \in BOOLEAN
      BY DEF Statuses
    <3>3. Run("pending", FALSE, FALSE) \in Runs
      BY <3>2, RunFields
    <3>. QED BY <3>1, <3>3 DEF TypeOK
  <2>. QED BY <2>1, <2>2
<1>4. seen' \in Runs
  <2>1. StatusOf(run) \in Statuses
    BY RunFields DEF TypeOK, StatusOf, Statuses
  <2>2. \/ seen' = seen
        \/ seen' = [run EXCEPT !.status = StatusOf(run)]
        \/ seen' = [seen EXCEPT !.failed = run.failed, !.error = run.error]
    BY DEF Serve, Count, Work
  <2>3. seen \in Runs /\ run \in Runs
    BY DEF TypeOK
  <2>4. [run EXCEPT !.status = StatusOf(run)] \in Runs
    BY <2>1, <2>3, StatusUpdate
  <2>5. [seen EXCEPT !.failed = run.failed, !.error = run.error] \in Runs
    BY <2>3, RunFields, CountsUpdate
  <2>. QED BY <2>2, <2>3, <2>4, <2>5
<1>5. carried' \in [DOMAIN script -> 0..2]
  <2>1. CASE CarryOut
    <3>1. (IF carried[at] = 2 THEN 2 ELSE carried[at] + 1) \in 0..2
      BY DEF TypeOK
    <3>2. carried' = [carried EXCEPT ![at] = IF carried[at] = 2 THEN 2 ELSE carried[at] + 1]
      BY <2>1 DEF CarryOut
    <3>. QED BY <3>1, <3>2 DEF TypeOK
  <2>2. CASE carried' = carried
    BY <1>1, <2>2 DEF TypeOK
  <2>3. CarryOut \/ carried' = carried
    BY DEF Serve, Count, Work, api
  <2>4. script' = script
    BY <1>1
  <2>. QED BY <2>1, <2>2, <2>3
<1>6. flaw' \in BOOLEAN
  BY DEF Serve, CarryOut, Count, Work, api, TypeOK
<1>. QED BY <1>1, <1>2, <1>3, <1>4, <1>5, <1>6 DEF TypeOK

LEMMA ClientTypeOK ==
    ASSUME TypeOK, Client
    PROVE  TypeOK'
<1>1. UNCHANGED <<script, json, seen, api>> /\ reply' \in {0, reply}
  BY DEF Client, Send, TransportFails, Refused, Accept, Redirected, Poll, Polled, UsageFails,
         Interrupt, command
<1>b. blank' \subseteq DOMAIN script
  BY DEF Client, Send, TransportFails, Refused, Accept, Redirected, Poll, Polled, UsageFails,
         Interrupt, TypeOK
<1>2. /\ at' \in DOMAIN script
      /\ phase' \in {"send", "sent", "exited"}
      /\ attempts' \in Nat /\ polls' \in Nat
      /\ exit' \in 0..8
  <2>c. ExitOk = 0 /\ ExitError = 1 /\ ExitUsage = 2 /\ ExitConnection = 6
         /\ ExitQualityFailures = 7
    BY DEF ExitOk, ExitError, ExitUsage, ExitConnection, ExitQualityFailures
  <2>1. CASE Send
    BY <2>1 DEF Send, TypeOK
  <2>2. CASE TransportFails
    BY <2>2, <2>c, RetryTypeOK DEF TransportFails, TypeOK
  <2>3. CASE Refused
    <3>1. \E code \in 1..5 : RetryOr(code) \/ Exit(code)
      BY <2>3, NormalizeType DEF Refused
    <3>. QED BY <3>1, RetryTypeOK, ExitTypeOK DEF TypeOK
  <2>4. CASE Accept
    <3>1. CASE \E code \in {0, 1, 2, 7} : Exit(code)
      BY <3>1, ExitTypeOK DEF TypeOK
    <3>2. CASE /\ at < Len(script)
               /\ at' = at + 1 /\ phase' = "send" /\ attempts' = 0
               /\ UNCHANGED <<polls, exit>>
      BY <3>2, Shape DEF TypeOK
    <3>. QED BY <2>4, <2>c, <3>1, <3>2 DEF Accept
  <2>5. CASE Poll
    BY <2>5, <2>c DEF Poll, Exit, TypeOK
  <2>6. CASE Polled
    BY <2>6, <2>c, FinalCodeType DEF Polled, Exit, TypeOK
  <2>7. CASE UsageFails \/ Interrupt
    BY <2>7, <2>c DEF UsageFails, Interrupt, Exit, TypeOK
  <2>8. CASE Redirected
    <3>1. CASE \E code \in {0, 1} : Exit(code)
      BY <3>1, ExitTypeOK DEF TypeOK
    <3>2. CASE /\ at < Len(script)
               /\ at' = at + 1 /\ phase' = "send" /\ attempts' = 0
               /\ UNCHANGED <<polls, exit>>
      BY <3>2, Shape DEF TypeOK
    <3>. QED BY <2>8, <2>c, <3>1, <3>2 DEF Redirected
  <2>. QED BY <2>1, <2>2, <2>3, <2>4, <2>5, <2>6, <2>7, <2>8 DEF Client
<1>. QED BY <1>1, <1>b, <1>2 DEF TypeOK, api

\* Every reachable state of a command is typed.
THEOREM TypeCorrect == Spec => []TypeOK
<1>1. TypeOK /\ [Next]_vars => TypeOK'
  <2>1. TypeOK /\ UNCHANGED vars => TypeOK'
    BY DEF TypeOK, vars, command, client, api
  <2>. QED BY <2>1, ApiTypeOK, ClientTypeOK DEF Next
<1>. QED BY <1>1, InitTypeOK, PTL DEF Spec

-----------------------------------------------------------------------------
(* Requests in order, and writes once.                                     *)

\* The requests before the present one are carried out or were redirected, and
\* those after it are not; a write is carried out when its answer is on its
\* way, and no sooner.
Progress ==
    /\ \A i \in DOMAIN script :
          (i < at => carried[i] > 0 \/ i \in blank) /\ (i > at => carried[i] = 0)
    /\ \A i \in DOMAIN script : script[i].method = "WRITE" => carried[i] <= 1
    /\ reply \in {1, 200, 500} => carried[at] > 0
    /\ phase # "sent" => reply = 0
    /\ Request.method = "WRITE" /\ phase = "send" => carried[at] = 0
    /\ Request.method = "WRITE" /\ phase = "sent" /\ reply = 0 => carried[at] = 0

\* Redirected were requests with an argument up to the present one, and the
\* command goes on after none whose answer it takes apart.
Passed ==
    /\ \A i \in blank : /\ i < at \/ (i = at /\ Ended)
                        /\ script[i].named
                        /\ i < at => script[i].op # "kind"
    /\ reply = 307 => Request.named

\* A step that leaves what was carried out alone and stays at its request.
LEMMA ProgressStays ==
    ASSUME TypeOK, Progress, UNCHANGED <<script, at, carried, blank>>,
           reply' \in {0, reply},
           phase' # "sent" => reply' = 0,
           phase' = "send" => Request.method = "GET" \/ phase = "send",
           phase' = "sent" => (phase \in {"send", "sent"} /\ reply' = reply)
    PROVE  Progress'
BY DEF Progress, Request

LEMMA ProgressStep ==
    ASSUME TypeOK, Progress, [Next]_vars
    PROVE  Progress'
<1>s. /\ Len(script) \in Nat \ {0} /\ DOMAIN script = 1..Len(script)
      /\ at \in 1..Len(script) /\ Request \in Calls
  BY Shape
<1>m. Request.method \in {"GET", "WRITE"}
  BY <1>s DEF Calls
<1>1. CASE Serve
  <2>1. CASE CarryOut /\ reply' \in {1, 200, 500}
    <3>1. phase = "sent" /\ reply = 0 /\ UNCHANGED <<script, at, phase, blank>>
      BY <1>1 DEF Serve, command, client
    <3>2. carried' = [carried EXCEPT ![at] = IF carried[at] = 2 THEN 2 ELSE carried[at] + 1]
      BY <2>1 DEF CarryOut
    <3>3. carried[at] \in 0..2
      BY DEF TypeOK
    <3>4. carried'[at] > 0 /\ (carried[at] = 0 => carried'[at] = 1)
      BY <3>2, <3>3 DEF TypeOK
    <3>5. \A i \in DOMAIN script : i # at => carried'[i] = carried[i]
      BY <3>2 DEF TypeOK
    <3>6. Request.method = "WRITE" => carried'[at] <= 1
      BY <3>1, <3>4 DEF Progress
    <3>. QED BY <1>s, <2>1, <3>1, <3>4, <3>5, <3>6 DEF Progress, Request
  <2>2. CASE reply' \in Refusals \cup {307} /\ UNCHANGED api
    BY <1>1, <2>2 DEF Serve, command, client, api, Refusals, Progress, Request
  <2>. QED BY <1>1, <2>1, <2>2 DEF Serve
<1>2. CASE Count
  BY <1>2 DEF Count, command, client, api, Progress, Request
<1>3. CASE Work \/ UNCHANGED vars
  BY <1>3 DEF Work, vars, command, client, api, Progress, Request
<1>4. CASE Send
  BY <1>4, ProgressStays DEF Send, command, api, Progress
<1>5. CASE TransportFails \/ Refused
  <2>1. UNCHANGED <<script, at, carried, blank>> /\ reply' = 0
    BY <1>5 DEF TransportFails, Refused, RetryOr, Exit, command, api
  <2>2. phase' = "exited" \/ (phase' = "send" /\ Request.method = "GET")
    BY <1>5 DEF TransportFails, Refused, RetryOr, Exit, Retryable
  <2>. QED BY <2>1, <2>2, ProgressStays
<1>6. CASE Accept
  <2>0. UNCHANGED <<script, carried, blank>> /\ phase = "sent" /\ reply = 200 /\ reply' = 0
    BY <1>6 DEF Accept, command, api
  <2>1. CASE phase' = "exited" /\ at' = at
    BY <2>0, <2>1, ProgressStays
  <2>2. CASE at < Len(script) /\ at' = at + 1 /\ phase' = "send"
    <3>1. carried[at] > 0 /\ at' \in DOMAIN script
      BY <1>s, <2>0, <2>2 DEF Progress
    <3>2. \A i \in DOMAIN script : (i < at' => carried[i] > 0 \/ i \in blank)
                                   /\ (i > at' => carried[i] = 0)
      BY <1>s, <2>2, <3>1 DEF Progress
    <3>3. carried[at'] = 0
      BY <1>s, <2>2, <3>1 DEF Progress
    <3>. QED BY <2>0, <2>2, <3>2, <3>3 DEF Progress, Request
  <2>3. \/ phase' = "exited" /\ at' = at
        \/ at < Len(script) /\ at' = at + 1 /\ phase' = "send"
    BY <1>6 DEF Accept, Exit
  <2>. QED BY <2>1, <2>2, <2>3
<1>7. CASE Poll
  <2>1. /\ UNCHANGED <<script, at, carried, reply, blank>>
        /\ phase = "send" /\ phase' \in {"sent", "exited"}
    BY <1>7 DEF Poll, Exit, command, api
  <2>. QED BY <2>1, ProgressStays DEF Progress
<1>8. CASE Polled
  <2>1. /\ UNCHANGED <<script, at, carried, blank>>
        /\ reply' = 0 /\ phase' \in {"send", "exited"}
    BY <1>8 DEF Polled, Exit, command, api
  <2>2. Request.method = "GET"
    BY <1>8, Shape DEF Polled
  <2>. QED BY <2>1, <2>2, ProgressStays
<1>9. CASE UsageFails \/ Interrupt
  <2>1. /\ UNCHANGED <<script, at, carried, blank>>
        /\ reply' \in {0, reply} /\ phase' = "exited"
    BY <1>9 DEF UsageFails, Interrupt, Exit, command, api
  <2>2. reply' = 0
    BY <1>9, <2>1 DEF UsageFails, Interrupt, Progress
  <2>. QED BY <2>1, <2>2, ProgressStays
<1>10. CASE Redirected
  <2>0. /\ UNCHANGED <<script, carried>> /\ phase = "sent" /\ reply' = 0
        /\ blank' = blank \cup {at}
    BY <1>10 DEF Redirected, command, api
  <2>1. CASE phase' = "exited" /\ at' = at
    BY <2>0, <2>1 DEF Progress, Request
  <2>2. CASE at < Len(script) /\ at' = at + 1 /\ phase' = "send"
    <3>1. at' \in DOMAIN script
      BY <1>s, <2>2
    <3>2. \A i \in DOMAIN script : (i < at' => carried[i] > 0 \/ i \in blank')
                                   /\ (i > at' => carried[i] = 0)
      BY <1>s, <2>0, <2>2, <3>1 DEF Progress
    <3>3. carried[at'] = 0
      BY <1>s, <2>2, <3>1 DEF Progress
    <3>. QED BY <2>0, <2>2, <3>2, <3>3 DEF Progress, Request
  <2>3. \/ phase' = "exited" /\ at' = at
        \/ at < Len(script) /\ at' = at + 1 /\ phase' = "send"
    BY <1>10 DEF Redirected, Exit
  <2>. QED BY <2>1, <2>2, <2>3
<1>. QED BY <1>1, <1>2, <1>3, <1>4, <1>5, <1>6, <1>7, <1>8, <1>9, <1>10 DEF Next, Client

LEMMA PassedStep ==
    ASSUME TypeOK, Passed, [Next]_vars
    PROVE  Passed'
<1>s. Len(script) \in Nat /\ DOMAIN script = 1..Len(script) /\ at \in 1..Len(script)
  BY Shape
<1>b. blank \subseteq 1..Len(script)
  BY <1>s DEF TypeOK
<1>1. CASE Serve \/ Count
  <2>1. UNCHANGED <<script, at, phase, blank>> /\ (reply' = 307 => Request.named)
    BY <1>1 DEF Serve, Count, Refusals, command, client
  <2>. QED BY <2>1 DEF Passed, Ended, Request
<1>2. CASE Work \/ UNCHANGED vars
  BY <1>2 DEF Work, vars, command, client, Passed, Ended, Request
<1>3. CASE Redirected
  <2>1. /\ script' = script /\ reply' = 0 /\ blank' = blank \cup {at} /\ phase = "sent"
        /\ Request.named
    BY <1>3 DEF Redirected, command, Passed
  <2>2. \A i \in blank : i < at
    BY <2>1 DEF Passed, Ended
  <2>3. CASE at' = at /\ Ended'
    BY <1>b, <1>s, <2>1, <2>2, <2>3 DEF Passed, Request
  <2>4. CASE at' = at + 1 /\ Request.op # "kind"
    <3>1. \A i \in blank' : i < at' /\ script[i].named /\ script[i].op # "kind"
      BY <1>b, <1>s, <2>1, <2>2, <2>4 DEF Passed, Request
    <3>. QED BY <2>1, <3>1 DEF Passed
  <2>. QED BY <1>3, <2>3, <2>4 DEF Redirected, Exit, Ended
<1>4. CASE Client /\ ~Redirected
  <2>1. script' = script /\ blank' = blank
    BY <1>4 DEF Client, Send, TransportFails, Refused, Accept, Poll, Polled, UsageFails,
                Interrupt, command
  <2>2. ~Ended /\ reply' \in {0, reply}
    BY <1>4 DEF Client, Send, TransportFails, Refused, Accept, Poll, Polled, UsageFails,
                Interrupt, Ended
  <2>3. \A i \in blank : i < at /\ script[i].named /\ script[i].op # "kind"
    BY <2>2 DEF Passed
  <2>4. at' = at \/ (at' = at + 1 /\ reply' = 0)
    BY <1>4 DEF Client, Send, TransportFails, Refused, Accept, Poll, Polled, UsageFails,
                Interrupt, RetryOr, Exit
  <2>5. \A i \in blank : i < at'
    BY <1>b, <1>s, <2>3, <2>4
  <2>6. reply' = 307 => Request'.named
    BY <2>1, <2>2, <2>4 DEF Passed, Request
  <2>. QED BY <2>1, <2>3, <2>5, <2>6 DEF Passed
<1>. QED BY <1>1, <1>2, <1>3, <1>4 DEF Next, Client

LEMMA ProgressInvariant == Spec => [](Progress /\ Passed)
<1>1. Init => Progress
  <2>. SUFFICES ASSUME Init PROVE Progress
    OBVIOUS
  <2>1. TypeOK
    BY InitTypeOK
  <2>2. DOMAIN script = 1..Len(script) /\ Len(script) \in Nat \ {0} /\ at = 1
    BY <2>1, Shape DEF Init
  <2>3. \A i \in DOMAIN script : carried[i] = 0 /\ ~(i < at)
    BY <2>2 DEF Init
  <2>4. at \in DOMAIN script /\ reply = 0 /\ phase = "send"
    BY <2>1 DEF Init, TypeOK
  <2>. QED BY <2>3, <2>4 DEF Progress
<1>3. Init => Passed
  BY DEF Init, Passed
<1>2. TypeOK /\ Progress /\ Passed /\ [Next]_vars => (Progress /\ Passed)'
  BY ProgressStep, PassedStep
<1>. QED BY <1>3, <1>1, <1>2, TypeCorrect, PTL DEF Spec

\* client.py, never for writes: no write of a command is carried out twice or
\* before the ones ahead of it, whatever answers are lost and retries made.
THEOREM WritesAreSafe == Spec => []WritesOnceInOrder
<1>1. TypeOK /\ Progress /\ Passed => WritesOnceInOrder
  <2>. SUFFICES ASSUME TypeOK, Progress, Passed,
                       NEW i \in DOMAIN script, carried[i] > 0, NEW j \in 1..(i - 1)
                PROVE  carried[j] > 0 \/ (j \in blank /\ script[i].method = "GET")
    BY DEF WritesOnceInOrder, Progress
  <2>1. DOMAIN script = 1..Len(script) /\ Len(script) \in Nat /\ at \in Nat
    BY Shape
  <2>2. i <= at /\ j \in DOMAIN script /\ j < i /\ j < at
    BY <2>1 DEF Progress
  <2>3. j \in blank => script[i].method = "GET"
    BY <2>2, Shape DEF Passed
  <2>. QED BY <2>2, <2>3 DEF Progress
<1>. QED BY <1>1, TypeCorrect, ProgressInvariant, PTL

-----------------------------------------------------------------------------
(* The exit code.                                                          *)

\* A run that is completed and not scored has no failed case; what the poll
\* read of a run that has ended still holds of it.
Watched ==
    /\ run.status = "completed" => ~run.failed
    /\ Request.op = "poll" /\ reply \in {1, 200} /\ seen.status = "completed"
          => run.status \in {"completed", "scored"}
    /\ Request.op = "poll" /\ reply = 200 /\ seen.status = "completed"
          => (seen.failed => run.failed) /\ (seen.error => run.error)

\* The worker only adds to what a run that has ended shows.
LEMMA WorkAdds ==
    ASSUME TypeOK, Watched, Work
    PROVE  /\ run'.status = "completed" => ~run'.failed
           /\ run.status \in {"completed", "scored"} =>
                 /\ run'.status \in {"completed", "scored"}
                 /\ run.failed => run'.failed
                 /\ run.error => run'.error
BY WorkOnRun DEF Watched

\* The client's steps change neither the run nor what was read of it.
LEMMA WatchedByClient ==
    ASSUME TypeOK, Progress, Watched, Client
    PROVE  Watched'
<1>1. UNCHANGED <<script, run, seen>>
  BY DEF Client, Send, TransportFails, Refused, Accept, Redirected, Poll, Polled, UsageFails,
         Interrupt, command, api
<1>2. reply' = 0 \/ (reply' = reply /\ at' = at)
  BY DEF Client, Send, TransportFails, Refused, Accept, Redirected, Poll, Polled, UsageFails,
         Interrupt, Exit
<1>. QED BY <1>1, <1>2 DEF Watched, Request

LEMMA WatchedByApi ==
    ASSUME TypeOK, Watched, Serve \/ Count \/ Work
    PROVE  Watched'
<1>1. UNCHANGED <<script, at>>
  BY DEF Serve, Count, Work, command, client
<1>2. CASE Serve
  <2>1. CASE Request.op = "poll" /\ CarryOut /\ reply' = 1
             /\ seen' = [run EXCEPT !.status = StatusOf(run)]
    <3>1. run' = run /\ reply' = 1
      BY <2>1 DEF CarryOut
    <3>2. run \in Runs /\ StatusOf(run) \in Statuses
      BY RunFields DEF TypeOK, StatusOf, Statuses
    <3>3. seen'.status = StatusOf(run)
      BY <2>1, <3>2, StatusUpdate
    <3>4. StatusOf(run) = "completed" => run.status \in {"completed", "scored"}
      BY DEF StatusOf
    <3>. QED BY <1>1, <3>1, <3>3, <3>4 DEF Watched, Request
  <2>2. CASE Request.op # "poll" /\ CarryOut
    <3>1. run' = run \/ run' = Run("pending", FALSE, FALSE)
      BY <2>2 DEF CarryOut
    <3>2. run'.status = "completed" => ~run'.failed
      BY <3>1, RunFields DEF Watched, Statuses
    <3>. QED BY <1>1, <2>2, <3>2 DEF Watched, Request
  <2>3. CASE reply' \in Refusals \cup {307} /\ UNCHANGED <<seen, api>>
    BY <1>1, <2>3 DEF Watched, Request, Refusals, api
  <2>. QED BY <1>2, <2>1, <2>2, <2>3 DEF Serve
<1>3. CASE Count
  <2>1. run' = run /\ reply = 1 /\ reply' = 200
        /\ seen' = [seen EXCEPT !.failed = run.failed, !.error = run.error]
    BY <1>3 DEF Count, api
  <2>2. seen'.status = seen.status /\ seen'.failed = run.failed /\ seen'.error = run.error
    <3>1. seen \in Runs /\ run.failed \in BOOLEAN /\ run.error \in BOOLEAN
      BY RunFields DEF TypeOK
    <3>. QED BY <2>1, <3>1, CountsUpdate
  <2>. QED BY <1>1, <2>1, <2>2 DEF Watched, Request
<1>4. CASE Work
  <2>1. UNCHANGED <<reply, seen>>
    BY <1>4 DEF Work
  <2>. QED BY <1>1, <1>4, <2>1, WorkAdds DEF Watched, Request
<1>. QED BY <1>2, <1>3, <1>4

\* The codes a command can end with, and the steps that give them.
LEMMA ExitCodes ==
    ASSUME TypeOK, Client, phase' = "exited"
    PROVE  /\ UNCHANGED <<command, at, api>>
           /\ \/ exit' \in 1..6
              \/ Accept /\ at = Len(script) /\ (json \/ blank = {}) /\ exit' = ExitOk
              \/ Accept /\ Request.op = "compare" /\ flaw /\ exit' = ExitQualityFailures
              \/ Redirected /\ at = Len(script) /\ Indifferent /\ exit' = ExitOk
              \/ Polled /\ seen.status \in Terminal /\ exit' = FinalCode(seen)
           /\ ~Redirected => blank' = blank
<1>c. ExitOk = 0 /\ ExitError = 1 /\ ExitUsage = 2 /\ ExitConnection = 6
  BY DEF ExitOk, ExitError, ExitUsage, ExitConnection
<1>0. ~Redirected => blank' = blank
  BY DEF Client, Send, TransportFails, Refused, Accept, Poll, Polled, UsageFails, Interrupt
<1>l. ~(at < Len(script)) => at = Len(script)
  BY Shape
<1>1. UNCHANGED <<command, api>>
  BY DEF Client, Send, TransportFails, Refused, Accept, Redirected, Poll, Polled, UsageFails,
         Interrupt
<1>2. CASE TransportFails
  BY <1>c, <1>1, <1>2 DEF TransportFails, RetryOr, Exit
<1>3. CASE Refused
  <2>1. \E code \in 1..5 : RetryOr(code) \/ Exit(code)
    BY <1>3, NormalizeType DEF Refused
  <2>. QED BY <1>0, <1>1, <2>1 DEF RetryOr, Exit
<1>4. CASE Accept
  <2>1. \/ Exit(ExitError) \/ Exit(ExitUsage)
        \/ /\ ~(at < Len(script))
           /\ \/ Exit(ExitOk) /\ (json \/ blank = {})
              \/ Exit(ExitQualityFailures) /\ Request.op = "compare" /\ flaw
    BY <1>4 DEF Accept
  <2>. QED BY <1>c, <1>l, <1>0, <1>1, <1>4, <2>1 DEF Exit
<1>5. CASE Poll
  BY <1>c, <1>1, <1>5 DEF Poll, Exit
<1>6. CASE Polled
  BY <1>c, <1>1, <1>6 DEF Polled, Exit
<1>7. CASE UsageFails \/ Interrupt
  BY <1>c, <1>1, <1>7 DEF UsageFails, Interrupt, Exit
<1>8. CASE Send
  BY <1>8 DEF Send
<1>9. CASE Redirected
  <2>1. ~(at < Len(script)) \/ Request.op = "kind"
    BY <1>9 DEF Redirected
  <2>2. Exit(IF Indifferent THEN ExitOk ELSE ExitError)
    BY <1>9 DEF Redirected
  <2>3. Request.op = "kind" => ~Indifferent
    BY DEF Indifferent
  <2>. QED BY <1>c, <1>l, <1>1, <1>9, <2>1, <2>2, <2>3 DEF Exit
<1>. QED BY <1>0, <1>2, <1>3, <1>4, <1>5, <1>6, <1>7, <1>8, <1>9 DEF Client

LEMMA AllCarriedOut ==
    ASSUME TypeOK, Progress, at = Len(script), reply \in {200, 307}
    PROVE  \A i \in DOMAIN script : \/ carried[i] > 0 \/ i \in blank
                                    \/ i = at /\ reply = 307
<1>1. DOMAIN script = 1..Len(script) /\ Len(script) \in Nat
  BY Shape
<1>2. \A i \in 1..Len(script) : i = Len(script) \/ i < Len(script)
  BY <1>1
<1>. QED BY <1>1, <1>2 DEF Progress

LEMMA EarnedByClient ==
    ASSUME TypeOK, Progress, Passed, Watched, Client
    PROVE  ExitIsEarned'
<1>. SUFFICES ASSUME phase' = "exited" PROVE ExitIsEarned'
  BY DEF ExitIsEarned, Ended
<1>c. ExitOk = 0 /\ ExitQualityFailures = 7 /\ ExitExecutionErrors = 8
  BY DEF ExitOk, ExitQualityFailures, ExitExecutionErrors
<1>0. UNCHANGED <<script, json, at, carried, run, flaw>>
  BY ExitCodes DEF command, api
<1>1. CASE exit' \in 1..6
  BY <1>c, <1>1 DEF ExitIsEarned
<1>2. CASE Accept /\ at = Len(script) /\ (json \/ blank = {}) /\ exit' = ExitOk
  <2>0. blank' = blank
    BY <1>2 DEF Accept
  <2>1. \A i \in DOMAIN script : carried[i] > 0 \/ (i \in blank /\ script[i].named /\ json)
    BY <1>2, AllCarriedOut DEF Accept, Passed
  <2>. QED BY <1>c, <1>0, <1>2, <2>0, <2>1 DEF ExitIsEarned, Overlooked
<1>3. CASE Accept /\ Request.op = "compare" /\ flaw /\ exit' = ExitQualityFailures
  BY <1>c, <1>0, <1>3 DEF ExitIsEarned, Request
<1>4. CASE Polled /\ seen.status \in Terminal /\ exit' = FinalCode(seen)
  <2>1. reply = 200 /\ Request.op = "poll"
    BY <1>4 DEF Polled
  <2>2. \A i \in DOMAIN script : carried[i] > 0
    BY <2>1, Shape, AllCarriedOut DEF Passed
  <2>3. exit' = 7 => seen.status = "completed" /\ seen.failed
    BY <1>4 DEF FinalCode, ExitOk, ExitQualityFailures, ExitExecutionErrors
  <2>4. exit' = 8 => seen.status = "completed" /\ seen.error
    BY <1>4 DEF FinalCode, ExitOk, ExitQualityFailures, ExitExecutionErrors
  <2>5. exit' = 7 => run.status \in {"completed", "scored"} /\ run.failed
    BY <2>1, <2>3 DEF Watched
  <2>6. exit' = 8 => run.status \in {"completed", "scored"} /\ run.error
    BY <2>1, <2>4 DEF Watched
  <2>. QED BY <1>c, <1>0, <2>2, <2>5, <2>6 DEF ExitIsEarned
<1>5. CASE Redirected /\ at = Len(script) /\ Indifferent /\ exit' = ExitOk
  <2>1. reply = 307 /\ blank' = blank \cup {at}
    BY <1>5 DEF Redirected
  <2>2. \A i \in DOMAIN script : carried[i] > 0 \/ (i \in blank' /\ script[i].named)
    BY <1>5, <2>1, AllCarriedOut DEF Passed, Request
  <2>3. Request.op = "change" => \A i \in DOMAIN script : i \in blank => i = at
    BY Shape DEF Passed, Request
  <2>4. json \/ Request.op = "change"
    BY <1>5 DEF Indifferent
  <2>5. \A i \in DOMAIN script :
           carried[i] > 0 \/ (i \in blank' /\ script[i].named /\ (json \/ script[i].op = "change"))
    BY <2>1, <2>2, <2>3, <2>4 DEF Request
  <2>. QED BY <1>c, <1>0, <1>5, <2>5 DEF ExitIsEarned, Overlooked
<1>. QED BY <1>1, <1>2, <1>3, <1>4, <1>5, ExitCodes

LEMMA EarnedByApi ==
    ASSUME TypeOK, Watched, ExitIsEarned, Serve \/ Count \/ Work
    PROVE  ExitIsEarned'
<1>. SUFFICES ASSUME phase' = "exited" PROVE ExitIsEarned'
  BY DEF ExitIsEarned, Ended
<1>1. /\ phase = "exited" /\ Work
      /\ UNCHANGED <<script, json, at, exit, carried, flaw, blank>>
  BY DEF Serve, Count, Work, command, client
<1>2. run.status \in {"completed", "scored"} =>
         /\ run'.status \in {"completed", "scored"}
         /\ run.failed => run'.failed
         /\ run.error => run'.error
  BY <1>1, WorkAdds
<1>. QED BY <1>1, <1>2 DEF ExitIsEarned, Overlooked, Ended, Request

\* errors.py and main.py, _emit_final_run: the exit code CI acts on is earned,
\* whatever the run does while it is polled, but for the redirects that app
\* delete, app secret and JSON mode pass over.
THEOREM ExitCodesAreEarned == Spec => []ExitIsEarned
<1>1. Init => Watched /\ ExitIsEarned
  BY RunFields DEF Init, Watched, ExitIsEarned, Ended, NoRun, Statuses
<1>2. TypeOK /\ Progress /\ Passed /\ Watched /\ ExitIsEarned /\ [Next]_vars
         => (Watched /\ ExitIsEarned)'
  <2>. SUFFICES ASSUME TypeOK, Progress, Passed, Watched, ExitIsEarned, [Next]_vars
                PROVE  (Watched /\ ExitIsEarned)'
    OBVIOUS
  <2>1. CASE UNCHANGED vars
    BY <2>1 DEF vars, command, client, api, Watched, ExitIsEarned, Overlooked, Ended, Request
  <2>2. CASE Client
    BY <2>2, WatchedByClient, EarnedByClient
  <2>3. CASE Serve \/ Count \/ Work
    BY <2>3, WatchedByApi, EarnedByApi
  <2>. QED BY <2>1, <2>2, <2>3 DEF Next
<1>. QED BY <1>1, <1>2, TypeCorrect, ProgressInvariant, PTL DEF Spec

=============================================================================
