------------------------- MODULE EvalRunOnceProofs -------------------------
(***************************************************************************)
(* Theorems about module EvalRun when deliveries of the task follow one    *)
(* another: the broker never hands a message out while it is being         *)
(* executed (its visibility timeout is at least twice the hard time limit, *)
(* config.py).  Everything the code's comments say about one execution     *)
(* rests on that: the schema does not enforce it.                          *)
(***************************************************************************)
EXTENDS EvalRunProofs

\* No message is handed out while its task is executing; a publish that raises
\* has queued nothing.
NoTwin  == "twin" \notin FaultKinds
NoReply == "reply" \notin FaultKinds

-----------------------------------------------------------------------------
(* One execution at a time.                                                *)

\* At most one delivery is queued or executing, the first one appears when it
\* is published, and only its loop has cases left to execute.
Solo ==
    /\ \A d, e \in Deliveries : Live(d) /\ Live(e) => d = e
    /\ api \in {"idle", "created"} => \A d \in Deliveries : pc[d] = "absent"
    /\ \A d \in Deliveries : todo[d] # {} => pc[d] \in {"begin", "run"}

\* No delivery has a result for a case some delivery has left to execute.
TodoUnrecorded ==
    \A d, e \in Deliveries : \A c \in todo[d] : row[<<c, e>>] = "none"

\* A task that is about to write the run's status on what it knows of it is
\* right: the run is still active.
StatusKnown ==
    /\ api # "marking" \/ \A d \in Deliveries : pc[d] = "absent"
    /\ api = "idle" => status = "none"
    /\ api \in {"created", "marking"} => status = "pending"
    /\ \A d \in Deliveries :
          pc[d] \in {"cases", "begin", "run", "runfail", "runcancel", "mark"} =>
              status \in ActiveStatus

\* Where the delivery that judges and scores stands: the case results it has
\* gone past have all their verdicts.
JudgingKnown(d) ==
    /\ \A r \in Executed \ list[d] : r = cur[d] \/ Recorded(r) = Guardrails
    /\ cur[d] # NoRow => seen[d] \subseteq Recorded(cur[d])

ClassifyingKnown(d) ==
    /\ \A r \in Executed : Recorded(r) = Guardrails
    /\ \A r \in list[d] \cup {cur[d]} : r \in Rows => row[r] \in {"executed", "error"}
    /\ cur[d] # NoRow => seen[d] = Recorded(cur[d])
    /\ cur[d] \notin list[d]

ScoringKnown ==
    \A d \in Deliveries :
        /\ pc[d] \notin {"harness", "scoring"} => cur[d] = NoRow
        /\ pc[d] = "harness" => JudgingKnown(d)
        /\ pc[d] = "scoring" => ClassifyingKnown(d)

\* Only a delivery that is queued or executing takes a step of its own.
LEMMA OwnIsLive ==
    ASSUME NEW d \in Deliveries, Own(d)
    PROVE  Live(d)
BY DEF Own, Live, Executing, Guarded, TaskStep, Start, LoadStatus, Prepare, RaceGuard,
       LoadContext, LoadCases, BeginRun, ExecuteCase, InLoop, CompleteRun, RunnerMarks,
       ListForHarness, VisitCase, Judge, ListForScoring, ReadVerdicts, WriteScore,
       FinishScoring, RetryOrGiveUp, MarkRead, MarkWrite, WorkerLost, HardLimit,
       SoftLimit, DbError, PermanentError

\* A delivery's own step leaves the others alone.
LEMMA OwnIsLocal ==
    ASSUME TypeOK, NEW e \in Deliveries, Own(e), NEW d \in Deliveries \ {e}
    PROVE  Untouched(d)
<1>1. CASE TaskStep(e)
    BY <1>1, TaskStepIsLocal
<1>2. CASE WorkerLost(e) \/ HardLimit(e) \/ SoftLimit(e) \/ DbError(e) \/ PermanentError(e)
    BY <1>2
    DEF WorkerLost, HardLimit, SoftLimit, DbError, PermanentError, TypeOK, Untouched,
        Goto, Leave, Raise, ClearScratch, scratch
<1> QED BY <1>1, <1>2 DEF Own

\* The steps that are not some delivery's own.
LEMMA OtherSteps ==
    ASSUME NoTwin, TypeOK, [Next]_vars
    PROVE  \/ \E d \in Deliveries : Own(d)
           \/ /\ UNCHANGED <<path, exc, scratch>>
              /\ \/ UNCHANGED pc
                 \/ /\ api = "created" /\ api' \in {"done", "marking"}
                    /\ \E d \in Deliveries : Goto(d, "queued")
                 \/ /\ UNCHANGED api /\ \A d \in Deliveries : ~Live(d)
                    /\ \E d \in Deliveries : pc[d] = "done"
                    /\ \E d \in Deliveries : Goto(d, "queued")
              /\ api' \in {"idle", "created"} => api \in {"idle", "created"}
BY DEF NoTwin, Next, ApiStep, CreateRun, EnqueueRaises, ApiMarkFailed, Enqueue, ApiDies,
       ApiDbError, TaskFault, Redeliver, Own, vars, Fault, scratch

\* A delivery that leaves the loop forgets what it had left to execute.
LEMMA OwnTodo ==
    ASSUME TypeOK, NEW d \in Deliveries, Own(d),
           todo[d] # {} => pc[d] \in {"begin", "run"}
    PROVE  todo'[d] # {} => pc'[d] \in {"begin", "run"}
<1> USE DEF TypeOK, Goto, Leave, Raise, ClearScratch, Handler, scratch
<1>1. CASE TaskStep(d)
    BY <1>1
    DEF TaskStep, Start, LoadStatus, Prepare, RaceGuard, LoadContext, LoadCases, BeginRun,
        ExecuteCase, CompleteRun, InLoop, RunnerMarks, ListForHarness, VisitCase, Judge,
        ListForScoring, ReadVerdicts, WriteScore, FinishScoring, RetryOrGiveUp, MarkRead,
        MarkWrite
<1>2. CASE WorkerLost(d) \/ HardLimit(d) \/ SoftLimit(d) \/ DbError(d) \/ PermanentError(d)
    BY <1>2 DEF WorkerLost, HardLimit, SoftLimit, DbError, PermanentError
<1> QED BY <1>1, <1>2 DEF Own

\* The task never touches the submitting request.
LEMMA OwnKeepsApi ==
    ASSUME NEW d \in Deliveries, Own(d)
    PROVE  UNCHANGED api
BY DEF Own, TaskStep, Start, LoadStatus, Prepare, RaceGuard,
       LoadContext, LoadCases, BeginRun, ExecuteCase, CompleteRun, RunnerMarks,
       ListForHarness, VisitCase, Judge, ListForScoring, ReadVerdicts, WriteScore,
       FinishScoring, RetryOrGiveUp, MarkRead, MarkWrite, WorkerLost, HardLimit,
       SoftLimit, DbError, PermanentError

\* One execution at a time, preserved by every step.
LEMMA SoloStep ==
    ASSUME NoTwin, TypeOK, Solo, [Next]_vars
    PROVE  Solo'
<1>1. ASSUME NEW e \in Deliveries, Own(e) PROVE Solo'
    <2>1. \A d \in Deliveries : d # e => ~Live(d) /\ Untouched(d)
        BY <1>1, OwnIsLive, OwnIsLocal DEF Solo
    <2>2. \A d \in Deliveries : Live(d)' => d = e
        BY <2>1 DEF Live, Untouched
    <2>3. api' \notin {"idle", "created"}
        BY <1>1, OwnKeepsApi, OwnIsLive DEF Solo, Live
    <2>4. todo'[e] # {} => pc'[e] \in {"begin", "run"}
        BY <1>1, OwnTodo DEF Solo
    <2>5. \A d \in Deliveries : todo'[d] # {} => pc'[d] \in {"begin", "run"}
        BY <2>1, <2>4 DEF Untouched, Solo
    <2> QED BY <2>2, <2>3, <2>5 DEF Solo
<1>2. CASE /\ UNCHANGED <<path, exc, scratch>>
           /\ UNCHANGED pc
           /\ api' \in {"idle", "created"} => api \in {"idle", "created"}
    BY <1>2 DEF Solo, Live, scratch
<1>3. ASSUME NEW d \in Deliveries, \A e \in Deliveries : ~Live(e), Goto(d, "queued"),
             api' \notin {"idle", "created"}, UNCHANGED scratch
      PROVE  Solo'
    BY <1>3 DEF Solo, Live, Goto, TypeOK, scratch
<1>4. CASE /\ api = "created" /\ api' \in {"done", "marking"}
           /\ \E d \in Deliveries : Goto(d, "queued")
           /\ UNCHANGED scratch
    BY <1>3, <1>4 DEF Solo, Live
<1>5. CASE /\ UNCHANGED api /\ \A d \in Deliveries : ~Live(d)
           /\ \E d \in Deliveries : pc[d] = "done"
           /\ \E d \in Deliveries : Goto(d, "queued")
           /\ UNCHANGED scratch
    BY <1>3, <1>5 DEF Solo
<1> QED BY <1>1, <1>2, <1>4, <1>5, OtherSteps

\* A message is published for a delivery that is not live.
LEMMA QueuedWasIdle ==
    ASSUME NoTwin, TypeOK, Solo, [Next]_vars, NEW d \in Deliveries,
           ~Own(d), ~Untouched(d)
    PROVE  pc[d] \in {"absent", "done"}
<1>1. CASE \E e \in Deliveries : Own(e)
    BY <1>1, OwnIsLocal
<1>2. ASSUME UNCHANGED <<path, exc, scratch>>, pc'[d] = pc[d] PROVE FALSE
    BY <1>2 DEF Untouched, scratch
<1>3. CASE api = "created"
    BY <1>3 DEF Solo
<1>4. CASE \A e \in Deliveries : ~Live(e)
    BY <1>4 DEF Live
<1>5. CASE UNCHANGED pc /\ UNCHANGED <<path, exc, scratch>>
    BY <1>2, <1>5
<1> QED BY <1>1, <1>3, <1>4, <1>5, OtherSteps

\* Nothing runs before the run is created.
LEMMA SoloInit == Init => Solo
BY DEF Init, Solo, Live

-----------------------------------------------------------------------------
(* One result per (run, test case): runner.py, execution.py.               *)

\* No step gives a case a second result: a delivery inserts results only for
\* what it has left to execute, and no delivery has a result for that.
LEMMA OnceStep ==
    ASSUME TypeOK, Solo, Listed, TodoUnrecorded, OneResultPerCase, [Next]_vars
    PROVE  TodoUnrecorded' /\ OneResultPerCase'
<1>1. \A r \in Rows : row[r] # "none" => row'[r] # "none"
    BY ResultsPersist
<1>2. ASSUME NEW c \in Cases, NEW e \in Deliveries,
             row[<<c, e>>] = "none", row'[<<c, e>>] # "none"
      PROVE  /\ c \in todo[e] /\ c \notin todo'[e]
             /\ \A d \in Deliveries \ {e} : todo'[d] = {}
    <2>1. PICK d \in Deliveries :
             /\ ExecuteCase(d)
             /\ \E x \in todo[d] : /\ <<c, e>> = <<x, d>>
                                   /\ todo' = [todo EXCEPT ![d] = todo[d] \ {x}]
        <3>1. <<c, e>> \in Rows
            BY DEF Rows
        <3> QED BY <1>2, <3>1, InsertStep
    <2>2. d = e /\ c \in todo[e] /\ todo' = [todo EXCEPT ![e] = todo[e] \ {c}]
        BY <2>1
    <2>3. \A f \in Deliveries \ {e} : todo[f] = {}
        BY <2>2 DEF Solo, Live
    <2> QED BY <2>2, <2>3 DEF TypeOK
<1>3. TodoUnrecorded'
    <2> SUFFICES ASSUME NEW d \in Deliveries, NEW e \in Deliveries, NEW c \in todo'[d]
                 PROVE  row'[<<c, e>>] = "none"
        BY DEF TodoUnrecorded
    <2>1. c \in Cases
        BY TypeStep DEF TypeOK
    <2>2. row[<<c, e>>] = "none"
        <3>1. CASE LoadCases(d)
            BY <3>1, <2>1 DEF LoadCases, PendingCases, HasResult, TypeOK
        <3>2. CASE ExecuteCase(d)
            <4>1. PICK x \in todo[d] : todo' = [todo EXCEPT ![d] = todo[d] \ {x}]
                BY <3>2, ExecuteEffect
            <4>2. c \in todo[d]
                BY <4>1 DEF TypeOK
            <4> QED BY <4>2 DEF TodoUnrecorded
        <3>3. CASE todo'[d] \in {todo[d], {}}
            BY <3>3 DEF TodoUnrecorded
        <3> QED BY <3>1, <3>2, <3>3, TodoSteps
    <2> QED BY <1>2, <2>1, <2>2
<1>4. OneResultPerCase'
    <2> SUFFICES ASSUME NEW c \in Cases, NEW d \in Deliveries, NEW e \in Deliveries,
                        row'[<<c, d>>] # "none", row'[<<c, e>>] # "none", d # e
                 PROVE  FALSE
        BY DEF OneResultPerCase
    <2>1. CASE row[<<c, d>>] = "none" /\ row[<<c, e>>] # "none"
        BY <2>1, <1>2 DEF TodoUnrecorded
    <2>2. CASE row[<<c, d>>] # "none" /\ row[<<c, e>>] = "none"
        BY <2>2, <1>2 DEF TodoUnrecorded
    <2>3. CASE row[<<c, d>>] = "none" /\ row[<<c, e>>] = "none"
        <3>1. c \in todo[d] /\ c \in todo[e]
            BY <2>3, <1>2
        <3> QED BY <3>1 DEF Solo, Live
    <2>4. CASE row[<<c, d>>] # "none" /\ row[<<c, e>>] # "none"
        BY <2>4 DEF OneResultPerCase
    <2> QED BY <2>1, <2>2, <2>3, <2>4
<1> QED BY <1>3, <1>4

\* No case of a run has two results, however often its message is retried,
\* requeued after a crash or delivered again once its execution ended.
THEOREM OneResultPerCaseHolds ==
    ASSUME NoTwin
    PROVE  Spec => []OneResultPerCase
<1> DEFINE Inv == Solo /\ Listed /\ TodoUnrecorded /\ OneResultPerCase
<1>1. Init => Inv
    BY SoloInit DEF Init, Listed, TodoUnrecorded, OneResultPerCase, NoRow, Rows
<1>2. TypeOK /\ Inv /\ [Next]_vars => Inv'
    BY NoTwin, SoloStep, ListedStep, OnceStep
<1> QED BY <1>1, <1>2, TypeCorrect, PTL DEF Spec

-----------------------------------------------------------------------------
(* The state of a terminal run is authoritative: execution.py.             *)

\* Who writes the run's status.
LEMMA StatusWriters ==
    ASSUME [Next]_vars
    PROVE  \/ UNCHANGED status \/ CreateRun \/ ApiMarkFailed
           \/ \E d \in Deliveries :
                 BeginRun(d) \/ CompleteRun(d) \/ RunnerMarks(d) \/ MarkWrite(d)
BY DEF Next, ApiStep, TaskStep, TaskFault, vars, db, CreateRun, EnqueueRaises,
       ApiMarkFailed, ApiDies, ApiDbError, Enqueue, Start, LoadStatus, Prepare,
       RaceGuard, LoadContext, LoadCases, BeginRun, ExecuteCase, CompleteRun,
       RunnerMarks, ListForHarness, VisitCase, Judge, ListForScoring, ReadVerdicts,
       WriteScore, FinishScoring, RetryOrGiveUp, MarkRead, MarkWrite, WorkerLost,
       HardLimit, SoftLimit, DbError, PermanentError, Redeliver

\* Steps whose next write of the status assumes that the run is active.
Writing == {"cases", "begin", "run", "runfail", "runcancel", "mark"}

\* A task reaches a step that writes the status with the run active: the runner
\* and mark_run_failed_if_active look before.
LEMMA OwnStatus ==
    ASSUME TypeOK, NEW d \in Deliveries, Own(d),
           pc[d] \in Writing => status \in ActiveStatus, pc'[d] \in Writing
    PROVE  status' \in ActiveStatus
<1> USE DEF TypeOK, Writing, ActiveStatus, TerminalStatus, Goto, Leave, Raise, Handler, db
<1>1. CASE TaskStep(d)
    BY <1>1
    DEF TaskStep, Start, LoadStatus, Prepare, RaceGuard, LoadContext, LoadCases, BeginRun,
        ExecuteCase, CompleteRun, RunnerMarks, ListForHarness, VisitCase, Judge,
        ListForScoring, ReadVerdicts, WriteScore, FinishScoring, RetryOrGiveUp, MarkRead,
        MarkWrite
<1>2. CASE WorkerLost(d) \/ HardLimit(d) \/ SoftLimit(d) \/ DbError(d) \/ PermanentError(d)
    BY <1>2 DEF WorkerLost, HardLimit, SoftLimit, InLoop, DbError, PermanentError
<1> QED BY <1>1, <1>2 DEF Own

\* What the API request knows of the run it created.
LEMMA ApiKnowledge ==
    ASSUME NoTwin, NoReply, TypeOK, Solo, StatusKnown, [Next]_vars
    PROVE  /\ api' # "marking" \/ \A d \in Deliveries : pc'[d] = "absent"
           /\ api' = "idle" => status' = "none"
           /\ api' \in {"created", "marking"} => status' = "pending"
<1>1. ASSUME NEW d \in Deliveries, Own(d), api = "marking" \/ api \in {"idle", "created"}
      PROVE  FALSE
    BY <1>1, OwnIsLive DEF Live, Solo, StatusKnown
<1>2. CASE \E d \in Deliveries : Own(d)
    BY <1>1, <1>2, OwnKeepsApi
<1>3. CASE ApiStep \/ ApiDies \/ ApiDbError
    BY <1>3
    DEF NoReply, Solo, StatusKnown, ApiStep, CreateRun, EnqueueRaises, ApiMarkFailed,
        Enqueue, ApiDies, ApiDbError, Fault, db
<1>4. CASE \E d, e \in Deliveries : Redeliver(d, e)
    BY <1>4 DEF NoTwin, Solo, StatusKnown, Redeliver, Fault, db
<1>5. CASE UNCHANGED vars
    BY <1>5 DEF StatusKnown, vars, db
<1> QED BY <1>2, <1>3, <1>4, <1>5 DEF Next, TaskFault, Own

\* No step of another process makes what a task knows of the status stale.
LEMMA StatusKnownStep ==
    ASSUME NoTwin, NoReply, TypeOK, Solo, StatusKnown, [Next]_vars
    PROVE  StatusKnown'
<1>1. ASSUME NEW d \in Deliveries, pc'[d] \in Writing PROVE status' \in ActiveStatus
    <2>1. CASE Own(d)
        BY <1>1, <2>1, OwnStatus DEF StatusKnown, Writing
    <2>2. CASE Queued(d)
        BY <1>1, <2>2 DEF Queued, Writing
    <2>3. CASE Untouched(d) /\ ~Own(d)
        <3>1. Live(d) /\ status \in ActiveStatus
            BY <1>1, <2>3 DEF Untouched, Writing, StatusKnown, Live
        <3>2. ASSUME NEW e \in Deliveries, Own(e) PROVE FALSE
            BY <2>3, <3>1, <3>2, OwnIsLive DEF Solo
        <3>3. ~ApiMarkFailed
            BY <3>1 DEF ApiMarkFailed, StatusKnown, Live
        <3>4. CreateRun => status' \in ActiveStatus
            BY DEF CreateRun, ActiveStatus
        <3> QED BY <3>1, <3>2, <3>3, <3>4, StatusWriters DEF Own, TaskStep
    <2> QED BY <2>1, <2>2, <2>3, LocalSteps
<1> QED BY <1>1, ApiKnowledge DEF StatusKnown, Writing

\* Nobody who may write the status finds a run that has ended.
LEMMA TerminalStays ==
    ASSUME StatusKnown, [Next]_vars, status \in TerminalStatus
    PROVE  status' = status
<1>1. ~CreateRun /\ ~ApiMarkFailed
    BY DEF CreateRun, ApiMarkFailed, StatusKnown, TerminalStatus
<1>2. ASSUME NEW d \in Deliveries,
             BeginRun(d) \/ CompleteRun(d) \/ RunnerMarks(d) \/ MarkWrite(d)
      PROVE  FALSE
    BY <1>2
    DEF BeginRun, CompleteRun, RunnerMarks, MarkWrite, StatusKnown, ActiveStatus,
        TerminalStatus
<1> QED BY <1>1, <1>2, StatusWriters

\* A run that has ended keeps its status: no late mark, retry, resumed or
\* repeated delivery overwrites it.
THEOREM TerminalIsFinalHolds ==
    ASSUME NoTwin, NoReply
    PROVE  Spec => TerminalIsFinal
<1> DEFINE Inv == Solo /\ StatusKnown
<1>1. Init => Inv
    BY SoloInit DEF Init, StatusKnown
<1>2. TypeOK /\ Inv /\ [Next]_vars => Inv'
    BY NoTwin, NoReply, SoloStep, StatusKnownStep
<1>3. TypeOK /\ Inv /\ [Next]_vars
         => [(status \in TerminalStatus) => (status' = status)]_vars
    BY TerminalStays
<1> QED BY <1>1, <1>2, <1>3, TypeCorrect, PTL DEF Spec, TerminalIsFinal

-----------------------------------------------------------------------------
(* A classification agrees with the complete set of verdicts: scoring.py.  *)

\* While one delivery judges or scores, only its own steps write results.
LEMMA OthersDoNotWrite ==
    ASSUME TypeOK, Solo, [Next]_vars, NEW d \in Deliveries, Live(d), ~Own(d)
    PROVE  UNCHANGED <<row, verdict>>
<1>1. ASSUME NEW e \in Deliveries, Own(e) PROVE FALSE
    BY <1>1, OwnIsLive DEF Solo
<1> QED BY <1>1, ResultWriters DEF Own, TaskStep

\* How a delivery comes to be judging or scoring.
LEMMA ScoringSteps ==
    ASSUME TypeOK, NEW d \in Deliveries, Own(d), pc'[d] \in {"harness", "scoring"}
    PROVE  \/ ListForHarness(d) \/ VisitCase(d) \/ Judge(d)
           \/ ListForScoring(d) \/ ReadVerdicts(d) \/ WriteScore(d)
<1> USE DEF TypeOK, Goto, Leave, Raise, Handler
<1>1. CASE TaskStep(d)
    BY <1>1
    DEF TaskStep, Start, LoadStatus, Prepare, RaceGuard, LoadContext, LoadCases, BeginRun,
        ExecuteCase, InLoop, CompleteRun, RunnerMarks, FinishScoring, RetryOrGiveUp,
        MarkRead, MarkWrite
<1>2. CASE WorkerLost(d) \/ HardLimit(d) \/ SoftLimit(d) \/ DbError(d) \/ PermanentError(d)
    BY <1>2 DEF WorkerLost, HardLimit, SoftLimit, DbError, PermanentError
<1> QED BY <1>1, <1>2 DEF Own

\* Outside the harness and scoring no case result is held.
LEMMA NothingHeld ==
    ASSUME TypeOK, NEW d \in Deliveries, Own(d),
           pc[d] \notin {"harness", "scoring"} => cur[d] = NoRow,
           pc'[d] \notin {"harness", "scoring"}
    PROVE  cur'[d] = NoRow
<1> USE DEF TypeOK, Goto, Leave, Raise, ClearScratch, scratch
<1>1. CASE TaskStep(d)
    BY <1>1
    DEF TaskStep, Start, LoadStatus, Prepare, RaceGuard, LoadContext, LoadCases, BeginRun,
        ExecuteCase, InLoop, CompleteRun, RunnerMarks, ListForHarness, VisitCase, Judge,
        ListForScoring, ReadVerdicts, WriteScore, FinishScoring, RetryOrGiveUp, MarkRead,
        MarkWrite
<1>2. CASE WorkerLost(d) \/ HardLimit(d) \/ SoftLimit(d) \/ DbError(d) \/ PermanentError(d)
    BY <1>2 DEF WorkerLost, HardLimit, SoftLimit, InLoop, DbError, PermanentError
<1> QED BY <1>1, <1>2 DEF Own

\* What is recorded for a case result only grows.
LEMMA RecordedGrows ==
    ASSUME TypeOK, [Next]_vars, NEW r \in Rows
    PROVE  /\ Recorded(r) \subseteq Recorded(r)'
           /\ Recorded(r) = Guardrails =>
                 Recorded(r)' = Guardrails /\ verdict'[r] = verdict[r]
<1>1. \A g \in Guardrails : verdict[r][g] # "none" => verdict'[r][g] = verdict[r][g]
    BY VerdictsPersist
<1>2. Recorded(r) \subseteq Recorded(r)'
    BY <1>1 DEF Recorded
<1>3. ASSUME Recorded(r) = Guardrails
      PROVE  Recorded(r)' = Guardrails /\ verdict'[r] = verdict[r]
    <2>1. Recorded(r)' = Guardrails
        BY <1>2, <1>3 DEF Recorded
    <2>2. \A g \in Guardrails : verdict'[r][g] = verdict[r][g]
        BY <1>1, <1>3 DEF Recorded
    <2>3. verdict[r] \in [Guardrails -> {"none"} \cup VerdictStatus]
        BY DEF TypeOK
    <2>4. verdict'[r] \in [Guardrails -> {"none"} \cup VerdictStatus]
        BY TypeStep DEF TypeOK
    <2> QED BY <2>1, <2>2, <2>3, <2>4
<1> QED BY <1>2, <1>3

\* What WriteScore classifies: an executed result, on all its verdicts.
LEMMA ScoreEffect ==
    ASSUME TypeOK, ScoringKnown, NEW d \in Deliveries, WriteScore(d)
    PROVE  /\ cur[d] \in Rows
           /\ \/ row' = row
              \/ /\ row[cur[d]] = "executed"
                 /\ Recorded(cur[d]) = Guardrails
                 /\ ApplyPolicy("executed", Guardrails, verdict[cur[d]]) \in {"passed", "failed"}
                 /\ row' = [row EXCEPT ![cur[d]] =
                              ApplyPolicy("executed", Guardrails, verdict[cur[d]])]
<1> DEFINE r      == cur[d]
           listed == IF row[r] = "error" THEN "error" ELSE "executed"
           target == ApplyPolicy(listed, seen[d], verdict[r])
<1>1. r \in Rows /\ pc[d] = "scoring"
    BY DEF WriteScore, TypeOK, NoRow
<1>2. row' = IF target = listed THEN row ELSE [row EXCEPT ![r] = target]
    BY DEF WriteScore
<1>3. row[r] \in {"executed", "error"} /\ seen[d] = Recorded(r) /\ seen[d] \in SUBSET Guardrails
    BY <1>1 DEF ScoringKnown, JudgingKnown, ClassifyingKnown, WriteScore, TypeOK
<1>4. CASE row[r] = "error"
    <2>1. listed = "error" /\ target = "error"
        BY <1>3, <1>4, ApplyPolicyType
    <2> QED BY <1>1, <1>2, <2>1
<1>5. CASE row[r] = "executed"
    <2>1. Recorded(r) = Guardrails
        BY <1>1, <1>5 DEF ScoringKnown, JudgingKnown, ClassifyingKnown, Executed
    <2>2. listed = "executed" /\ target = ApplyPolicy("executed", Guardrails, verdict[r])
        BY <1>3, <1>5, <2>1
    <2>3. target \in {"executed", "passed", "failed"}
        BY <2>2 DEF ApplyPolicy
    <2> HIDE DEF target, listed
    <2> QED BY <1>1, <1>2, <1>5, <2>1, <2>2, <2>3
<1> QED BY <1>3, <1>4, <1>5

\* Judging one case result after another completes their verdicts.
LEMMA JudgingSteps ==
    ASSUME TypeOK, ScoringKnown, [Next]_vars, NEW d \in Deliveries,
           ListForHarness(d) \/ VisitCase(d) \/ Judge(d), pc'[d] = "harness"
    PROVE  JudgingKnown(d)'
<1>1. CASE ListForHarness(d)
    BY <1>1
    DEF ListForHarness, JudgingKnown, ScoringKnown, Executed, TypeOK, db
<1>2. CASE VisitCase(d)
    <2>1. PICK r \in list[d] : /\ cur' = [cur EXCEPT ![d] = r]
                               /\ seen' = [seen EXCEPT ![d] = Recorded(r)]
                               /\ list' = [list EXCEPT ![d] = list[d] \ {r}]
        BY <1>2 DEF VisitCase
    <2>2. cur'[d] = r /\ seen'[d] = Recorded(r) /\ list'[d] = list[d] \ {r}
        BY <2>1 DEF TypeOK
    <2>3. UNCHANGED <<row, verdict>> /\ pc[d] = "harness"
        BY <1>2 DEF VisitCase, db
    <2>4. Executed' = Executed /\ \A x \in Rows : Recorded(x)' = Recorded(x)
        BY <2>3 DEF Executed, Recorded
    <2>5. \A x \in Executed \ list[d] : Recorded(x) = Guardrails
        BY <1>2, <2>3
        DEF VisitCase, CaseJudged, ScoringKnown, JudgingKnown, Executed, NoRow, Rows, Recorded
    <2>6. r \in Rows
        BY DEF TypeOK
    <2>7. Executed \subseteq Rows
        BY DEF Executed
    <2> QED BY <2>2, <2>4, <2>5, <2>6, <2>7 DEF JudgingKnown
<1>3. CASE Judge(d)
    <2>1. cur[d] \in Rows
        BY <1>3, JudgeEffect
    <2>2. PICK g \in Guardrails, v \in VerdictStatus :
             /\ verdict[cur[d]][g] = "none"
             /\ verdict' = [verdict EXCEPT ![cur[d]][g] = v]
             /\ seen' = [seen EXCEPT ![d] = seen[d] \cup {g}]
             /\ UNCHANGED <<pc, exc, todo, list, cur>>
        <3>1. ~Raise(d, "permanent", Handler(d))
            BY DEF Raise, Goto, Handler, TypeOK
        <3> QED BY <1>3, <3>1, JudgeEffect
    <2>3. Executed' = Executed /\ pc[d] = "harness" /\ Executed \subseteq Rows
        BY <1>3 DEF Judge, Executed
    <2>4. \A x \in Rows : /\ Recorded(x) \subseteq Recorded(x)'
                          /\ Recorded(x) = Guardrails => Recorded(x)' = Guardrails
        BY RecordedGrows
    <2>5. seen'[d] = seen[d] \cup {g} /\ cur'[d] = cur[d] /\ list'[d] = list[d]
        BY <2>2 DEF TypeOK
    <2>6. \A x \in Executed \ list[d] : x = cur[d] \/ Recorded(x)' = Guardrails
        BY <2>3, <2>4 DEF ScoringKnown, JudgingKnown, ClassifyingKnown
    <2>7. seen[d] \subseteq Recorded(cur[d])
        BY <2>1, <2>3 DEF ScoringKnown, JudgingKnown, ClassifyingKnown, NoRow, Rows
    <2>8. seen[d] \subseteq Recorded(cur[d])'
        BY <2>1, <2>4, <2>5, <2>7
    <2>9. g \in Recorded(cur[d])'
        BY <2>1, <2>2 DEF Recorded, TypeOK, VerdictStatus
    <2> QED BY <2>3, <2>5, <2>6, <2>8, <2>9 DEF JudgingKnown
<1> QED BY <1>1, <1>2, <1>3

\* Scoring starts with every verdict recorded and rewrites what it listed.
LEMMA ClassifyingSteps ==
    ASSUME TypeOK, ScoringKnown, [Next]_vars, NEW d \in Deliveries,
           ListForScoring(d) \/ ReadVerdicts(d) \/ WriteScore(d)
    PROVE  ClassifyingKnown(d)'
<1>1. CASE ListForScoring(d)
    <2>1. \A r \in Executed : Recorded(r) = Guardrails
        BY <1>1
        DEF ListForScoring, CaseJudged, ScoringKnown, JudgingKnown, Executed, Recorded, NoRow, Rows
    <2>2. UNCHANGED <<row, verdict>> /\ list'[d] = Unclassified /\ cur'[d] = NoRow
        BY <1>1 DEF ListForScoring, db, TypeOK
    <2> QED
        BY <2>1, <2>2
        DEF ClassifyingKnown, Executed, Unclassified, Recorded, NoRow, Rows
<1>2. CASE ReadVerdicts(d)
    <2>1. PICK r \in list[d] : /\ cur' = [cur EXCEPT ![d] = r]
                               /\ seen' = [seen EXCEPT ![d] = Recorded(r)]
                               /\ list' = [list EXCEPT ![d] = list[d] \ {r}]
        BY <1>2 DEF ReadVerdicts
    <2>2. cur'[d] = r /\ seen'[d] = Recorded(r) /\ list'[d] = list[d] \ {r}
        BY <2>1 DEF TypeOK
    <2>3. UNCHANGED <<row, verdict>> /\ pc[d] = "scoring"
        BY <1>2 DEF ReadVerdicts, db
    <2>4. Executed' = Executed /\ \A x \in Rows : Recorded(x)' = Recorded(x)
        BY <2>3 DEF Executed, Recorded
    <2>5. r \in Rows /\ Executed \subseteq Rows
        BY DEF TypeOK, Executed
    <2> QED BY <2>2, <2>3, <2>4, <2>5 DEF ScoringKnown, ClassifyingKnown
<1>3. CASE WriteScore(d)
    <2>1. pc[d] = "scoring" /\ UNCHANGED verdict /\ UNCHANGED list /\ cur'[d] = NoRow
        BY <1>3 DEF WriteScore, TypeOK
    <2>2. /\ \A x \in Rows : x # cur[d] => row'[x] = row[x]
          /\ Executed' \subseteq Executed
        BY <1>3, ScoreEffect DEF Executed, TypeOK
    <2>3. cur[d] \notin list[d]
        BY <2>1 DEF ScoringKnown, JudgingKnown, ClassifyingKnown
    <2>4. \A x \in Rows : Recorded(x)' = Recorded(x)
        BY <2>1 DEF Recorded
    <2>5. Executed \subseteq Rows /\ list[d] \subseteq Rows
        BY DEF TypeOK, Executed
    <2>6. \A x \in list[d] : row'[x] \in {"executed", "error"}
        BY <2>1, <2>2, <2>3, <2>5 DEF ScoringKnown, JudgingKnown, ClassifyingKnown
    <2>7. NoRow \notin Rows
        BY DEF NoRow, Rows
    <2> QED BY <2>1, <2>2, <2>4, <2>5, <2>6, <2>7 DEF ScoringKnown, ClassifyingKnown
<1> QED BY <1>1, <1>2, <1>3

\* The harness and the scoring pass keep track of what has its verdicts.
LEMMA ScoringKnownStep ==
    ASSUME NoTwin, TypeOK, Solo, ScoringKnown, [Next]_vars
    PROVE  ScoringKnown'
<1> SUFFICES ASSUME NEW d \in Deliveries
             PROVE  /\ pc'[d] \notin {"harness", "scoring"} => cur'[d] = NoRow
                    /\ pc'[d] = "harness" => JudgingKnown(d)'
                    /\ pc'[d] = "scoring" => ClassifyingKnown(d)'
    BY DEF ScoringKnown
<1>1. CASE Own(d)
    <2>1. pc'[d] \notin {"harness", "scoring"} => cur'[d] = NoRow
        BY <1>1, NothingHeld DEF ScoringKnown
    <2>2. ASSUME pc'[d] = "harness" PROVE JudgingKnown(d)'
        <3>1. ListForHarness(d) \/ VisitCase(d) \/ Judge(d)
            BY <1>1, <2>2, ScoringSteps
            DEF ListForScoring, ReadVerdicts, WriteScore, Goto, TypeOK
        <3> QED BY <2>2, <3>1, JudgingSteps
    <2>3. ASSUME pc'[d] = "scoring" PROVE ClassifyingKnown(d)'
        <3>1. ListForScoring(d) \/ ReadVerdicts(d) \/ WriteScore(d)
            BY <1>1, <2>3, ScoringSteps
            DEF ListForHarness, VisitCase, Judge, Raise, Handler, Goto, TypeOK
        <3> QED BY <3>1, ClassifyingSteps
    <2> QED BY <2>1, <2>2, <2>3
<1>2. CASE Untouched(d) /\ ~Own(d)
    <2>1. CASE pc[d] \in {"harness", "scoring"}
        <3>1. UNCHANGED <<row, verdict>>
            BY <1>2, <2>1, OthersDoNotWrite DEF Live
        <3>2. Executed' = Executed /\ \A r \in Rows : Recorded(r)' = Recorded(r)
            BY <3>1 DEF Executed, Recorded
        <3>3. Executed \subseteq Rows /\ (cur[d] # NoRow => cur[d] \in Rows)
            BY DEF Executed, TypeOK
        <3> QED
            BY <1>2, <2>1, <3>1, <3>2, <3>3
            DEF Untouched, ScoringKnown, JudgingKnown, ClassifyingKnown
    <2>2. CASE pc[d] \notin {"harness", "scoring"}
        BY <1>2, <2>2 DEF Untouched, ScoringKnown
    <2> QED BY <2>1, <2>2
<1>3. CASE Queued(d) /\ ~Own(d) /\ ~Untouched(d)
    <2>1. UNCHANGED <<row, verdict, list, cur, seen>> /\ pc'[d] = "queued"
        BY <1>3 DEF Queued, db, scratch
    <2>2. pc[d] \in {"absent", "done"}
        BY <1>3, QueuedWasIdle, NoTwin
    <2> QED BY <2>1, <2>2 DEF ScoringKnown
<1> QED BY <1>1, <1>2, <1>3, LocalSteps

\* A classified result had every guardrail run, and its status is the one the
\* policy gives to the complete set of verdicts.
THEOREM ScoreMatchesVerdictsHolds ==
    ASSUME NoTwin
    PROVE  Spec => []ScoreMatchesVerdicts
<1> DEFINE Inv == Solo /\ ScoringKnown /\ ScoreMatchesVerdicts
<1>1. Init => Inv
    BY SoloInit DEF Init, ScoringKnown, ScoreMatchesVerdicts
<1>2. TypeOK /\ Inv /\ [Next]_vars => Inv'
    <2> SUFFICES ASSUME TypeOK, Inv, [Next]_vars,
                        NEW r \in Rows, row'[r] \in {"passed", "failed"}
                 PROVE  /\ Recorded(r)' = Guardrails
                        /\ row'[r] = ApplyPolicy("executed", Guardrails, verdict'[r])
        BY NoTwin, SoloStep, ScoringKnownStep DEF ScoreMatchesVerdicts
    <2>1. /\ Recorded(r) = Guardrails
          /\ row'[r] = ApplyPolicy("executed", Guardrails, verdict[r])
        <3>1. CASE row'[r] = row[r]
            BY <3>1 DEF ScoreMatchesVerdicts
        <3>2. ASSUME NEW d \in Deliveries, ExecuteCase(d)
              PROVE  row'[r] = row[r]
            BY <3>2, ExecuteEffect DEF TypeOK
        <3>3. ASSUME NEW d \in Deliveries, WriteScore(d), row'[r] # row[r]
              PROVE  /\ Recorded(r) = Guardrails
                     /\ row'[r] = ApplyPolicy("executed", Guardrails, verdict[r])
            BY <3>3, ScoreEffect DEF TypeOK
        <3> QED BY <3>1, <3>2, <3>3, ResultWriters
    <2> QED BY <2>1, RecordedGrows
<1> QED BY <1>1, <1>2, TypeCorrect, PTL DEF Spec

-----------------------------------------------------------------------------
(* The run keeps the promise of RunLifecycle.                              *)

\* The status of the run at each step of the execution: it is running in the
\* case loop and completed from the harness on.
Phase ==
    \A d \in Deliveries :
        /\ pc[d] = "run" => status = "running"
        /\ pc[d] \in {"judge", "harness", "scoring"} => status = "completed"
        /\ pc[d] = "prepare" /\ path[d] = "rescore" => status = "completed"

\* A task enters the loop through BeginRun, and judges a run that it completed
\* or found completed.
LEMMA OwnPhase ==
    ASSUME TypeOK, Phase, NEW d \in Deliveries, Own(d)
    PROVE  /\ pc'[d] = "run" => status' = "running"
           /\ pc'[d] \in {"judge", "harness", "scoring"} => status' = "completed"
           /\ pc'[d] = "prepare" /\ path'[d] = "rescore" => status' = "completed"
<1> USE DEF TypeOK, Phase, Goto, Leave, Raise, Handler, db
<1>1. CASE TaskStep(d)
    BY <1>1
    DEF TaskStep, Start, LoadStatus, Prepare, RaceGuard, CompletedElsewhere, LoadContext,
        LoadCases, BeginRun, ExecuteCase, CompleteRun, RunnerMarks, ListForHarness,
        VisitCase, Judge, ListForScoring, ReadVerdicts, WriteScore, FinishScoring,
        RetryOrGiveUp, MarkRead, MarkWrite
<1>2. CASE WorkerLost(d) \/ HardLimit(d) \/ SoftLimit(d) \/ DbError(d) \/ PermanentError(d)
    BY <1>2 DEF WorkerLost, HardLimit, SoftLimit, InLoop, DbError, PermanentError
<1> QED BY <1>1, <1>2 DEF Own

\* While a task is at work nobody else writes the status.
LEMMA OthersKeepStatus ==
    ASSUME Solo, StatusKnown, [Next]_vars, NEW d \in Deliveries, Live(d), ~Own(d)
    PROVE  UNCHANGED status
<1>1. ASSUME NEW e \in Deliveries, Own(e) PROVE FALSE
    BY <1>1, OwnIsLive DEF Solo
<1>2. ~CreateRun /\ ~ApiMarkFailed
    BY DEF CreateRun, ApiMarkFailed, StatusKnown, Solo, Live
<1> QED BY <1>1, <1>2, StatusWriters DEF Own, TaskStep

\* So it cannot leave the phase the task is in.
LEMMA PhaseStep ==
    ASSUME NoTwin, TypeOK, Solo, StatusKnown, Phase, [Next]_vars
    PROVE  Phase'
<1> SUFFICES ASSUME NEW d \in Deliveries
             PROVE  /\ pc'[d] = "run" => status' = "running"
                    /\ pc'[d] \in {"judge", "harness", "scoring"} => status' = "completed"
                    /\ pc'[d] = "prepare" /\ path'[d] = "rescore" => status' = "completed"
    BY DEF Phase
<1>1. CASE Own(d)
    BY <1>1, OwnPhase
<1>2. CASE Queued(d)
    BY <1>2 DEF Queued
<1>3. CASE Untouched(d) /\ ~Own(d) /\ pc[d] \in {"run", "judge", "harness", "scoring", "prepare"}
    <2>1. UNCHANGED status
        BY <1>3, OthersKeepStatus DEF Live
    <2> QED BY <1>3, <2>1 DEF Untouched, Phase
<1>4. CASE Untouched(d) /\ pc[d] \notin {"run", "judge", "harness", "scoring", "prepare"}
    BY <1>4 DEF Untouched
<1> QED BY <1>1, <1>2, <1>3, <1>4, LocalSteps

\* The result of a case that has one is its outcome (f is the results, now or
\* after a step).
LEMMA OutcomeOf ==
    ASSUME NEW f, NEW c \in Cases, NEW d \in Deliveries, f[<<c, d>>] # "none",
           \A e \in Deliveries : f[<<c, e>>] # "none" => e = d
    PROVE  (CHOOSE e \in Deliveries : f[<<c, e>>] # "none") = d
OBVIOUS

\* The outcome of a case is the status of its only result ...
LEMMA OutcomeIs ==
    ASSUME OneResultPerCase, NEW c \in Cases, NEW d \in Deliveries, row[<<c, d>>] # "none"
    PROVE  Outcome(c) = row[<<c, d>>]
<1>1. \A e \in Deliveries : row[<<c, e>>] # "none" => e = d
    BY DEF OneResultPerCase
<1> QED BY <1>1, OutcomeOf DEF Outcome, HasResult

\* ... and so it is after a step.
LEMMA OutcomeIsAfter ==
    ASSUME OneResultPerCase', NEW c \in Cases, NEW d \in Deliveries, row'[<<c, d>>] # "none"
    PROVE  Outcome(c)' = row'[<<c, d>>]
<1>1. \A e \in Deliveries : row'[<<c, e>>] # "none" => e = d
    BY DEF OneResultPerCase
<1> QED BY <1>1, OutcomeOf DEF Outcome, HasResult

\* Results that stay leave the outcome of their case as it was.
LEMMA OutcomeKept ==
    ASSUME NEW c \in Cases, \A e \in Deliveries : row'[<<c, e>>] = row[<<c, e>>]
    PROVE  Outcome(c)' = Outcome(c)
<1>1. (CHOOSE e \in Deliveries : row'[<<c, e>>] # "none")
        = (CHOOSE e \in Deliveries : row[<<c, e>>] # "none")
    OBVIOUS
<1>2. CASE HasResult(c)
    <2>1. (CHOOSE e \in Deliveries : row[<<c, e>>] # "none") \in Deliveries
        BY <1>2 DEF HasResult
    <2> QED BY <1>1, <1>2, <2>1 DEF Outcome, HasResult
<1>3. CASE ~HasResult(c)
    BY <1>3 DEF Outcome, HasResult
<1> QED BY <1>2, <1>3

\* One result written is one outcome changed.
LEMMA OutcomeWritten ==
    ASSUME TypeOK, OneResultPerCase', NEW c \in Cases, NEW d \in Deliveries, NEW o,
           o # "none", row' = [row EXCEPT ![<<c, d>>] = o]
    PROVE  [x \in Cases |-> Outcome(x)]' = [[x \in Cases |-> Outcome(x)] EXCEPT ![c] = o]
<1>1. <<c, d>> \in Rows /\ row \in [Rows -> {"none"} \cup ResultStatus]
    BY DEF Rows, TypeOK
<1>2. row'[<<c, d>>] = o
    BY <1>1
<1>3. Outcome(c)' = o
    BY <1>2, OutcomeIsAfter
<1>4. ASSUME NEW x \in Cases, x # c PROVE Outcome(x)' = Outcome(x)
    <2>1. \A e \in Deliveries : row'[<<x, e>>] = row[<<x, e>>]
        BY <1>1, <1>4 DEF Rows
    <2> QED BY <2>1, OutcomeKept
<1> QED BY <1>3, <1>4

\* Every step of the run is a step of its promise, or is not visible in it.
LEMMA LifecycleStep ==
    ASSUME TypeOK, Solo, StatusKnown, ScoringKnown, Phase, LoopProgress,
           TodoUnrecorded, OneResultPerCase, OneResultPerCase', [Next]_vars
    PROVE  [Lifecycle!Next]_Lifecycle!vars
<1> DEFINE outcomes == [c \in Cases |-> Outcome(c)]
<1>1. row' = row => outcomes' = outcomes
    BY OutcomeKept
<1>2. CASE CreateRun
    <2>1. status = "none" /\ status' = "pending" /\ row' = row
        BY <1>2 DEF CreateRun, StatusKnown
    <2> QED BY <1>1, <2>1 DEF Lifecycle!Next, Lifecycle!Create
<1>3. CASE ApiMarkFailed
    <2>1. status = "pending" /\ status' = "failed" /\ row' = row
        BY <1>3 DEF ApiMarkFailed, StatusKnown
    <2> QED BY <1>1, <2>1 DEF Lifecycle!Next, Lifecycle!Abandon
<1>4. ASSUME NEW d \in Deliveries, BeginRun(d)
      PROVE  [Lifecycle!Next]_Lifecycle!vars
    <2>1. status \in {"pending", "running"} /\ status' = "running" /\ row' = row
        BY <1>4 DEF BeginRun, StatusKnown, ActiveStatus
    <2> QED BY <1>1, <2>1 DEF Lifecycle!Next, Lifecycle!Begin, Lifecycle!vars
<1>5. ASSUME NEW d \in Deliveries, ExecuteCase(d)
      PROVE  [Lifecycle!Next]_Lifecycle!vars
    <2>1. PICK c \in todo[d], o \in {"executed", "error"} :
             c \in Cases /\ row' = [row EXCEPT ![<<c, d>>] = o]
        BY <1>5, ExecuteEffect
    <2>2. outcomes' = [outcomes EXCEPT ![c] = o]
        BY <2>1, OutcomeWritten
    <2>3. outcomes[c] = "none"
        BY <2>1 DEF TodoUnrecorded, Outcome, HasResult
    <2>4. status = "running" /\ UNCHANGED status
        BY <1>5 DEF ExecuteCase, InLoop, Phase
    <2> HIDE DEF outcomes
    <2>5. Lifecycle!Record(c)
        BY <2>2, <2>3, <2>4 DEF Lifecycle!Record, outcomes
    <2> QED BY <2>1, <2>5 DEF Lifecycle!Next
<1>6. ASSUME NEW d \in Deliveries, CompleteRun(d)
      PROVE  [Lifecycle!Next]_Lifecycle!vars
    <2>1. status = "running" /\ status' = "completed" /\ row' = row
        BY <1>6 DEF CompleteRun, Phase
    <2>2. \A c \in Cases : HasResult(c)
        BY <1>6 DEF CompleteRun, InLoop, LoopProgress
    <2>3. \A c \in Cases : outcomes[c] # "none"
        BY <2>2, OutcomeIs DEF HasResult
    <2> QED BY <1>1, <2>1, <2>3 DEF Lifecycle!Next, Lifecycle!Complete
<1>7. ASSUME NEW d \in Deliveries, RunnerMarks(d) \/ MarkWrite(d)
      PROVE  [Lifecycle!Next]_Lifecycle!vars
    <2>1. /\ status \in {"pending", "running"}
          /\ status' \in {"failed", "cancelled"}
          /\ row' = row
        BY <1>7 DEF RunnerMarks, MarkWrite, StatusKnown, ActiveStatus
    <2> QED BY <1>1, <2>1 DEF Lifecycle!Next, Lifecycle!Abandon
<1>8. ASSUME NEW d \in Deliveries, WriteScore(d)
      PROVE  [Lifecycle!Next]_Lifecycle!vars
    <2>1. status = "completed" /\ UNCHANGED status
        BY <1>8 DEF WriteScore, Phase
    <2>2. CASE row' = row
        BY <1>1, <2>1, <2>2 DEF Lifecycle!vars
    <2>3. CASE row' # row
        <3> DEFINE r == cur[d]
                   o == ApplyPolicy("executed", Guardrails, verdict[r])
        <3>1. /\ r \in Rows /\ row[r] = "executed" /\ o \in {"passed", "failed"}
              /\ row' = [row EXCEPT ![r] = o]
            BY <1>8, <2>3, ScoreEffect
        <3> HIDE DEF o
        <3>2. PICK c \in Cases, e \in Deliveries : r = <<c, e>>
            BY <3>1 DEF Rows
        <3>3. outcomes' = [outcomes EXCEPT ![c] = o]
            BY <3>1, <3>2, OutcomeWritten
        <3>4. outcomes[c] = "executed"
            BY <3>1, <3>2, OutcomeIs
        <3> HIDE DEF outcomes
        <3>5. Lifecycle!Classify(c)
            BY <2>1, <3>1, <3>3, <3>4 DEF Lifecycle!Classify, outcomes
        <3> QED BY <3>2, <3>5 DEF Lifecycle!Next
    <2> QED BY <2>2, <2>3
<1>9. CASE UNCHANGED <<status, row>>
    BY <1>1, <1>9 DEF Lifecycle!vars
<1>10. ASSUME NEW d \in Deliveries, BeginRun(d) \/ CompleteRun(d) \/ RunnerMarks(d) \/ MarkWrite(d)
       PROVE  [Lifecycle!Next]_Lifecycle!vars
    BY <1>4, <1>6, <1>7, <1>10
<1> QED BY <1>2, <1>3, <1>5, <1>8, <1>9, <1>10, StatusWriters, ResultWriters

\* When deliveries follow one another and a publish that raises has queued
\* nothing, the API, the broker and the workers together keep the promise a
\* reader of the run has: created once, executed case by case, ended once.
THEOREM ImplementsLifecycleHolds ==
    ASSUME NoTwin, NoReply
    PROVE  Spec => ImplementsLifecycle
<1> DEFINE Inv == /\ Solo /\ StatusKnown /\ ScoringKnown /\ Phase /\ LoopProgress
                  /\ Listed /\ TodoUnrecorded /\ OneResultPerCase
<1>1. Init => Inv
    BY SoloInit
    DEF Init, StatusKnown, ScoringKnown, Phase, LoopProgress, Listed, TodoUnrecorded,
        OneResultPerCase, NoRow, Rows
<1>2. TypeOK /\ Inv /\ [Next]_vars => Inv'
    BY NoTwin, NoReply, SoloStep, StatusKnownStep, ScoringKnownStep, PhaseStep,
       LoopProgressStep, ListedStep, OnceStep
<1>3. Init => Lifecycle!Init
    <2> SUFFICES ASSUME Init PROVE Lifecycle!Init
        OBVIOUS
    <2>1. \A c \in Cases, d \in Deliveries : <<c, d>> \in Rows
        BY DEF Rows
    <2>2. \A r \in Rows : row[r] = "none"
        BY DEF Init
    <2>3. \A c \in Cases : ~HasResult(c)
        BY <2>1, <2>2 DEF HasResult
    <2>4. \A c \in Cases : Outcome(c) = "none"
        BY <2>3 DEF Outcome
    <2> QED BY <2>4 DEF Init, Lifecycle!Init
<1>4. TypeOK /\ Inv /\ Inv' /\ [Next]_vars => [Lifecycle!Next]_Lifecycle!vars
    BY LifecycleStep
<1> QED
    BY <1>1, <1>2, <1>3, <1>4, TypeCorrect, PTL DEF Spec, ImplementsLifecycle, Lifecycle!Spec

-----------------------------------------------------------------------------
(* No healthy run behind a dead job, except where nobody is left to mark   *)
(* it: tasks.py.                                                           *)

\* Every handler has an exception to handle.
Thrown ==
    \A d \in Deliveries :
        pc[d] \in {"runfail", "runcancel", "guard", "raised", "mark"} => exc[d] # "none"

\* A run exists once its request was made; a task that ended without an
\* exception left one that has ended.
Ended ==
    /\ status = "none" => api = "idle"
    /\ \A d \in Deliveries :
          pc[d] = "done" /\ exc[d] = "none" => status \in TerminalStatus

\* A task reaches a handler only by raising.
LEMMA OwnThrown ==
    ASSUME TypeOK, Thrown, NEW d \in Deliveries, Own(d),
           pc'[d] \in {"runfail", "runcancel", "guard", "raised", "mark"}
    PROVE  exc'[d] # "none"
<1> USE DEF TypeOK, Thrown, Goto, Leave, Raise, Handler
<1>1. CASE TaskStep(d)
    BY <1>1
    DEF TaskStep, Start, LoadStatus, Prepare, RaceGuard, LoadContext, LoadCases, BeginRun,
        ExecuteCase, InLoop, CompleteRun, RunnerMarks, ListForHarness, VisitCase, Judge,
        ListForScoring, ReadVerdicts, WriteScore, FinishScoring, RetryOrGiveUp, MarkRead,
        MarkWrite
<1>2. CASE WorkerLost(d) \/ HardLimit(d) \/ SoftLimit(d) \/ DbError(d) \/ PermanentError(d)
    BY <1>2 DEF WorkerLost, HardLimit, SoftLimit, InLoop, DbError, PermanentError
<1> QED BY <1>1, <1>2 DEF Own

\* How a task ends, and on what run when it does so without an exception.
LEMMA OwnEnd ==
    ASSUME TypeOK, Solo, Thrown, Ended, Phase, NEW d \in Deliveries, Own(d),
           pc'[d] = "done", exc'[d] = "none"
    PROVE  status' \in TerminalStatus
<1> USE DEF TypeOK, Goto, Leave, Raise, Handler, db
<1>1. status \in ActiveStatus \cup TerminalStatus
    BY OwnIsLive DEF Solo, Ended, Live
<1>2. CASE TaskStep(d)
    <2>1. \/ LoadStatus(d) \/ FinishScoring(d) \/ RetryOrGiveUp(d) \/ MarkRead(d)
          \/ MarkWrite(d)
        BY <1>2
        DEF TaskStep, Start, Prepare, RaceGuard, LoadContext, LoadCases, BeginRun,
            ExecuteCase, InLoop, CompleteRun, RunnerMarks, ListForHarness, VisitCase,
            Judge, ListForScoring, ReadVerdicts, WriteScore
    <2> QED
        BY <1>1, <2>1
        DEF LoadStatus, FinishScoring, RetryOrGiveUp, MarkRead, MarkWrite, Thrown, Phase,
            SkipStatus, ActiveStatus, TerminalStatus
<1>3. CASE WorkerLost(d) \/ HardLimit(d) \/ SoftLimit(d) \/ DbError(d) \/ PermanentError(d)
    BY <1>3 DEF WorkerLost, HardLimit, SoftLimit, InLoop, DbError, PermanentError, Thrown
<1> QED BY <1>2, <1>3 DEF Own

\* A run is created by its request and never goes away.
LEMMA ExistsStep ==
    ASSUME [Next]_vars, status' = "none"
    PROVE  status = "none" /\ (api = "idle" => api' = "idle")
<1>1. UNCHANGED status
    BY StatusWriters
    DEF CreateRun, ApiMarkFailed, BeginRun, CompleteRun, RunnerMarks, MarkWrite
<1>2. api = "idle" => api' = "idle" \/ CreateRun
    <2>1. ASSUME NEW d \in Deliveries, Own(d) PROVE UNCHANGED api
        BY <2>1, OwnKeepsApi
    <2> QED
        BY <2>1
        DEF Next, ApiStep, EnqueueRaises, ApiMarkFailed, Enqueue, ApiDies, ApiDbError,
            TaskFault, Redeliver, Own, vars
<1> QED BY <1>1, <1>2 DEF CreateRun

\* No step leaves an active run behind a task that ended in peace.
LEMMA EndedStep ==
    ASSUME NoTwin, NoReply, TypeOK, Solo, StatusKnown, Phase, Thrown, Ended, [Next]_vars
    PROVE  Thrown' /\ Ended'
<1> SUFFICES ASSUME NEW d \in Deliveries
             PROVE  /\ pc'[d] \in {"runfail", "runcancel", "guard", "raised", "mark"}
                          => exc'[d] # "none"
                    /\ pc'[d] = "done" /\ exc'[d] = "none" => status' \in TerminalStatus
    <2>1. status' = "none" => api' = "idle"
        BY ExistsStep DEF Ended
    <2> QED BY <2>1 DEF Thrown, Ended
<1>1. CASE Own(d)
    BY <1>1, OwnThrown, OwnEnd
<1>2. CASE Untouched(d)
    BY <1>2, TerminalStays DEF Untouched, Thrown, Ended
<1>3. CASE Queued(d)
    BY <1>3 DEF Queued
<1> QED BY <1>1, <1>2, <1>3, LocalSteps

\* A run that stays active when everything has ended was abandoned by its API
\* request, was never taken by a worker, or lost its task to an exception:
\* neither a crash nor a retry nor a repeated delivery strands it.
THEOREM StrandedHasCauseHolds ==
    ASSUME NoTwin, NoReply
    PROVE  Spec => []StrandedHasCause
<1> DEFINE Inv == Solo /\ StatusKnown /\ Phase /\ Thrown /\ Ended
<1>1. Init => Inv
    BY SoloInit DEF Init, StatusKnown, Phase, Thrown, Ended
<1>2. TypeOK /\ Inv /\ [Next]_vars => Inv'
    BY NoTwin, NoReply, SoloStep, StatusKnownStep, PhaseStep, EndedStep
<1>3. Inv => StrandedHasCause
    BY DEF StrandedHasCause, Settled, Live, Ended, ActiveStatus, TerminalStatus
<1> QED BY <1>1, <1>2, <1>3, TypeCorrect, PTL DEF Spec

-----------------------------------------------------------------------------
(* A completed run whose tasks have ended is scored, when every fault is    *)
(* one that a retry or a requeue recovers from.                            *)

\* The faults the code recovers from, no more of them than retries; a policy
\* enables a guardrail (without one there is nothing to score on).
Recoverable ==
    /\ FaultKinds \subseteq {"db", "crash", "late", "broker", "api"}
    /\ MaxFaults <= MaxRetries
    /\ Guardrails # {}

HasError(r) == \E g \in Guardrails : verdict[r][g] = "error"
Scored == \A r \in Executed : HasError(r)

\* A task that is about to execute the run finds it active.
Eager ==
    \A d \in Deliveries :
        pc[d] = "context" \/ (pc[d] = "prepare" /\ path[d] # "rescore") =>
            status \in ActiveStatus

\* What the harness knows of a case result's guardrail rows is all there is.
Exact ==
    \A d \in Deliveries :
        pc[d] = "harness" /\ cur[d] # NoRow => seen[d] = Recorded(cur[d])

\* Only infrastructure fails, and every failure is a fault that was injected:
\* the ones retried so far and the one being handled.
Calm ==
    \A d \in Deliveries : exc[d] \in {"none", "infra"} /\ pc[d] # "mark"

Pending(d) == IF exc[d] = "infra" THEN 1 ELSE 0
Budget == \A d \in Deliveries : tries[d] + Pending(d) <= faults

\* What scoring has gone past and left unclassified has a guardrail error.
ScoredSoFar ==
    \A d \in Deliveries :
        pc[d] = "scoring" =>
            \A r \in Executed : r \in list[d] \/ r = cur[d] \/ HasError(r)

\* No task gives up: the ones that ended found the run ended, or scored it.
Finished ==
    /\ status = "completed" => \E d \in Deliveries : pc[d] # "absent"
    /\ \A d \in Deliveries :
          pc[d] = "done" => status \in TerminalStatus /\ (status = "completed" => Scored)

\* The harness never finds a guardrail row it does not know of.
LEMMA JudgeInserts ==
    ASSUME TypeOK, Exact, NEW d \in Deliveries, Judge(d)
    PROVE  /\ UNCHANGED <<pc, exc, list, cur>>
           /\ \E g \in Guardrails, v \in VerdictStatus :
                 /\ verdict' = [verdict EXCEPT ![cur[d]][g] = v]
                 /\ seen' = [seen EXCEPT ![d] = seen[d] \cup {g}]
<1> DEFINE g == CHOOSE x \in Guardrails \ seen[d] : \A y \in Guardrails \ seen[d] : x <= y
<1>1. pc[d] = "harness" /\ ~CaseJudged(d) /\ cur[d] # NoRow
    BY DEF Judge, CaseJudged
<1>2. g \in Guardrails \ seen[d]
    BY <1>1, NextGuardrail
<1>3. verdict[cur[d]][g] = "none"
    BY <1>1, <1>2 DEF Exact, Recorded
<1> HIDE DEF g
<1> QED BY <1>2, <1>3 DEF Judge, g

\* Nobody ends the run between the look at its status and the execution.
LEMMA EagerStep ==
    ASSUME NoTwin, TypeOK, Solo, StatusKnown, Ended, Eager, [Next]_vars
    PROVE  Eager'
<1> DEFINE Entering(d) == pc[d] = "context" \/ (pc[d] = "prepare" /\ path[d] # "rescore")
<1> SUFFICES ASSUME NEW d \in Deliveries, Entering(d)'
             PROVE  status' \in ActiveStatus
    BY DEF Eager
<1>1. CASE Own(d)
    <2>1. \/ LoadStatus(d) /\ status # "completed"
          \/ Prepare(d) /\ path[d] # "rescore"
        <3> USE DEF TypeOK, Goto, Leave, Raise, Handler
        <3>1. CASE TaskStep(d)
            BY <3>1
            DEF TaskStep, Start, LoadStatus, Prepare, RaceGuard, LoadContext, LoadCases,
                BeginRun, ExecuteCase, InLoop, CompleteRun, RunnerMarks, ListForHarness,
                VisitCase, Judge, ListForScoring, ReadVerdicts, WriteScore, FinishScoring,
                RetryOrGiveUp, MarkRead, MarkWrite
        <3>2. CASE \/ WorkerLost(d) \/ HardLimit(d) \/ SoftLimit(d) \/ DbError(d)
                   \/ PermanentError(d)
            BY <3>2 DEF WorkerLost, HardLimit, SoftLimit, InLoop, DbError, PermanentError
        <3> QED BY <1>1, <3>1, <3>2 DEF Own
    <2>2. CASE LoadStatus(d) /\ status # "completed"
        <3>1. status \notin SkipStatus
            BY <2>2 DEF LoadStatus, Leave, Goto, TypeOK
        <3>2. status # "none"
            BY <1>1, OwnIsLive DEF Live, Solo, Ended
        <3> QED
            BY <2>2, <3>1, <3>2
            DEF LoadStatus, db, TypeOK, SkipStatus, ActiveStatus, TerminalStatus
    <2>3. CASE Prepare(d) /\ path[d] # "rescore"
        BY <2>3 DEF Prepare, Eager, db
    <2> QED BY <2>1, <2>2, <2>3
<1>2. CASE Untouched(d) /\ ~Own(d)
    <2>1. Entering(d)
        BY <1>2 DEF Untouched
    <2>2. UNCHANGED status
        BY <1>2, <2>1, OthersKeepStatus DEF Live
    <2> QED BY <2>1, <2>2 DEF Eager
<1>3. CASE Queued(d)
    BY <1>3 DEF Queued
<1> QED BY <1>1, <1>2, <1>3, LocalSteps

\* Nobody else judges the case result the harness is visiting.
LEMMA ExactStep ==
    ASSUME NoTwin, TypeOK, Solo, ScoringKnown, Exact, [Next]_vars
    PROVE  Exact'
<1> SUFFICES ASSUME NEW d \in Deliveries, pc'[d] = "harness", cur'[d] # NoRow
             PROVE  (seen[d] = Recorded(cur[d]))'
    BY DEF Exact
<1>1. CASE Own(d)
    <2>1. ListForHarness(d) \/ VisitCase(d) \/ Judge(d)
        BY <1>1, ScoringSteps DEF ListForScoring, ReadVerdicts, WriteScore, Goto, TypeOK
    <2>2. CASE ListForHarness(d)
        BY <2>2 DEF ListForHarness, ScoringKnown
    <2>3. CASE VisitCase(d)
        <3>1. PICK r \in list[d] : /\ cur'  = [cur  EXCEPT ![d] = r]
                                   /\ seen' = [seen EXCEPT ![d] = Recorded(r)]
                                   /\ UNCHANGED verdict
            BY <2>3 DEF VisitCase, db
        <3>2. cur'[d] = r /\ seen'[d] = Recorded(r)
            BY <3>1 DEF TypeOK
        <3> QED BY <3>1, <3>2 DEF Recorded
    <2>4. CASE Judge(d)
        <3>1. PICK g \in Guardrails, v \in VerdictStatus :
                 /\ UNCHANGED <<pc, cur>>
                 /\ verdict' = [verdict EXCEPT ![cur[d]][g] = v]
                 /\ seen' = [seen EXCEPT ![d] = seen[d] \cup {g}]
            BY <2>4, JudgeInserts
        <3>2. cur[d] \in Rows /\ seen[d] = Recorded(cur[d])
            BY <2>4, <3>1 DEF TypeOK, Exact, Judge, NoRow
        <3>3. Recorded(cur[d])' = Recorded(cur[d]) \cup {g}
            BY <3>1, <3>2 DEF Recorded, TypeOK, VerdictStatus
        <3>4. seen'[d] = seen[d] \cup {g}
            BY <3>1 DEF TypeOK
        <3> QED BY <3>2, <3>3, <3>4
    <2> QED BY <2>1, <2>2, <2>3, <2>4
<1>2. CASE Untouched(d) /\ ~Own(d)
    <2>1. UNCHANGED verdict
        BY <1>2, OthersDoNotWrite DEF Untouched, Live
    <2> QED BY <1>2, <2>1 DEF Untouched, Exact, Recorded
<1>3. CASE Queued(d)
    BY <1>3 DEF Queued
<1> QED BY <1>1, <1>2, <1>3, LocalSteps

\* Without the faults that no retry cures a task raises nothing but
\* infrastructure errors, and those it retries.
LEMMA CalmStep ==
    ASSUME Recoverable, TypeOK, Thrown, Eager, Exact, Calm, [Next]_vars
    PROVE  Calm'
<1> SUFFICES ASSUME NEW d \in Deliveries
             PROVE  exc'[d] \in {"none", "infra"} /\ pc'[d] # "mark"
    BY DEF Calm
<1> USE DEF TypeOK, Goto, Leave, Raise, Handler, Calm
<1>1. CASE TaskStep(d)
    <2>1. CASE LoadContext(d)
        BY <2>1 DEF LoadContext, Eager, ActiveStatus, TerminalStatus
    <2>2. CASE Judge(d)
        BY <2>2, JudgeInserts
    <2>3. CASE MarkRead(d) \/ MarkWrite(d)
        BY <2>3 DEF MarkRead, MarkWrite, Thrown
    <2> QED
        BY <1>1, <2>1, <2>2, <2>3
        DEF TaskStep, Start, LoadStatus, Prepare, RaceGuard, LoadCases, BeginRun,
            ExecuteCase, InLoop, CompleteRun, RunnerMarks, ListForHarness, VisitCase,
            ListForScoring, ReadVerdicts, WriteScore, FinishScoring, RetryOrGiveUp
<1>2. CASE WorkerLost(d) \/ HardLimit(d) \/ SoftLimit(d) \/ DbError(d) \/ PermanentError(d)
    BY <1>2
    DEF Recoverable, Fault, WorkerLost, HardLimit, SoftLimit, InLoop, DbError,
        PermanentError
<1>3. CASE Untouched(d)
    BY <1>3 DEF Untouched
<1>4. CASE Queued(d)
    BY <1>4 DEF Queued
<1> QED BY <1>1, <1>2, <1>3, <1>4, LocalSteps DEF Own

\* Who counts a retry, and who raises an infrastructure error.
LEMMA RetryWriters ==
    ASSUME TypeOK, Exact, [Next]_vars
    PROVE  \/ /\ UNCHANGED tries /\ faults' \in {faults, faults + 1}
              /\ \A d \in Deliveries : exc'[d] = "infra" => exc[d] = "infra"
           \/ /\ UNCHANGED tries /\ faults' = faults + 1
           \/ \E d \in Deliveries : RetryOrGiveUp(d)
           \/ \E d, e \in Deliveries : Redeliver(d, e)
<1>1. CASE ApiStep \/ ApiDies \/ ApiDbError
    BY <1>1
    DEF ApiStep, CreateRun, EnqueueRaises, ApiMarkFailed, Enqueue, ApiDies, ApiDbError, Fault
<1>2. ASSUME NEW d \in Deliveries, TaskStep(d), ~RetryOrGiveUp(d)
      PROVE  /\ UNCHANGED <<tries, faults>>
             /\ \A x \in Deliveries : exc'[x] = "infra" => exc[x] = "infra"
    <2> USE DEF TypeOK, Goto, Leave, Raise
    <2>1. CASE Judge(d)
        BY <2>1, JudgeInserts DEF Judge
    <2>2. CASE LoadContext(d) \/ RaceGuard(d)
        BY <2>2 DEF LoadContext, RaceGuard
    <2> QED
        BY <1>2, <2>1, <2>2
        DEF TaskStep, Start, LoadStatus, Prepare, LoadCases, BeginRun, ExecuteCase,
            CompleteRun, RunnerMarks, ListForHarness, VisitCase, ListForScoring,
            ReadVerdicts, WriteScore, FinishScoring, MarkRead, MarkWrite
<1>3. ASSUME NEW d \in Deliveries,
             WorkerLost(d) \/ HardLimit(d) \/ SoftLimit(d) \/ DbError(d) \/ PermanentError(d)
      PROVE  UNCHANGED tries /\ faults' = faults + 1
    BY <1>3 DEF WorkerLost, HardLimit, SoftLimit, DbError, PermanentError, Fault
<1>4. CASE UNCHANGED vars
    BY <1>4 DEF vars
<1> QED BY <1>1, <1>2, <1>3, <1>4 DEF Next, TaskFault

\* A retry uses up the failure it answers; a repeated delivery is a fault.
LEMMA BudgetStep ==
    ASSUME TypeOK, Exact, Budget, [Next]_vars
    PROVE  Budget'
<1> SUFFICES ASSUME NEW d \in Deliveries
             PROVE  tries'[d] + Pending(d)' <= faults'
    BY DEF Budget
<1>1. tries[d] \in Nat /\ faults \in Nat /\ tries[d] + Pending(d) <= faults
    BY RunAssumption DEF TypeOK, Budget
<1>2. CASE /\ UNCHANGED tries /\ faults' \in {faults, faults + 1}
           /\ \A x \in Deliveries : exc'[x] = "infra" => exc[x] = "infra"
    BY <1>1, <1>2 DEF Pending
<1>3. CASE UNCHANGED tries /\ faults' = faults + 1
    BY <1>1, <1>3 DEF Pending
<1>4. ASSUME NEW x \in Deliveries, RetryOrGiveUp(x) PROVE tries'[d] + Pending(d)' <= faults'
    <2>1. UNCHANGED faults
        BY <1>4 DEF RetryOrGiveUp
    <2>2. CASE d # x
        <3>1. tries'[d] = tries[d] /\ exc'[d] = exc[d]
            BY <1>4, <2>2 DEF RetryOrGiveUp, TypeOK
        <3> QED BY <1>1, <2>1, <3>1 DEF Pending
    <2>3. CASE d = x
        <3>1. exc[d] = "infra"
            BY <1>4, <2>3 DEF RetryOrGiveUp
        <3>2. \/ tries'[d] = tries[d] + 1 /\ exc'[d] = "none"
              \/ tries'[d] = tries[d] /\ exc'[d] = exc[d]
            BY <1>4, <2>3 DEF RetryOrGiveUp, TypeOK
        <3> QED BY <1>1, <2>1, <3>1, <3>2 DEF Pending
    <2> QED BY <2>2, <2>3
<1>5. ASSUME NEW x \in Deliveries, NEW e \in Deliveries, Redeliver(x, e)
      PROVE  tries'[d] + Pending(d)' <= faults'
    <2>1. faults' = faults + 1 /\ exc' = exc /\ tries'[d] \in {tries[d], tries[x]}
        BY <1>5 DEF Redeliver, Fault, TypeOK
    <2>2. tries[x] \in Nat /\ tries[x] <= faults
        BY RunAssumption DEF TypeOK, Budget, Pending
    <2> QED BY <1>1, <2>1, <2>2 DEF Pending
<1> QED BY <1>2, <1>3, <1>4, <1>5, RetryWriters

\* No task gives up while it raises no more than there are retries.
LEMMA NoneGivesUp ==
    ASSUME Recoverable, TypeOK, Budget, NEW d \in Deliveries, exc[d] = "infra"
    PROVE  MayRetry(d)
<1>1. tries[d] + 1 <= faults /\ faults <= MaxFaults /\ tries[d] \in Nat /\ faults \in Nat
    BY RunAssumption DEF Budget, Pending, TypeOK
<1> QED BY <1>1, RunAssumption DEF Recoverable, MayRetry

\* What WriteScore leaves unclassified has a guardrail error.
LEMMA ScoreLeavesErrors ==
    ASSUME Recoverable, TypeOK, ScoringKnown, NEW d \in Deliveries, WriteScore(d),
           row[cur[d]] = "executed", row'[cur[d]] = "executed"
    PROVE  HasError(cur[d])
<1> DEFINE target == ApplyPolicy("executed", Guardrails, verdict[cur[d]])
<1>1. cur[d] \in Rows /\ pc[d] = "scoring" /\ cur[d] # NoRow
    BY ScoreEffect DEF WriteScore
<1>2. seen[d] = Guardrails
    BY <1>1 DEF ScoringKnown, ClassifyingKnown, Executed
<1>3. row' = IF target = "executed" THEN row ELSE [row EXCEPT ![cur[d]] = target]
    BY <1>2 DEF WriteScore
<1>4. target = "executed"
    <2> HIDE DEF target
    <2> QED BY <1>1, <1>3 DEF TypeOK
<1> QED BY <1>4 DEF ApplyPolicy, Recoverable, HasError

\* The scoring pass leaves nothing unclassified without a cause.
LEMMA ScoredSoFarStep ==
    ASSUME Recoverable, TypeOK, Solo, ScoringKnown, ScoredSoFar, [Next]_vars
    PROVE  ScoredSoFar'
<1> SUFFICES ASSUME NEW d \in Deliveries, pc'[d] = "scoring", NEW r \in Executed'
             PROVE  r \in list'[d] \/ r = cur'[d] \/ HasError(r)'
    BY DEF ScoredSoFar
<1>1. r \in Rows /\ row'[r] = "executed"
    BY DEF Executed
<1>2. CASE Own(d)
    <2>1. ListForScoring(d) \/ ReadVerdicts(d) \/ WriteScore(d)
        BY <1>2, ScoringSteps
        DEF ListForHarness, VisitCase, Judge, Raise, Handler, Goto, TypeOK
    <2>2. CASE ListForScoring(d)
        BY <1>1, <2>2 DEF ListForScoring, Unclassified, TypeOK, db
    <2>3. CASE ReadVerdicts(d)
        <3>1. PICK x \in list[d] : /\ cur'  = [cur  EXCEPT ![d] = x]
                                   /\ list' = [list EXCEPT ![d] = list[d] \ {x}]
            BY <2>3 DEF ReadVerdicts
        <3>2. UNCHANGED <<row, verdict>> /\ pc[d] = "scoring" /\ cur[d] = NoRow
            BY <2>3 DEF ReadVerdicts, db
        <3>3. r \in list[d] \/ HasError(r)
            BY <1>1, <3>2 DEF ScoredSoFar, Executed, NoRow, Rows
        <3> QED BY <3>1, <3>2, <3>3 DEF TypeOK, HasError
    <2>4. CASE WriteScore(d)
        <3>1. pc[d] = "scoring" /\ UNCHANGED <<list, verdict>>
            BY <2>4 DEF WriteScore
        <3>2. row[r] = "executed"
            BY <1>1, <2>4, ScoreEffect DEF TypeOK
        <3>3. r \in list[d] \/ HasError(r)
            BY <1>1, <2>4, <3>1, <3>2, ScoreLeavesErrors DEF ScoredSoFar, Executed
        <3> QED BY <3>1, <3>3 DEF HasError
    <2> QED BY <2>1, <2>2, <2>3, <2>4
<1>3. CASE Untouched(d) /\ ~Own(d)
    <2>1. UNCHANGED <<row, verdict>>
        BY <1>3, OthersDoNotWrite DEF Untouched, Live
    <2> QED BY <1>1, <1>3, <2>1 DEF Untouched, ScoredSoFar, Executed, HasError
<1>4. CASE Queued(d)
    BY <1>4 DEF Queued
<1> QED BY <1>2, <1>3, <1>4, LocalSteps

\* A scored run stays scored: results of a completed run are only classified.
LEMMA ScoredStays ==
    ASSUME TypeOK, Phase, ScoringKnown, Scored, status = "completed", [Next]_vars
    PROVE  Scored'
<1> SUFFICES ASSUME NEW r \in Executed'
             PROVE  HasError(r)'
    BY DEF Scored
<1>1. r \in Rows /\ row'[r] = "executed"
    BY DEF Executed
<1>2. row[r] = "executed"
    <2>1. ASSUME NEW d \in Deliveries, ExecuteCase(d) PROVE FALSE
        BY <2>1 DEF ExecuteCase, InLoop, Phase
    <2>2. ASSUME NEW d \in Deliveries, WriteScore(d) PROVE row[r] = "executed"
        BY <1>1, <2>2, ScoreEffect DEF TypeOK
    <2> QED BY <1>1, <2>1, <2>2, ResultWriters
<1>3. PICK g \in Guardrails : verdict[r][g] = "error"
    BY <1>1, <1>2 DEF Scored, Executed, HasError
<1>4. verdict'[r][g] = "error"
    BY <1>1, <1>3, VerdictsPersist
<1> QED BY <1>4 DEF HasError

\* "No case result" is not one of the case results.
LEMMA NoRowIsNoResult == NoRow \notin Executed
<1>1. NoRow \notin Rows
    BY DEF NoRow, Rows
<1> QED BY <1>1 DEF Executed

\* A task ends because the run has, or because it has scored it.
LEMMA OwnFinish ==
    ASSUME Recoverable, TypeOK, Solo, StatusKnown, Phase, Thrown, Ended, ScoringKnown,
           ScoredSoFar, Calm, Budget, NEW d \in Deliveries, Own(d), pc'[d] = "done"
    PROVE  status' \in TerminalStatus /\ (status' = "completed" => Scored')
<1> USE DEF TypeOK, Goto, Leave, Raise, Handler
<1>1. CASE TaskStep(d)
    <2>1. LoadStatus(d) \/ FinishScoring(d)
        <3>1. ~MarkRead(d) /\ ~MarkWrite(d)
            BY DEF MarkRead, MarkWrite, Thrown, Calm
        <3>2. ~RetryOrGiveUp(d)
            BY NoneGivesUp DEF RetryOrGiveUp
        <3> QED
            BY <1>1, <3>1, <3>2
            DEF TaskStep, Start, Prepare, RaceGuard, LoadContext, LoadCases, BeginRun,
                ExecuteCase, InLoop, CompleteRun, RunnerMarks, ListForHarness, VisitCase,
                Judge, ListForScoring, ReadVerdicts, WriteScore
    <2>2. CASE LoadStatus(d)
        BY <2>2 DEF LoadStatus, SkipStatus, TerminalStatus, db
    <2>3. CASE FinishScoring(d)
        <3>1. /\ pc[d] = "scoring" /\ cur[d] = NoRow /\ list[d] = {}
              /\ UNCHANGED <<status, row, verdict>>
            BY <2>3 DEF FinishScoring, db
        <3>2. status = "completed" /\ Scored
            <4>1. NoRow \notin Executed
                BY NoRowIsNoResult
            <4> QED BY <3>1, <4>1 DEF Phase, ScoredSoFar, Scored
        <3> QED BY <3>1, <3>2 DEF TerminalStatus, Scored, Executed, HasError
    <2> QED BY <2>1, <2>2, <2>3
<1>2. CASE WorkerLost(d) \/ HardLimit(d) \/ SoftLimit(d) \/ DbError(d) \/ PermanentError(d)
    BY <1>2
    DEF Recoverable, Fault, WorkerLost, HardLimit, SoftLimit, InLoop, DbError,
        PermanentError, Thrown, Calm
<1> QED BY <1>1, <1>2 DEF Own

\* What a task that ended has left stays so.
LEMMA FinishedStep ==
    ASSUME Recoverable, NoTwin, TypeOK, Solo, StatusKnown, Phase, Thrown, Ended,
           ScoringKnown, ScoredSoFar, Calm, Budget, Finished, [Next]_vars
    PROVE  Finished'
<1>1. ASSUME NEW d \in Deliveries, pc[d] # "absent" PROVE pc'[d] # "absent"
    <2> USE DEF TypeOK, Goto, Leave, Raise, Handler
    <2>1. CASE TaskStep(d)
        BY <2>1
        DEF TaskStep, Start, LoadStatus, Prepare, RaceGuard, LoadContext, LoadCases,
            BeginRun, ExecuteCase, InLoop, CompleteRun, RunnerMarks, ListForHarness,
            VisitCase, Judge, ListForScoring, ReadVerdicts, WriteScore, FinishScoring,
            RetryOrGiveUp, MarkRead, MarkWrite
    <2>2. CASE \/ WorkerLost(d) \/ HardLimit(d) \/ SoftLimit(d) \/ DbError(d)
               \/ PermanentError(d)
        BY <2>2 DEF WorkerLost, HardLimit, SoftLimit, InLoop, DbError, PermanentError
    <2>3. CASE Untouched(d) \/ Queued(d)
        BY <1>1, <2>3 DEF Untouched, Queued
    <2> QED BY <2>1, <2>2, <2>3, LocalSteps DEF Own
<1>2. status' = "completed" => \E d \in Deliveries : pc'[d] # "absent"
    <2>1. ASSUME NEW d \in Deliveries, CompleteRun(d) PROVE pc[d] # "absent"
        BY <2>1 DEF CompleteRun
    <2> QED BY <1>1, <2>1, CompletingStep DEF Finished
<1>3. ASSUME NEW d \in Deliveries, pc'[d] = "done"
      PROVE  status' \in TerminalStatus /\ (status' = "completed" => Scored')
    <2>1. CASE Own(d)
        BY <1>3, <2>1, OwnFinish
    <2>2. CASE Untouched(d)
        BY <1>3, <2>2, TerminalStays, ScoredStays DEF Untouched, Finished
    <2>3. CASE Queued(d)
        BY <1>3, <2>3 DEF Queued
    <2> QED BY <2>1, <2>2, <2>3, LocalSteps
<1> QED BY <1>2, <1>3 DEF Finished

\* When the faults are ones the code recovers from and there are no more of
\* them than retries, a completed run whose tasks have ended is scored: what is
\* still unclassified has a guardrail error, whatever crashed on the way.
THEOREM CompletedIsScoredHolds ==
    ASSUME Recoverable
    PROVE  Spec => []CompletedIsScored
<1> DEFINE Inv == /\ Solo /\ StatusKnown /\ ScoringKnown /\ Phase /\ Thrown /\ Ended
                  /\ Eager /\ Exact /\ Calm /\ Budget /\ ScoredSoFar /\ Finished
<1>1. NoTwin /\ NoReply
    BY DEF Recoverable, NoTwin, NoReply
<1>2. Init => Inv
    BY SoloInit
    DEF Init, StatusKnown, ScoringKnown, Phase, Thrown, Ended, Eager, Exact, Calm, Budget,
        Pending, ScoredSoFar, Finished
<1>3. TypeOK /\ Inv /\ [Next]_vars => Inv'
    BY <1>1, Recoverable, SoloStep, StatusKnownStep, ScoringKnownStep, PhaseStep,
       EndedStep, EagerStep, ExactStep, CalmStep, BudgetStep, ScoredSoFarStep,
       FinishedStep
<1>4. Inv => CompletedIsScored
    BY DEF CompletedIsScored, Settled, Live, Finished, Scored, HasError
<1> QED BY <1>2, <1>3, <1>4, TypeCorrect, PTL DEF Spec

=============================================================================
