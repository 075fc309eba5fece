--------------------------- MODULE EvalRunProofs ---------------------------
(***************************************************************************)
(* Theorems about module EvalRun, for every number of cases, guardrails,   *)
(* deliveries, retries and faults.                                         *)
(***************************************************************************)
EXTENDS EvalRun, FiniteSetTheorems, WellFoundedInduction, TLAPS

-----------------------------------------------------------------------------
(* Lemmas about the operators the actions are built from.                  *)

\* A non-empty bounded set of naturals has a least element, so the CHOOSE of
\* the next case and of the next guardrail are well defined.  The initial
\* segments of S are finite; one that is minimal under strict inclusion ends
\* at the least element.
LEMMA LeastElement ==
    ASSUME NEW n \in Nat, NEW S \in SUBSET (1..n), S # {}
    PROVE  \E x \in S : \A y \in S : x <= y
<1> DEFINE Upto(x) == {y \in S : y <= x}
           Segments == {Upto(x) : x \in S}
           Rel == StrictSubsetOrdering(S)
<1>1. IsFiniteSet(S)
    <2>1. IsFiniteSet(1..n)  BY FS_Interval
    <2> QED BY <2>1, FS_Subset
<1>2. IsWellFoundedOn(Rel, SUBSET S)
    BY <1>1, FS_StrictSubsetOrderingWellFounded, FS_FiniteSubsetsOfFinite
<1>3. Segments \subseteq SUBSET S /\ Segments # {}
    OBVIOUS
<1>4. PICK T \in Segments : \A U \in Segments : <<U, T>> \notin Rel
    <2> HIDE DEF Rel, Segments
    <2> QED BY <1>2, <1>3, WFMin
<1>5. PICK x \in S : T = Upto(x)
    BY <1>4
<1>6. \A y \in S : x <= y
    <2> SUFFICES ASSUME NEW y \in S, y < x
                 PROVE  FALSE
        OBVIOUS
    <2> HIDE DEF Segments, Rel
    <2>1. x \in Int /\ y \in Int /\ \A z \in S : z \in Int
        OBVIOUS
    <2>2. /\ x \in Upto(x)
          /\ x \notin Upto(y)
          /\ \A z \in S : z <= y => z <= x
        BY <2>1
    <2>3. Upto(y) \subseteq Upto(x)
        BY <2>2
    <2>4. <<Upto(y), T>> \in Rel
        BY <1>5, <2>2, <2>3 DEF StrictSubsetOrdering, Rel
    <2> QED BY <1>4, <2>4 DEF Segments
<1> QED BY <1>6

\* apply_policy returns a CaseStatus, and leaves an ERROR result alone.
LEMMA ApplyPolicyType ==
    ASSUME NEW current \in {"executed", "error"}, NEW names \in SUBSET Guardrails,
           NEW v
    PROVE  /\ ApplyPolicy(current, names, v) \in ResultStatus
           /\ current = "error" => ApplyPolicy(current, names, v) = "error"
           /\ ApplyPolicy(current, names, v) = "failed" =>
                 \E g \in names \cap Critical : v[g] = "failed"
BY DEF ApplyPolicy, ResultStatus

\* The next case is one of those left to execute.
LEMMA NextCase ==
    ASSUME TypeOK, NEW d \in Deliveries, todo[d] # {}
    PROVE  (CHOOSE x \in todo[d] : \A y \in todo[d] : x <= y) \in todo[d]
<1>1. \E x \in todo[d] : \A y \in todo[d] : x <= y
    BY LeastElement, RunAssumption DEF TypeOK, Cases
<1> QED BY <1>1

\* The next guardrail is one without a known row.
LEMMA NextGuardrail ==
    ASSUME TypeOK, NEW d \in Deliveries, ~CaseJudged(d)
    PROVE  (CHOOSE x \in Guardrails \ seen[d] :
               \A y \in Guardrails \ seen[d] : x <= y) \in Guardrails \ seen[d]
<1>1. Guardrails \ seen[d] # {}
    BY DEF CaseJudged, TypeOK
<1>2. \E x \in Guardrails \ seen[d] : \A y \in Guardrails \ seen[d] : x <= y
    BY <1>1, LeastElement, GuardrailAssumption DEF Guardrails
<1> QED BY <1>2

\* What ExecuteCase writes: the result of one case that was left to execute.
LEMMA ExecuteEffect ==
    ASSUME TypeOK, NEW d \in Deliveries, ExecuteCase(d)
    PROVE  \E c \in todo[d], o \in {"executed", "error"} :
              /\ c \in Cases
              /\ row' = [row EXCEPT ![<<c, d>>] = o]
              /\ todo' = [todo EXCEPT ![d] = todo[d] \ {c}]
<1> DEFINE c == CHOOSE x \in todo[d] : \A y \in todo[d] : x <= y
<1>1. c \in todo[d] /\ c \in Cases
    BY NextCase DEF ExecuteCase, InLoop, TypeOK
<1> QED BY <1>1 DEF ExecuteCase

\* What Judge writes: one new guardrail row of the case result being visited.
LEMMA JudgeEffect ==
    ASSUME TypeOK, NEW d \in Deliveries, Judge(d)
    PROVE  /\ cur[d] \in Rows
           /\ \/ \E g \in Guardrails, v \in VerdictStatus :
                    /\ verdict[cur[d]][g] = "none"
                    /\ verdict' = [verdict EXCEPT ![cur[d]][g] = v]
                    /\ seen' = [seen EXCEPT ![d] = seen[d] \cup {g}]
                    /\ UNCHANGED <<pc, exc, todo, list, cur>>
              \/ Raise(d, "permanent", Handler(d)) /\ UNCHANGED verdict
<1>1. cur[d] \in Rows
    BY DEF Judge, CaseJudged, TypeOK, NoRow
<1> DEFINE g == CHOOSE x \in Guardrails \ seen[d] :
                   \A y \in Guardrails \ seen[d] : x <= y
<1>2. g \in Guardrails
    BY NextGuardrail DEF Judge
<1> QED BY <1>1, <1>2 DEF Judge

\* What WriteScore writes: at most the status of the case result visited, and
\* that is apply_policy's.
LEMMA WriteScoreEffect ==
    ASSUME TypeOK, NEW d \in Deliveries, WriteScore(d)
    PROVE  /\ cur[d] \in Rows
           /\ \/ row' = row
              \/ \E s \in ResultStatus :
                    /\ row' = [row EXCEPT ![cur[d]] = s]
                    /\ s = "failed" => \E g \in Critical : verdict[cur[d]][g] = "failed"
<1> DEFINE r      == cur[d]
           listed == IF row[r] = "error" THEN "error" ELSE "executed"
           target == ApplyPolicy(listed, seen[d], verdict[r])
<1>1. r \in Rows
    BY DEF WriteScore, TypeOK, NoRow
<1>2. row' = IF target = listed THEN row ELSE [row EXCEPT ![r] = target]
    BY DEF WriteScore
<1>3. listed \in {"executed", "error"} /\ seen[d] \in SUBSET Guardrails
    BY DEF TypeOK
<1> HIDE DEF listed
<1>4. /\ target \in ResultStatus
      /\ target = "failed" => \E g \in Critical : verdict[r][g] = "failed"
    BY <1>3, ApplyPolicyType
<1> HIDE DEF target
<1> QED BY <1>1, <1>2, <1>4

-----------------------------------------------------------------------------
(* Type correctness.                                                       *)

\* Every action, taken from a well-typed state, leads to one: the steps of the
\* API, of the broker and of a task, one by one.
LEMMA TypeStep == TypeOK /\ [Next]_vars => TypeOK'
<1>1. ASSUME TypeOK, NEW d \in Deliveries, ExecuteCase(d) PROVE TypeOK'
    <2>1. PICK c \in todo[d], o \in {"executed", "error"} :
             /\ c \in Cases
             /\ row' = [row EXCEPT ![<<c, d>>] = o]
             /\ todo' = [todo EXCEPT ![d] = todo[d] \ {c}]
        BY <1>1, ExecuteEffect
    <2>2. <<c, d>> \in Rows /\ o \in ResultStatus
        BY <2>1 DEF Rows, ResultStatus
    <2>3. row' \in [Rows -> {"none"} \cup ResultStatus]
        BY <1>1, <2>1, <2>2 DEF TypeOK
    <2>4. todo' \in [Deliveries -> SUBSET Cases]
        BY <1>1, <2>1 DEF TypeOK
    <2> QED BY <1>1, <2>3, <2>4 DEF ExecuteCase, TypeOK
<1>2. ASSUME TypeOK, NEW d \in Deliveries, Judge(d) PROVE TypeOK'
    <2>1. cur[d] \in Rows
        BY <1>2, JudgeEffect
    <2>2. CASE Raise(d, "permanent", Handler(d)) /\ UNCHANGED verdict
        BY <1>2, <2>2
        DEF Judge, TypeOK, Raise, Goto, ClearScratch, Handler, Executing, NoRow
    <2>3. ASSUME NEW g \in Guardrails, NEW v \in VerdictStatus,
                 verdict' = [verdict EXCEPT ![cur[d]][g] = v],
                 seen' = [seen EXCEPT ![d] = seen[d] \cup {g}],
                 UNCHANGED <<pc, exc, todo, list, cur>>
          PROVE  TypeOK'
        BY <1>2, <2>1, <2>3 DEF Judge, TypeOK
    <2> QED BY <1>2, <2>2, <2>3, JudgeEffect
<1>3. ASSUME TypeOK, NEW d \in Deliveries, RetryOrGiveUp(d) PROVE TypeOK'
    <2>1. tries' \in [Deliveries -> 0..MaxRetries]
        <3>1. CASE UNCHANGED tries
            BY <1>3, <3>1 DEF TypeOK
        <3>2. CASE MayRetry(d) /\ tries' = [tries EXCEPT ![d] = tries[d] + 1]
            <4>1. tries[d] \in 0..MaxRetries /\ tries[d] + 1 \in 0..MaxRetries
                BY <1>3, <3>2, RunAssumption DEF TypeOK, MayRetry
            <4> QED BY <1>3, <3>2, <4>1 DEF TypeOK
        <3> QED BY <1>3, <3>1, <3>2 DEF RetryOrGiveUp
    <2> QED
        BY <1>3, <2>1
        DEF RetryOrGiveUp, TypeOK, Leave, Goto, ClearScratch, NoRow, db
<1>4. ASSUME TypeOK, NEW d \in Deliveries, SoftLimit(d) PROVE TypeOK'
    <2>1. \E e \in {"soft", "permanent"}, h \in Executing : Raise(d, e, h)
        BY <1>4 DEF SoftLimit, Executing, Handler
    <2> QED
        BY <1>4, <2>1, RunAssumption
        DEF SoftLimit, Fault, TypeOK, Raise, Goto, ClearScratch, NoRow, db
<1>5. ASSUME TypeOK, NEW d \in Deliveries, DbError(d) PROVE TypeOK'
    <2> USE RunAssumption
            DEF DbError, Fault, TypeOK, Raise, Leave, Goto, ClearScratch, Handler,
                Executing, NoRow, db, scratch
    <2>1. CASE InLoop(d) /\ Raise(d, "infra", "runfail") /\ UNCHANGED path
        BY <1>5, <2>1
    <2>2. CASE /\ pc[d] = "runfail" /\ Goto(d, "guard")
               /\ UNCHANGED <<path, exc, scratch>>
        BY <1>5, <2>2
    <2>3. CASE /\ pc[d] = "runcancel" /\ Goto(d, "raised")
               /\ UNCHANGED <<path, exc, scratch>>
        BY <1>5, <2>3
    <2>4. CASE pc[d] \in {"raised", "mark"} /\ Leave(d, "done") /\ UNCHANGED exc
        BY <1>5, <2>4
    <2>5. CASE Raise(d, "infra", Handler(d)) /\ UNCHANGED path
        BY <1>5, <2>5
    <2> QED BY <1>5, <2>1, <2>2, <2>3, <2>4, <2>5
<1>6. TypeOK /\ [Next]_vars => TypeOK'
    <2> SUFFICES ASSUME TypeOK, [Next]_vars
                 PROVE  TypeOK'
        OBVIOUS
    <2> USE RunAssumption DEF TypeOK, ActiveStatus, TerminalStatus, Executing, Guarded,
            Goto, Leave, Raise, ClearScratch, Fault, Handler, db, scratch
    <2>1. CASE CreateRun
        BY <2>1 DEF CreateRun
    <2>2. CASE EnqueueRaises
        BY <2>2 DEF EnqueueRaises
    <2>3. CASE ApiMarkFailed
        BY <2>3 DEF ApiMarkFailed
    <2>4. CASE ApiDies
        BY <2>4 DEF ApiDies
    <2>5. CASE ApiDbError
        BY <2>5 DEF ApiDbError
    <2>6. ASSUME NEW d \in Deliveries, Enqueue(d) PROVE TypeOK'
        BY <2>6 DEF Enqueue
    <2>7. ASSUME NEW d \in Deliveries, Start(d) PROVE TypeOK'
        BY <2>7 DEF Start
    <2>8. ASSUME NEW d \in Deliveries, LoadStatus(d) PROVE TypeOK'
        BY <2>8 DEF LoadStatus
    <2>9. ASSUME NEW d \in Deliveries, Prepare(d) PROVE TypeOK'
        BY <2>9 DEF Prepare
    <2>10. ASSUME NEW d \in Deliveries, RaceGuard(d) PROVE TypeOK'
        BY <2>10 DEF RaceGuard
    <2>11. ASSUME NEW d \in Deliveries, LoadContext(d) PROVE TypeOK'
        BY <2>11 DEF LoadContext
    <2>12. ASSUME NEW d \in Deliveries, LoadCases(d) PROVE TypeOK'
        BY <2>12 DEF LoadCases, PendingCases
    <2>13. ASSUME NEW d \in Deliveries, BeginRun(d) PROVE TypeOK'
        BY <2>13 DEF BeginRun
    <2>14. ASSUME NEW d \in Deliveries, ExecuteCase(d) PROVE TypeOK'
        BY <2>14, <1>1
    <2>15. ASSUME NEW d \in Deliveries, CompleteRun(d) PROVE TypeOK'
        BY <2>15 DEF CompleteRun
    <2>16. ASSUME NEW d \in Deliveries, RunnerMarks(d) PROVE TypeOK'
        BY <2>16 DEF RunnerMarks
    <2>17. ASSUME NEW d \in Deliveries, ListForHarness(d) PROVE TypeOK'
        BY <2>17 DEF ListForHarness, Executed
    <2>18. ASSUME NEW d \in Deliveries, VisitCase(d) PROVE TypeOK'
        BY <2>18 DEF VisitCase, Recorded
    <2>19. ASSUME NEW d \in Deliveries, Judge(d) PROVE TypeOK'
        BY <2>19, <1>2
    <2>20. ASSUME NEW d \in Deliveries, ListForScoring(d) PROVE TypeOK'
        BY <2>20 DEF ListForScoring, Unclassified, NoRow
    <2>21. ASSUME NEW d \in Deliveries, ReadVerdicts(d) PROVE TypeOK'
        BY <2>21 DEF ReadVerdicts, Recorded
    <2>22. ASSUME NEW d \in Deliveries, WriteScore(d) PROVE TypeOK'
        <3>1. /\ cur[d] \in Rows
              /\ \/ row' = row
                 \/ \E s \in ResultStatus : row' = [row EXCEPT ![cur[d]] = s]
            BY <2>22, WriteScoreEffect
        <3> QED BY <2>22, <3>1 DEF WriteScore
    <2>23. ASSUME NEW d \in Deliveries, FinishScoring(d) PROVE TypeOK'
        BY <2>23 DEF FinishScoring
    <2>24. ASSUME NEW d \in Deliveries, RetryOrGiveUp(d) PROVE TypeOK'
        BY <2>24, <1>3
    <2>25. ASSUME NEW d \in Deliveries, MarkRead(d) PROVE TypeOK'
        BY <2>25 DEF MarkRead
    <2>26. ASSUME NEW d \in Deliveries, MarkWrite(d) PROVE TypeOK'
        BY <2>26 DEF MarkWrite
    <2>27. ASSUME NEW d \in Deliveries, WorkerLost(d) PROVE TypeOK'
        BY <2>27 DEF WorkerLost
    <2>28. ASSUME NEW d \in Deliveries, HardLimit(d) PROVE TypeOK'
        BY <2>28 DEF HardLimit
    <2>29. ASSUME NEW d \in Deliveries, SoftLimit(d) PROVE TypeOK'
        BY <2>29, <1>4
    <2>30. ASSUME NEW d \in Deliveries, DbError(d) PROVE TypeOK'
        BY <2>30, <1>5
    <2>31. ASSUME NEW d \in Deliveries, PermanentError(d) PROVE TypeOK'
        BY <2>31 DEF PermanentError
    <2>32. ASSUME NEW d \in Deliveries, NEW e \in Deliveries, Redeliver(d, e) PROVE TypeOK'
        BY <2>32 DEF Redeliver
    <2>33. CASE UNCHANGED vars
        BY <2>33 DEF vars
    <2> QED
        BY <2>1, <2>2, <2>3, <2>4, <2>5, <2>6, <2>7, <2>8, <2>9, <2>10, <2>11, <2>12, <2>13, <2>14, <2>15, <2>16, <2>17, <2>18, <2>19, <2>20, <2>21, <2>22, <2>23, <2>24, <2>25, <2>26, <2>27, <2>28, <2>29, <2>30, <2>31, <2>32, <2>33
        DEF Next, ApiStep, TaskStep, TaskFault
<1> QED BY <1>6

\* Every variable keeps to its type, whatever fails.
THEOREM TypeCorrect == Spec => []TypeOK
<1>1. Init => TypeOK
    BY GuardrailAssumption, RunAssumption
    DEF Init, TypeOK, Rows, ActiveStatus, TerminalStatus, ResultStatus, VerdictStatus, NoRow
<1> QED BY <1>1, TypeStep, PTL DEF Spec

-----------------------------------------------------------------------------
(* What a step may write.                                                  *)

\* Case results are written by the runner's insert and by scoring, guardrail
\* rows by the harness alone.
LEMMA ResultWriters ==
    ASSUME [Next]_vars
    PROVE  /\ UNCHANGED row \/ \E d \in Deliveries : ExecuteCase(d) \/ WriteScore(d)
           /\ UNCHANGED verdict \/ \E d \in Deliveries : Judge(d)
BY DEF Next, ApiStep, TaskStep, TaskFault, vars, db, CreateRun, EnqueueRaises,
       ApiMarkFailed, ApiDies, ApiDbError, Enqueue, Start, LoadStatus, Prepare,
       RaceGuard, LoadContext, LoadCases, BeginRun, ExecuteCase, CompleteRun,
       RunnerMarks, ListForHarness, VisitCase, Judge, ListForScoring, ReadVerdicts,
       WriteScore, FinishScoring, RetryOrGiveUp, MarkRead, MarkWrite, WorkerLost,
       HardLimit, SoftLimit, DbError, PermanentError, Redeliver

\* A result, once inserted, is never removed.
LEMMA ResultsPersist ==
    ASSUME TypeOK, [Next]_vars, NEW r \in Rows, row[r] # "none"
    PROVE  row'[r] # "none"
<1>1. ASSUME NEW d \in Deliveries, ExecuteCase(d) PROVE row'[r] # "none"
    BY <1>1, ExecuteEffect DEF TypeOK
<1>2. ASSUME NEW d \in Deliveries, WriteScore(d) PROVE row'[r] # "none"
    BY <1>2, WriteScoreEffect DEF TypeOK, ResultStatus
<1> QED BY <1>1, <1>2, ResultWriters

\* A guardrail row, once inserted, is never rewritten.
LEMMA VerdictsPersist ==
    ASSUME TypeOK, [Next]_vars, NEW r \in Rows, NEW g \in Guardrails,
           verdict[r][g] # "none"
    PROVE  verdict'[r][g] = verdict[r][g]
<1>1. ASSUME NEW d \in Deliveries, Judge(d) PROVE verdict'[r][g] = verdict[r][g]
    <2>1. CASE UNCHANGED verdict
        BY <2>1
    <2>2. ASSUME NEW h \in Guardrails, NEW v \in VerdictStatus, cur[d] \in Rows,
                 verdict[cur[d]][h] = "none",
                 verdict' = [verdict EXCEPT ![cur[d]][h] = v]
          PROVE  verdict'[r][g] = verdict[r][g]
        BY <2>2 DEF TypeOK
    <2> QED BY <1>1, <2>1, <2>2, JudgeEffect
<1> QED BY <1>1, ResultWriters

-----------------------------------------------------------------------------
(* Safety of every execution.                                              *)

\* A result classified failed has a recorded critical failure: the verdicts
\* scoring acted on stay as they were.
THEOREM FailedHasCauseHolds == Spec => []FailedHasCause
<1>1. Init => FailedHasCause
    BY DEF Init, FailedHasCause
<1>2. TypeOK /\ FailedHasCause /\ [Next]_vars => FailedHasCause'
    <2> SUFFICES ASSUME TypeOK, FailedHasCause, [Next]_vars,
                        NEW r \in Rows, row'[r] = "failed"
                 PROVE  \E g \in Critical : verdict'[r][g] = "failed"
        BY DEF FailedHasCause
    <2>1. \E g \in Critical : verdict[r][g] = "failed"
        <3>1. CASE UNCHANGED row
            BY <3>1 DEF FailedHasCause
        <3>2. ASSUME NEW d \in Deliveries, ExecuteCase(d)
              PROVE  row[r] = "failed"
            BY <3>2, ExecuteEffect DEF TypeOK
        <3>3. ASSUME NEW d \in Deliveries, WriteScore(d)
              PROVE  row[r] = "failed" \/ \E g \in Critical : verdict[r][g] = "failed"
            BY <3>3, WriteScoreEffect DEF TypeOK
        <3> QED BY <3>1, <3>2, <3>3, ResultWriters DEF FailedHasCause
    <2> QED BY <2>1, VerdictsPersist, GuardrailAssumption
<1> QED BY <1>1, <1>2, TypeCorrect, PTL DEF Spec

\* What the runner's loop has established: every case is still to execute or
\* has a result.  The loop may have been entered by several deliveries at once.
LoopProgress ==
    \A d \in Deliveries :
        pc[d] \in {"begin", "run"} => \A c \in Cases \ todo[d] : HasResult(c)

\* A step of the system leaves the locals of delivery d alone, or is a step of
\* d itself, or puts its message on the queue.
Untouched(d) ==
    /\ pc'[d] = pc[d] /\ path'[d] = path[d] /\ exc'[d] = exc[d]
    /\ todo'[d] = todo[d] /\ list'[d] = list[d]
    /\ cur'[d] = cur[d] /\ seen'[d] = seen[d]

Own(d) ==
    \/ TaskStep(d)
    \/ WorkerLost(d) \/ HardLimit(d) \/ SoftLimit(d) \/ DbError(d) \/ PermanentError(d)

Queued(d) == pc'[d] = "queued" /\ UNCHANGED <<db, path, exc, scratch>>

\* A step of one task changes no local of another: what two executions share
\* is the database.
LEMMA TaskStepIsLocal ==
    ASSUME TypeOK, NEW e \in Deliveries, TaskStep(e), NEW d \in Deliveries \ {e}
    PROVE  Untouched(d)
<1> USE DEF TypeOK, Untouched, Goto, Leave, Raise, ClearScratch, scratch
<1>1. CASE Start(e) \/ LoadStatus(e) \/ Prepare(e) \/ RaceGuard(e)
    BY <1>1 DEF Start, LoadStatus, Prepare, RaceGuard
<1>2. CASE LoadContext(e) \/ LoadCases(e) \/ BeginRun(e) \/ CompleteRun(e)
    BY <1>2 DEF LoadContext, LoadCases, BeginRun, CompleteRun
<1>3. CASE ExecuteCase(e) \/ RunnerMarks(e) \/ ListForHarness(e) \/ VisitCase(e)
    BY <1>3 DEF ExecuteCase, RunnerMarks, ListForHarness, VisitCase
<1>4. CASE Judge(e) \/ ListForScoring(e)
    BY <1>4 DEF Judge, ListForScoring
<1>5. CASE ReadVerdicts(e) \/ WriteScore(e) \/ FinishScoring(e)
    BY <1>5 DEF ReadVerdicts, WriteScore, FinishScoring
<1>6. CASE RetryOrGiveUp(e) \/ MarkRead(e) \/ MarkWrite(e)
    BY <1>6 DEF RetryOrGiveUp, MarkRead, MarkWrite
<1> QED BY <1>1, <1>2, <1>3, <1>4, <1>5, <1>6 DEF TaskStep

\* Seen from delivery d, a step of the system is one of three kinds.
LEMMA LocalSteps ==
    ASSUME TypeOK, [Next]_vars, NEW d \in Deliveries
    PROVE  Untouched(d) \/ Own(d) \/ Queued(d)
<1> USE DEF TypeOK, Untouched, Own, Queued, Goto, Leave, Raise, ClearScratch, scratch
<1>1. CASE ApiStep \/ ApiDies \/ ApiDbError
    BY <1>1
    DEF ApiStep, CreateRun, EnqueueRaises, ApiMarkFailed, Enqueue, ApiDies, ApiDbError
<1>2. ASSUME NEW e \in Deliveries, TaskStep(e)
      PROVE  Untouched(d) \/ Own(d) \/ Queued(d)
    BY <1>2, TaskStepIsLocal DEF Own
<1>3. ASSUME NEW e \in Deliveries, TaskFault(e)
      PROVE  Untouched(d) \/ Own(d) \/ Queued(d)
    BY <1>3
    DEF TaskFault, WorkerLost, HardLimit, SoftLimit, DbError, PermanentError, Redeliver
<1>4. CASE UNCHANGED vars
    BY <1>4 DEF vars
<1> QED BY <1>1, <1>2, <1>3, <1>4 DEF Next

\* How a delivery comes to be before or in the runner's loop with what it has
\* left to do.
LEMMA LoopSteps ==
    ASSUME TypeOK, [Next]_vars, NEW d \in Deliveries, pc'[d] \in {"begin", "run"}
    PROVE  \/ LoadCases(d) \/ ExecuteCase(d)
           \/ pc[d] \in {"begin", "run"} /\ todo'[d] = todo[d]
<1> USE DEF TypeOK, Goto, Leave, Raise, ClearScratch, Handler, scratch
<1>1. CASE TaskStep(d)
    BY <1>1
    DEF TaskStep, Start, LoadStatus, Prepare, RaceGuard, LoadContext, BeginRun,
        CompleteRun, RunnerMarks, ListForHarness, VisitCase, Judge, ListForScoring,
        ReadVerdicts, WriteScore, FinishScoring, RetryOrGiveUp, MarkRead, MarkWrite
<1>2. CASE WorkerLost(d) \/ HardLimit(d) \/ SoftLimit(d) \/ DbError(d) \/ PermanentError(d)
    BY <1>2 DEF WorkerLost, HardLimit, SoftLimit, DbError, PermanentError
<1>3. CASE Untouched(d) \/ Queued(d)
    BY <1>3 DEF Untouched, Queued
<1> QED BY <1>1, <1>2, <1>3, LocalSteps DEF Own

\* Inside the loop, a case that is not left to execute has a result.
LEMMA LoopProgressStep ==
    ASSUME TypeOK, LoopProgress, [Next]_vars
    PROVE  LoopProgress'
<1> SUFFICES ASSUME NEW d \in Deliveries, pc'[d] \in {"begin", "run"},
                    NEW c \in Cases, c \notin todo'[d]
             PROVE  HasResult(c)'
    BY DEF LoopProgress
<1>1. HasResult(c) => HasResult(c)'
    BY ResultsPersist DEF HasResult, Rows
<1>2. CASE LoadCases(d)
    BY <1>1, <1>2 DEF LoadCases, PendingCases, TypeOK
<1>3. CASE ExecuteCase(d)
    <2>1. PICK x \in todo[d], o \in {"executed", "error"} :
             /\ x \in Cases
             /\ row' = [row EXCEPT ![<<x, d>>] = o]
             /\ todo' = [todo EXCEPT ![d] = todo[d] \ {x}]
        BY <1>3, ExecuteEffect
    <2>2. CASE c = x
        <3>1. row'[<<c, d>>] = o
            BY <2>1, <2>2 DEF TypeOK, Rows
        <3> QED BY <3>1 DEF HasResult
    <2>3. CASE c # x
        BY <1>1, <1>3, <2>1, <2>3 DEF LoopProgress, TypeOK, ExecuteCase, InLoop
    <2> QED BY <2>2, <2>3
<1>4. CASE pc[d] \in {"begin", "run"} /\ todo'[d] = todo[d]
    BY <1>1, <1>4 DEF LoopProgress
<1> QED BY <1>2, <1>3, <1>4, LoopSteps

\* Only the runner completes a run, with nothing left to do.
LEMMA CompletingStep ==
    ASSUME TypeOK, [Next]_vars, status' = "completed"
    PROVE  status = "completed" \/ \E d \in Deliveries : CompleteRun(d)
BY DEF Next, ApiStep, TaskStep, TaskFault, vars, db, CreateRun, EnqueueRaises,
       ApiMarkFailed, ApiDies, ApiDbError, Enqueue, Start, LoadStatus, Prepare,
       RaceGuard, LoadContext, LoadCases, BeginRun, ExecuteCase, CompleteRun,
       RunnerMarks, ListForHarness, VisitCase, Judge, ListForScoring, ReadVerdicts,
       WriteScore, FinishScoring, RetryOrGiveUp, MarkRead, MarkWrite, WorkerLost,
       HardLimit, SoftLimit, DbError, PermanentError, Redeliver

\* The runner completes a run only when every case has a result, however many
\* deliveries execute it.
THEOREM CompletedHasAllResultsHolds == Spec => []CompletedHasAllResults
<1> DEFINE Inv == LoopProgress /\ CompletedHasAllResults
<1>1. Init => Inv
    BY DEF Init, LoopProgress, CompletedHasAllResults
<1>2. TypeOK /\ Inv /\ [Next]_vars => Inv'
    <2> SUFFICES ASSUME TypeOK, Inv, [Next]_vars
                 PROVE  Inv'
        OBVIOUS
    <2>1. \A c \in Cases : HasResult(c) => HasResult(c)'
        BY ResultsPersist DEF HasResult, Rows
    <2>2. LoopProgress'
        BY LoopProgressStep
    <2>3. CompletedHasAllResults'
        <3> SUFFICES ASSUME status' = "completed", NEW c \in Cases
                     PROVE  HasResult(c)'
            BY DEF CompletedHasAllResults
        <3>1. CASE status = "completed"
            BY <3>1, <2>1 DEF CompletedHasAllResults
        <3>2. ASSUME NEW d \in Deliveries, CompleteRun(d) PROVE HasResult(c)'
            BY <3>2, <2>1 DEF CompleteRun, InLoop, LoopProgress
        <3> QED BY <3>1, <3>2, CompletingStep
    <2> QED BY <2>2, <2>3
<1> QED BY <1>1, <1>2, TypeCorrect, PTL DEF Spec

\* The case results the harness and scoring hold are rows of the database.
Listed ==
    \A d \in Deliveries :
        /\ \A r \in list[d] : row[r] # "none"
        /\ cur[d] \in Rows => row[cur[d]] # "none"

\* How a delivery comes to hold a case result.
LEMMA ListSteps ==
    ASSUME TypeOK, [Next]_vars, NEW d \in Deliveries
    PROVE  /\ \A r \in list'[d] : r \in list[d] \/ row[r] # "none"
           /\ cur'[d] \in {cur[d], NoRow} \cup list[d]
<1> USE DEF TypeOK, Goto, Leave, Raise, ClearScratch, scratch
<1>1. CASE TaskStep(d)
    BY <1>1
    DEF TaskStep, Start, LoadStatus, Prepare, RaceGuard, LoadContext, LoadCases, BeginRun,
        ExecuteCase, CompleteRun, RunnerMarks, ListForHarness, VisitCase, Judge,
        ListForScoring, ReadVerdicts, WriteScore, FinishScoring, RetryOrGiveUp, MarkRead,
        MarkWrite, Executed, Unclassified
<1>2. CASE WorkerLost(d) \/ HardLimit(d) \/ SoftLimit(d) \/ DbError(d) \/ PermanentError(d)
    BY <1>2 DEF WorkerLost, HardLimit, SoftLimit, DbError, PermanentError
<1>3. CASE Untouched(d) \/ Queued(d)
    BY <1>3 DEF Untouched, Queued
<1> QED BY <1>1, <1>2, <1>3, LocalSteps DEF Own

\* A case result that was listed once stays in the database: no code deletes
\* case results of a run.
LEMMA ListedStep ==
    ASSUME TypeOK, Listed, [Next]_vars
    PROVE  Listed'
<1> SUFFICES ASSUME NEW d \in Deliveries
             PROVE  /\ \A r \in list'[d] : row'[r] # "none"
                    /\ cur'[d] \in Rows => row'[cur'[d]] # "none"
    BY DEF Listed
<1>1. \A r \in Rows : row[r] # "none" => row'[r] # "none"
    BY ResultsPersist
<1>2. list[d] \subseteq Rows /\ \A r \in list'[d] : r \in Rows
    <2>1. TypeOK'
        BY TypeStep
    <2> QED BY <2>1 DEF TypeOK
<1>3. \A r \in list'[d] : row'[r] # "none"
    BY <1>1, <1>2, ListSteps DEF Listed
<1>4. ASSUME cur'[d] \in Rows PROVE row'[cur'[d]] # "none"
    BY <1>1, <1>2, <1>4, ListSteps DEF Listed, NoRow, Rows
<1> QED BY <1>3, <1>4

\* Only the runner inserts a result, for a case it had left to execute.
LEMMA InsertStep ==
    ASSUME TypeOK, Listed, [Next]_vars, NEW r \in Rows, row[r] = "none", row'[r] # "none"
    PROVE  \E d \in Deliveries : ExecuteCase(d) /\ \E c \in todo[d] :
              /\ c \in Cases /\ r = <<c, d>>
              /\ todo' = [todo EXCEPT ![d] = todo[d] \ {c}]
<1>1. ASSUME NEW d \in Deliveries, ExecuteCase(d)
      PROVE  \E c \in todo[d] :
                /\ c \in Cases /\ r = <<c, d>>
                /\ todo' = [todo EXCEPT ![d] = todo[d] \ {c}]
    <2>1. PICK c \in todo[d], o \in {"executed", "error"} :
             /\ c \in Cases
             /\ row' = [row EXCEPT ![<<c, d>>] = o]
             /\ todo' = [todo EXCEPT ![d] = todo[d] \ {c}]
        BY <1>1, ExecuteEffect
    <2>2. r = <<c, d>>
        BY <2>1 DEF TypeOK
    <2> QED BY <2>1, <2>2
<1>2. ASSUME NEW d \in Deliveries, WriteScore(d) PROVE FALSE
    BY <1>2, WriteScoreEffect DEF TypeOK, Listed
<1> QED BY <1>1, <1>2, ResultWriters

\* How what is left to execute changes.
LEMMA TodoSteps ==
    ASSUME TypeOK, [Next]_vars, NEW d \in Deliveries
    PROVE  LoadCases(d) \/ ExecuteCase(d) \/ todo'[d] \in {todo[d], {}}
<1> USE DEF TypeOK, Goto, Leave, Raise, ClearScratch, Handler, scratch
<1>1. CASE TaskStep(d)
    BY <1>1
    DEF TaskStep, Start, LoadStatus, Prepare, RaceGuard, LoadContext, BeginRun,
        CompleteRun, RunnerMarks, ListForHarness, VisitCase, Judge, ListForScoring,
        ReadVerdicts, WriteScore, FinishScoring, RetryOrGiveUp, MarkRead, MarkWrite
<1>2. CASE WorkerLost(d) \/ HardLimit(d) \/ SoftLimit(d) \/ DbError(d) \/ PermanentError(d)
    BY <1>2 DEF WorkerLost, HardLimit, SoftLimit, DbError, PermanentError
<1>3. CASE Untouched(d) \/ Queued(d)
    BY <1>3 DEF Untouched, Queued
<1> QED BY <1>1, <1>2, <1>3, LocalSteps DEF Own

\* A delivery never inserts a second result for a case, crashed and resumed
\* any number of times: what it has left excludes what it inserted.
THEOREM InsertsAreFreshHolds == Spec => []InsertsAreFresh
<1> DEFINE Inv == Listed /\ InsertsAreFresh
<1>1. Init => Inv
    BY DEF Init, Listed, InsertsAreFresh, NoRow, Rows
<1>2. TypeOK /\ Inv /\ [Next]_vars => Inv'
    <2> SUFFICES ASSUME TypeOK, Inv, [Next]_vars,
                        NEW d \in Deliveries, NEW c \in todo'[d]
                 PROVE  row'[<<c, d>>] = "none"
        BY ListedStep DEF InsertsAreFresh
    <2>1. c \in Cases /\ <<c, d>> \in Rows
        BY TypeStep DEF TypeOK, Rows
    <2>2. row[<<c, d>>] = "none"
        <3>1. CASE LoadCases(d)
            BY <3>1, <2>1 DEF LoadCases, PendingCases, HasResult, TypeOK
        <3>2. CASE ExecuteCase(d)
            <4>1. PICK x \in todo[d] : todo' = [todo EXCEPT ![d] = todo[d] \ {x}]
                BY <3>2, ExecuteEffect
            <4>2. c \in todo[d]
                BY <4>1 DEF TypeOK
            <4> QED BY <4>2 DEF InsertsAreFresh
        <3>3. CASE todo'[d] \in {todo[d], {}}
            BY <3>3 DEF InsertsAreFresh
        <3> QED BY <3>1, <3>2, <3>3, TodoSteps
    <2>3. ASSUME row'[<<c, d>>] # "none" PROVE FALSE
        <3>1. PICK e \in Deliveries : \E x \in todo[e] :
                 /\ <<c, d>> = <<x, e>>
                 /\ todo' = [todo EXCEPT ![e] = todo[e] \ {x}]
            BY <2>1, <2>2, <2>3, InsertStep
        <3> QED BY <3>1 DEF TypeOK
    <2> QED BY <2>3
<1> QED BY <1>1, <1>2, TypeCorrect, PTL DEF Spec

=============================================================================
