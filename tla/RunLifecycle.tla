---------------------------- MODULE RunLifecycle ----------------------------
(***************************************************************************)
(* What an evaluation run promises to those who read it: it is created     *)
(* pending, executed once, case by case, and ends in one terminal status;  *)
(* it completes only when every case has a result; results are classified  *)
(* once, and only in a completed run.  No worker, message or retry appears *)
(* here: module EvalRun says how they are meant to keep this promise.      *)
(***************************************************************************)
CONSTANT Cases

VARIABLES
    status,  \* EvaluationRun.status, "none" before the run exists
    outcome  \* status of each case's result, "none" before there is one

vars == <<status, outcome>>

Init ==
    /\ status = "none"
    /\ outcome = [c \in Cases |-> "none"]

Create ==
    /\ status = "none"
    /\ status' = "pending"
    /\ UNCHANGED outcome

Begin ==
    /\ status = "pending"
    /\ status' = "running"
    /\ UNCHANGED outcome

\* A case is executed at most once, and only while the run is running.
Record(c) ==
    /\ status = "running"
    /\ outcome[c] = "none"
    /\ \E o \in {"executed", "error"} : outcome' = [outcome EXCEPT ![c] = o]
    /\ UNCHANGED status

Complete ==
    /\ status = "running"
    /\ \A c \in Cases : outcome[c] # "none"
    /\ status' = "completed"
    /\ UNCHANGED outcome

\* An unfinished run may fail or be cancelled.
Abandon ==
    /\ status \in {"pending", "running"}
    /\ status' \in {"failed", "cancelled"}
    /\ UNCHANGED outcome

\* Scoring gives an executed case its verdict, once.
Classify(c) ==
    /\ status = "completed"
    /\ outcome[c] = "executed"
    /\ \E o \in {"passed", "failed"} : outcome' = [outcome EXCEPT ![c] = o]
    /\ UNCHANGED status

Next ==
    \/ Create \/ Begin \/ Complete \/ Abandon
    \/ \E c \in Cases : Record(c) \/ Classify(c)

Spec == Init /\ [][Next]_vars

=============================================================================
