---------------------------- MODULE MCRegression ----------------------------
(* Constants of module Regression for TLC.                                 *)
EXTENDS Regression, TLC

\* Any difference counts, and so does an average latency one fifth up.
Strict == [passRateDrop |-> 0, errorRateIncrease |-> 0,
           guardrailIncrease |-> 0, latencyIncrease |-> 20 * Scale]

\* Two runs of the same cases, and a case that only the current run has.
SameCases == [run \in Runs |-> {1, 2}]
CaseAdded == [run \in Runs |-> IF run = Baseline THEN {1} ELSE {1, 2}]
BothPinnings == {SameCases, CaseAdded}

\* Answers of the current run may take twice as long.
Slower == [run \in Runs |-> IF run = Baseline THEN {10} ELSE {10, 20}]

RequestSymmetry == Permutations(Requests)

=============================================================================
