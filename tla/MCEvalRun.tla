----------------------------- MODULE MCEvalRun -----------------------------
(* Constants of module EvalRun for TLC.                                    *)
EXTENDS EvalRun, TLC

\* Deliveries are interchangeable until one of them is published.
DeliverySymmetry == Permutations(Deliveries)

=============================================================================
