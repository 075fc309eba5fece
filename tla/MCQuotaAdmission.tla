-------------------------- MODULE MCQuotaAdmission --------------------------
(* Constants of module QuotaAdmission for TLC.                             *)
EXTENDS QuotaAdmission

\* Two rows of limits: one of everything, and room for a second active run.
Tight == [d \in Dimensions |-> 1]
Roomy == [d \in Dimensions |-> IF d = "test" THEN 1 ELSE 2]
Either == {Tight, Roomy}

=============================================================================
