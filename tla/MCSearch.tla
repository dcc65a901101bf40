------------------------------- MODULE MCSearch -------------------------------
(* Instances of Search for TLC.  One source is beyond the evidence budget.   *)
EXTENDS Search

CONSTANTS v1, v2, v3

MCLength == [v \in Version |-> IF v = v3 THEN 3 ELSE 1]

(* The settings of the instance are in the proportion of the defaults.       *)
ASSUME Proportion == AgreementOutweighs /\ RanksReachThresholds
=============================================================================
