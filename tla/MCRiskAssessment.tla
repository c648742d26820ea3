---------------------------- MODULE MCRiskAssessment ----------------------------
(* Small instances of RiskAssessment for TLC. *)
EXTENDS RiskAssessment, TLC

CONSTANTS a1, k1, m1, n1, c1, w1, w2

\* m1 proposes the order that the command c1 is about, and n1 announces a change
\* of the kill switch.
Identifies == [r \in Requests |-> IF r = n1 THEN k1 ELSE a1]

WorkerSymmetry == Permutations(Workers)

=================================================================================
