-------------------------- MODULE MCFeatureGeneration ---------------------------
(* Small instances of FeatureGeneration for TLC. *)
EXTENDS FeatureGeneration, TLC

CONSTANTS i1, m1, m2, w1, w2

\* Both messages are of one event; one of them may not be decodable.
Identifies == [m \in Messages |-> i1]

=================================================================================
