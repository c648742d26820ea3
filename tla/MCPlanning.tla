------------------------------- MODULE MCPlanning -------------------------------
(* Small instances of Planning for TLC. *)
EXTENDS Planning, TLC

CONSTANTS i1, m1, m2, w1, w2

\* Two messages of one signal: signal.generated may be published twice.
Identifies == [m \in Messages |-> i1]

\* Both workers run the same handler, and both messages are alike.
Symmetry == Permutations(Workers) \cup Permutations(Messages)

=================================================================================
