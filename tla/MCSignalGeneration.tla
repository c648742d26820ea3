--------------------------- MODULE MCSignalGeneration ---------------------------
(* Small instances of SignalGeneration for TLC. *)
EXTENDS SignalGeneration, TLC

CONSTANTS i1, m1, m2, w1, w2

\* Every message is of one event.
Identifies == [m \in Messages |-> i1]

\* Both workers run the same handler.
Symmetry == Permutations(Workers)

=================================================================================
