----------------------------- MODULE MCControlPlane -----------------------------
(* Small instances of ControlPlane for TLC. *)
EXTENDS ControlPlane, TLC

CONSTANTS o1, r1, r2, r3

\* No document, the planner's, and complete ones in a status that can change.
SomeOrders ==
  {NoOrder, [status |-> "PROPOSED", readable |-> FALSE],
   [status |-> "PROPOSED", readable |-> TRUE], [status |-> "FAILED", readable |-> TRUE]}

\* The requests are alike.
RequestSymmetry == Permutations(Requests)

=================================================================================
