---------------------------- MODULE MCOrderExecution ----------------------------
(* Small instances of OrderExecution for TLC. *)
EXTENDS OrderExecution, TLC

CONSTANTS o1, o2, o3, m1, m2, m3, w1, w2

\* Two approvals of one order: the risk guard's and an operator's.
TwoApprovals == m1 :> o1 @@ m2 :> o1

\* One approval of each of two orders; the third message is malformed.
OneApprovalEach == m1 :> o1 @@ m2 :> o2 @@ m3 :> o3

OneApproval == m1 :> o1

WorkerSymmetry == Permutations(Workers)

=================================================================================
