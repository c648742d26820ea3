--------------------------- MODULE ExecutionContract ----------------------------
(***************************************************************************)
(* What the execution service promises of each order, without messages,    *)
(* handlers or documents: the Orders part of the state-transition design   *)
(* (documents/外部設計/state/状態遷移設計.md, section 3) that the service owns, *)
(* with the rule of its domain model that an order goes to the broker once *)
(* (RULE-EX-002, INV-EX-003).  An order may stray from that, and is then   *)
(* exposed for good; no other order is touched by it.                      *)
(***************************************************************************)
EXTENDS Naturals

CONSTANT Orders

VARIABLES
  status,  \* status[o]: NONE before the approval arrives, then as in the design
  sent,    \* sent[o]: the orders the broker holds for o
  exposed  \* the orders that have strayed or may have

Statuses == {"NONE", "APPROVED", "EXECUTED", "FAILED"}

Init ==
  /\ status = [o \in Orders |-> "NONE"]
  /\ sent = [o \in Orders |-> 0]
  /\ exposed = {}

Accept(o) ==
  /\ status[o] = "NONE"
  /\ status' = [status EXCEPT ![o] = "APPROVED"]
  /\ UNCHANGED <<sent, exposed>>

Send(o) ==
  /\ status[o] = "APPROVED"
  /\ sent[o] = 0
  /\ sent' = [sent EXCEPT ![o] = 1]
  /\ UNCHANGED <<status, exposed>>

Execute(o) ==
  /\ status[o] = "APPROVED"
  /\ sent[o] = 1
  /\ status' = [status EXCEPT ![o] = "EXECUTED"]
  /\ UNCHANGED <<sent, exposed>>

Fail(o) ==
  /\ status[o] = "APPROVED"
  /\ sent[o] = 0
  /\ status' = [status EXCEPT ![o] = "FAILED"]
  /\ UNCHANGED <<sent, exposed>>

\* Even then the broker gets one order at a time, and EXECUTED means sent.
Stray(o) ==
  /\ exposed' = exposed \cup {o}
  /\ \E n \in {0, 1} : sent' = [sent EXCEPT ![o] = @ + n]
  /\ \E s \in Statuses : status' = [status EXCEPT ![o] = s]
  /\ status'[o] = "EXECUTED" => sent'[o] > 0

Next == \E o \in Orders : Accept(o) \/ Send(o) \/ Execute(o) \/ Fail(o) \/ Stray(o)

Spec == Init /\ [][Next]_<<status, sent, exposed>>

=================================================================================
