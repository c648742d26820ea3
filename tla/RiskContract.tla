------------------------------ MODULE RiskContract ------------------------------
(***************************************************************************)
(* What the risk-guard service promises the rest of the pipeline: a        *)
(* proposed order is decided once, the decision stands, and it is          *)
(* announced at most once, as it was decided (RULE-RG-007, INV-RG-002).    *)
(* An order may stray from that, and is then unguarded for good; no other  *)
(* order is touched by it.                                                 *)
(***************************************************************************)
EXTENDS Naturals

CONSTANTS
  Orders,    \* what is assessed
  Undecided  \* the decision of an order that has none

Decisions == {"APPROVED", "REJECTED"}

VARIABLES
  decision,  \* decision[o]: the standing decision on o
  announced, \* announced[o][d]: how often o was announced as d
  unguarded  \* the orders that have strayed or may have

Init ==
  /\ decision = [o \in Orders |-> Undecided]
  /\ announced = [o \in Orders |-> [d \in Decisions |-> 0]]
  /\ unguarded = {}

Decide(o) ==
  /\ decision[o] = Undecided
  /\ \E d \in Decisions : decision' = [decision EXCEPT ![o] = d]
  /\ UNCHANGED <<announced, unguarded>>

Announce(o) ==
  /\ decision[o] # Undecided
  /\ \A d \in Decisions : announced[o][d] = 0
  /\ announced' = [announced EXCEPT ![o][decision[o]] = 1]
  /\ UNCHANGED <<decision, unguarded>>

\* Even then a decision is only replaced by another, and one at a time announced.
Stray(o) ==
  /\ unguarded' = unguarded \cup {o}
  /\ \E d \in Decisions \cup {decision[o]} : decision' = [decision EXCEPT ![o] = d]
  /\ \E d \in Decisions, n \in {0, 1} : announced' = [announced EXCEPT ![o][d] = @ + n]

Next == \E o \in Orders : Decide(o) \/ Announce(o) \/ Stray(o)

Spec == Init /\ [][Next]_<<decision, announced, unguarded>>

=================================================================================
