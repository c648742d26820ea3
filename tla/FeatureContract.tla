---------------------------- MODULE FeatureContract -----------------------------
(***************************************************************************)
(* What feature-engineering promises of each market.collected event,       *)
(* without messages, leases, dispatches or outbox (the rules of its domain *)
(* model): the outcome is what the event calls for and, once decided, is   *)
(* final (RULE-FE-001, 002, INV-FE-005); their artifact is stored before   *)
(* features are announced (RULE-FE-005), a failure is saved before it is   *)
(* (RULE-FE-008); and an event is announced once (INV-FE-004), unless its  *)
(* handling was disturbed.  What the event calls for does not depend on    *)
(* insights, not even on those of a later day, for which RULE-FE-003 wants *)
(* a failure: the service never sees them.                                 *)
(***************************************************************************)
EXTENDS Naturals

CONSTANTS
  Identifiers,  \* the identifiers of events
  Outcomes,     \* what may be decided of an event
  Undecided,    \* no outcome yet
  Events,       \* the announcements
  EventOf(_)    \* EventOf(g): the announcement of the outcome g

VARIABLES
  healthy,   \* the events that features can be made of
  outcome,   \* outcome[i]: what was decided of the event i
  stored,    \* the events whose artifact is stored
  told,      \* told[i][e]: how often e was announced about i
  disturbed  \* the events whose handling was disturbed

Init ==
  /\ healthy \subseteq Identifiers
  /\ outcome = [i \in Identifiers |-> Undecided]
  /\ stored = {}
  /\ told = [i \in Identifiers |-> [e \in Events |-> 0]]
  /\ disturbed = {}

\* A step about i may be disturbed: what it did stays.
Perhaps(i) == disturbed' \in {disturbed, disturbed \cup {i}}

Store(i) ==
  /\ i \in healthy
  /\ stored' = stored \cup {i}
  /\ Perhaps(i)
  /\ UNCHANGED <<healthy, outcome, told>>

Decide(i, g) ==
  /\ outcome[i] = Undecided
  /\ IF i \in healthy THEN g.status = "GENERATED" /\ i \in stored ELSE g.status = "FAILED"
  /\ outcome' = [outcome EXCEPT ![i] = g]
  /\ Perhaps(i)
  /\ UNCHANGED <<healthy, stored, told>>

Announce(i) ==
  /\ outcome[i] # Undecided
  /\ \A e \in Events : told[i][e] > 0 => i \in disturbed
  /\ told' = [told EXCEPT ![i][EventOf(outcome[i])] = @ + 1]
  /\ Perhaps(i)
  /\ UNCHANGED <<healthy, outcome, stored>>

Disturb(i) ==
  /\ disturbed' = disturbed \cup {i}
  /\ UNCHANGED <<healthy, outcome, stored, told>>

Next ==
  \E i \in Identifiers :
    \/ Store(i) \/ Announce(i) \/ Disturb(i)
    \/ \E g \in Outcomes : Decide(i, g)

Spec == Init /\ [][Next]_<<healthy, outcome, stored, told, disturbed>>

=================================================================================
