---------------------------- MODULE PlanningContract ----------------------------
(***************************************************************************)
(* What portfolio-planner promises of each signal, without messages,       *)
(* handlers, keys or dispatches (the rules of its domain model): orders    *)
(* are made only of signals that may be traded (RULE-PP-001, 002 and 004), *)
(* one of each signal (RULE-PP-003, INV-PP-003), and are saved before they *)
(* are announced (RULE-PP-006); a signal that may not be traded is         *)
(* announced as failed, and no other is.  The two histories say of which   *)
(* signals less is promised.                                               *)
(***************************************************************************)
CONSTANTS
  Identifiers,           \* the identifiers of signals
  Orders,                \* the orders that might be made
  SignalOf(_),           \* SignalOf(o): the signal that o is made of
  OrdersProposed(_, _),  \* OrdersProposed(i, S): the announcement of S, made of i
  ProposalFailed(_)      \* ProposalFailed(i): the announcement that i may not be traded

VARIABLES
  tradable,   \* the signals that may be traded
  orders,     \* the orders made
  published,  \* the announcements
  unguarded,  \* the signals whose key may not tell of an order of theirs
  unfinished  \* the signals whose order may not have been announced

Init ==
  /\ tradable \subseteq Identifiers
  /\ orders = {}
  /\ published = {}
  /\ unguarded = {}
  /\ unfinished = {}

\* What has been made of the signal i.
Made(i) == {o \in orders : SignalOf(o) = i}

\* An order is made of i, and another one only if i is unguarded.
Make(i) ==
  \E o \in Orders :
    /\ i \in tradable
    /\ SignalOf(o) = i
    /\ Made(i) \subseteq {o} \/ i \in unguarded
    /\ orders' = orders \cup {o}
    /\ UNCHANGED <<tradable, published, unguarded, unfinished>>

\* An order of i is announced, and none at all only if i is unfinished.
Announce(i) ==
  /\ i \in tradable
  /\ \/ \E o \in Made(i) : published' = published \cup {OrdersProposed(i, {o})}
     \/ i \in unfinished /\ published' = published \cup {OrdersProposed(i, {})}
  /\ UNCHANGED <<tradable, orders, unguarded, unfinished>>

Refuse(i) ==
  /\ i \notin tradable
  /\ published' = published \cup {ProposalFailed(i)}
  /\ UNCHANGED <<tradable, orders, unguarded, unfinished>>

\* Something went wrong about i.
Loosen(i) ==
  /\ unguarded' \in {unguarded, unguarded \cup {i}}
  /\ unfinished' \in {unfinished, unfinished \cup {i}}
  /\ UNCHANGED <<tradable, orders, published>>

Next == \E i \in Identifiers : Make(i) \/ Announce(i) \/ Refuse(i) \/ Loosen(i)

Spec == Init /\ [][Next]_<<tradable, orders, published, unguarded, unfinished>>

=================================================================================
