------------------------------ MODULE PushDelivery ------------------------------
(***************************************************************************)
(* The Pub/Sub push subscription every service of the pipeline sits        *)
(* behind.  It is an external service: what is modelled is the contract    *)
(* that infrastructure/platform/modules/pubsub/main.tf configures and the  *)
(* handlers rely on.  A message is pushed to an HTTP handler; a 2xx answer *)
(* acknowledges it, a 5xx answer or an expired acknowledgement deadline    *)
(* queues it again, and after MaxDeliveries pushes it goes to the          *)
(* dead-letter topic.  Nothing is ordered (enable_message_ordering=false). *)
(*                                                                         *)
(* A worker is one handler invocation in flight; Cloud Run runs as many as *)
(* there are concurrent pushes.                                            *)
(***************************************************************************)
EXTENDS Naturals

CONSTANTS
  Messages,       \* the messages published to the subscribed topic
  Workers,        \* the handler invocations that may be in flight together
  MaxDeliveries,  \* pushes before a message is dead-lettered (5 in main.tf)
  Faults,         \* what the environment does in this run, out of FaultKinds
  NoMessage       \* what an idle worker holds

(***************************************************************************)
(* The faults of the environment, each of them switched on by naming it.   *)
(*   crash        an instance dies between two steps of a handler          *)
(*   overlap      the deadline passes while the handler is still running   *)
(*   redeliver    an acknowledged message is pushed once more              *)
(*   readError    a document read fails after its retries                  *)
(*   complianceError  the read of the compliance document fails            *)
(*   persistLost  a document write fails after its retries                 *)
(*   publishLost  an event publication fails                               *)
(*   lostAnswer   a request is carried out, the broker's order or a write  *)
(*                of a Python service, and its answer is lost              *)
(*   overrun      a handler outlives the lease of its idempotency key      *)
(***************************************************************************)
FaultKinds ==
  {"crash", "overlap", "redeliver", "readError", "complianceError", "persistLost",
   "publishLost", "lostAnswer", "overrun"}

ASSUME DeliveryAssumption ==
  /\ MaxDeliveries \in Nat \ {0}
  /\ Faults \subseteq FaultKinds
  /\ NoMessage \notin Messages

VARIABLES
  sub,         \* sub[m]: where the message is
  deliveries,  \* deliveries[m]: how often it has been pushed
  held,        \* held[w]: the message the worker is handling
  lease        \* lease[w]: the number of the push the worker is answering

deliveryVars == <<sub, deliveries, held, lease>>

DeliveryTypeOK ==
  /\ sub \in [Messages -> {"queued", "outstanding", "acked", "dead"}]
  /\ deliveries \in [Messages -> 0..MaxDeliveries]
  /\ held \in [Workers -> Messages \cup {NoMessage}]
  /\ lease \in [Workers -> 0..MaxDeliveries]
  /\ \A m \in Messages : sub[m] = "queued" => deliveries[m] < MaxDeliveries

DeliveryInit ==
  /\ sub = [m \in Messages |-> "queued"]
  /\ deliveries = [m \in Messages |-> 0]
  /\ held = [w \in Workers |-> NoMessage]
  /\ lease = [w \in Workers |-> 0]

Idle(w) == held[w] = NoMessage

\* The subscription pushes a queued message to a handler.
Push(w, m) ==
  /\ Idle(w)
  /\ sub[m] = "queued"
  /\ sub' = [sub EXCEPT ![m] = "outstanding"]
  /\ deliveries' = [deliveries EXCEPT ![m] = @ + 1]
  /\ held' = [held EXCEPT ![w] = m]
  /\ lease' = [lease EXCEPT ![w] = deliveries[m] + 1]

\* The worker's answer still counts: its deadline has not passed.
Current(w) ==
  /\ sub[held[w]] = "outstanding"
  /\ lease[w] = deliveries[held[w]]

\* Mutant: no dead_letter_policy.
RequeuedForEver(m) == "queued"

\* Where an unacknowledged message goes.
Requeued(m) == IF deliveries[m] < MaxDeliveries THEN "queued" ELSE "dead"

Release(w) ==
  /\ held' = [held EXCEPT ![w] = NoMessage]
  /\ lease' = [lease EXCEPT ![w] = 0]
  /\ UNCHANGED deliveries

\* A 2xx answer: an answer after the deadline changes nothing.
Ack(w) ==
  /\ sub' = [sub EXCEPT ![held[w]] = IF Current(w) THEN "acked" ELSE @]
  /\ Release(w)

\* A 5xx answer, or none because the instance died.
Nack(w) ==
  /\ sub' = [sub EXCEPT ![held[w]] = IF Current(w) THEN Requeued(held[w]) ELSE @]
  /\ Release(w)

\* ack_deadline_seconds passes while a handler is still working.
Expire(m) ==
  /\ "overlap" \in Faults
  /\ sub[m] = "outstanding"
  /\ sub' = [sub EXCEPT ![m] = Requeued(m)]
  /\ UNCHANGED <<deliveries, held, lease>>

\* At-least-once delivery: an acknowledged message is pushed again.
Redeliver(m) ==
  /\ "redeliver" \in Faults
  /\ sub[m] = "acked"
  /\ deliveries[m] < MaxDeliveries
  /\ sub' = [sub EXCEPT ![m] = "queued"]
  /\ UNCHANGED <<deliveries, held, lease>>

\* The subscription is done with the message.
Resolved(m) == sub[m] \in {"acked", "dead"}

=================================================================================
