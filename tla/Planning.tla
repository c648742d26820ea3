-------------------------------- MODULE Planning --------------------------------
(***************************************************************************)
(* The portfolio-planner service: the push handler of signal.generated     *)
(* (Presentation/PubSubHandler.hs, UseCase/PortfolioPlanningService.hs),   *)
(* one action per request to Firestore or Pub/Sub.  A handler walks        *)
(*   findKey -> startDispatch -> saveOrder -> completeDispatch ->          *)
(*   saveKey -> findDispatch -> findOrder -> publish                       *)
(* and leaves that path for publishFailed when no order may be made of the *)
(* signal.  The error of every write and publication is dropped, and a     *)
(* read that fails finds nothing.                                          *)
(*                                                                         *)
(* The key of a signal is looked up first and recorded only after the      *)
(* order, and the order is announced only after the key.                   *)
(***************************************************************************)
EXTENDS PushDelivery

CONSTANTS
  Identifiers,  \* the identifiers of signal.generated events
  IdentifierOf  \* IdentifierOf[m]: the event that m carries

ASSUME PlanningAssumption == IdentifierOf \in [Messages -> Identifiers]

VARIABLES
  step,        \* step[w]: where the handler w is
  payload,     \* payload[i]: what the signal is like (external)
  keys,        \* the signals with an idempotency_keys document
  dispatches,  \* dispatches[i]: the status in the proposal_dispatches document
  orders,      \* the documents of the orders collection, all of them PROPOSED
  published,   \* the events published
  unguarded,   \* the signals whose key may not tell of an order of theirs (history)
  unfinished   \* the signals whose handler failed after the key (history)

documents == <<keys, dispatches, orders>>
histories == <<unguarded, unfinished>>
vars == <<deliveryVars, step, payload, documents, published, histories>>

---------------------------------------------------------------------------------
(* What a signal may be like.  malformed: a field is missing; barred: a    *)
(* version is empty, or compliance is to review it (checkEligibility);     *)
(* unsized: its maxSingleOrderQty is not positive (calculateQuantity).     *)
Payloads == {"malformed", "barred", "unsized", "valid"}

\* The identifier of an order is new in every push: it stands for the push.
Orders == Messages \X (0..MaxDeliveries)

\* The order that w may make, the event it works on, and the event of an order.
Order(w) == <<held[w], lease[w]>>
Identifier(w) == IdentifierOf[held[w]]
SignalOf(o) == IdentifierOf[o[1]]

\* buildOrdersProposedEvent, buildOrdersProposalFailedEvent.
OrdersProposed(i, some) == [type |-> "orders.proposed", identifier |-> i, orders |-> some]
ProposalFailed(i) == [type |-> "orders.proposal.failed", identifier |-> i, orders |-> {}]

Events ==
  [type : {"orders.proposed", "orders.proposal.failed"}, identifier : Identifiers,
   orders : SUBSET Orders]

Writes == {"startDispatch", "failDispatch", "saveOrder", "completeDispatch", "saveKey"}

Publications == {"publishProposed", "publishEmpty", "publishFailed"}

\* The steps at which the key is, or is being, recorded, and nothing announced.
Announcing == {"saveKey", "findDispatch", "findOrder", "publishProposed", "publishEmpty"}

Goto(w, s) == step' = [step EXCEPT ![w] = s]

\* Every variable has its type.
TypeOK ==
  /\ DeliveryTypeOK
  /\ step \in [Workers -> {"idle", "findKey", "findDispatch", "findOrder", "ok", "error"}
                            \cup Writes \cup Publications]
  /\ \A w \in Workers : (step[w] = "idle") = (held[w] = NoMessage)
  /\ payload \in [Identifiers -> Payloads]
  /\ keys \subseteq Identifiers
  /\ dispatches \in [Identifiers -> {"none", "pending", "completed", "failed"}]
  /\ orders \subseteq Orders
  /\ published \subseteq Events
  /\ unguarded \subseteq Identifiers
  /\ unfinished \subseteq Identifiers

Init ==
  /\ DeliveryInit
  /\ step = [w \in Workers |-> "idle"]
  /\ payload \in [Identifiers -> Payloads]
  /\ keys = {}
  /\ dispatches = [i \in Identifiers |-> "none"]
  /\ orders = {}
  /\ published = {}
  /\ unguarded = {}
  /\ unfinished = {}

---------------------------------------------------------------------------------
(* proposeOrders.                                                          *)

\* A document is not there, or its read fails: find... answers Nothing to both.
Unseen(there) == ~there \/ "readError" \in Faults

\* checkEligibility.
AfterKey(i) == IF payload[i] = "barred" THEN "publishFailed" ELSE "startDispatch"

\* Mutant: the key is not looked up.
FindKeyNot(w) ==
  /\ step[w] = "findKey"
  /\ Goto(w, AfterKey(Identifier(w)))
  /\ UNCHANGED <<deliveryVars, payload, documents, published, histories>>

\* findIdempotencyKey: a signal with a key is a duplicate.
FindKey(w) ==
  /\ step[w] = "findKey"
  /\ \/ Identifier(w) \in keys /\ Goto(w, "ok") /\ UNCHANGED unguarded
     \/ /\ Unseen(Identifier(w) \in keys)
        /\ Goto(w, AfterKey(Identifier(w)))
        /\ unguarded' = unguarded \cup ({Identifier(w)} \cap keys)
  /\ UNCHANGED <<deliveryVars, payload, documents, published, unfinished>>

\* Where a write leads, whether it succeeds or not; calculateQuantity.
AfterWrite(w) ==
  CASE step[w] = "startDispatch" ->
         IF payload[Identifier(w)] = "unsized" THEN "failDispatch" ELSE "saveOrder"
    [] step[w] = "failDispatch" -> "publishFailed"
    [] step[w] = "saveOrder" -> "completeDispatch"
    [] step[w] = "completeDispatch" -> "saveKey"
    [] step[w] = "saveKey" -> "findDispatch"

(* A document is set, and withRetry sets it once more when the answer gets *)
(* lost.                                                                   *)
Written(w) ==
  /\ \/ Goto(w, AfterWrite(w))
     \/ "lostAnswer" \in Faults /\ UNCHANGED step
  /\ UNCHANGED <<deliveryVars, payload, published, histories>>

StatusAt(s) ==
  CASE s = "startDispatch" -> "pending"
    [] s = "completeDispatch" -> "completed"
    [] s = "failDispatch" -> "failed"

PersistDispatch(w) ==
  /\ step[w] \in {"startDispatch", "completeDispatch", "failDispatch"}
  /\ dispatches' = [dispatches EXCEPT ![Identifier(w)] = StatusAt(step[w])]
  /\ Written(w)
  /\ UNCHANGED <<keys, orders>>

PersistOrder(w) ==
  /\ step[w] = "saveOrder"
  /\ orders' = orders \cup {Order(w)}
  /\ Written(w)
  /\ UNCHANGED <<keys, dispatches>>

PersistKey(w) ==
  /\ step[w] = "saveKey"
  /\ keys' = keys \cup {Identifier(w)}
  /\ Written(w)
  /\ UNCHANGED <<dispatches, orders>>

\* A write fails for good: the handler goes on all the same.
PersistFails(w) ==
  /\ "persistLost" \in Faults
  /\ step[w] \in Writes
  /\ Goto(w, AfterWrite(w))
  /\ unguarded' = IF step[w] = "saveKey" THEN unguarded \cup {Identifier(w)} ELSE unguarded
  /\ UNCHANGED <<deliveryVars, payload, documents, published, unfinished>>

---------------------------------------------------------------------------------
(* publishFromResult.                                                      *)

\* Mutant: a dispatch that is not found is answered 200.
FindDispatchQuietly(w) ==
  /\ step[w] = "findDispatch"
  /\ \/ dispatches[Identifier(w)] # "none" /\ Goto(w, "findOrder") /\ UNCHANGED unfinished
     \/ /\ Unseen(dispatches[Identifier(w)] # "none")
        /\ Goto(w, "ok")
        /\ unfinished' = unfinished \cup ({Identifier(w)} \cap keys)
  /\ UNCHANGED <<deliveryVars, payload, documents, published, unguarded>>

(* The dispatch is read back.  When it is not found the answer is 500, but *)
(* the signal has its key by now.                                          *)
FindDispatch(w) ==
  /\ step[w] = "findDispatch"
  /\ \/ dispatches[Identifier(w)] # "none" /\ Goto(w, "findOrder") /\ UNCHANGED unfinished
     \/ /\ Unseen(dispatches[Identifier(w)] # "none")
        /\ Goto(w, "error")
        /\ unfinished' = unfinished \cup ({Identifier(w)} \cap keys)
  /\ UNCHANGED <<deliveryVars, payload, documents, published, unguarded>>

\* Mutant: what is announced is what was made, and not read back.
FindOrderNot(w) ==
  /\ step[w] = "findOrder"
  /\ Goto(w, "publishProposed")
  /\ UNCHANGED <<deliveryVars, payload, documents, published, histories>>

\* The order is read back.  When it is not found the announcement is empty.
FindOrder(w) ==
  /\ step[w] = "findOrder"
  /\ \/ Order(w) \in orders /\ Goto(w, "publishProposed") /\ UNCHANGED unfinished
     \/ /\ Unseen(Order(w) \in orders)
        /\ Goto(w, "publishEmpty")
        /\ unfinished' = unfinished \cup {Identifier(w)}
  /\ UNCHANGED <<deliveryVars, payload, documents, published, unguarded>>

EventAt(w) ==
  CASE step[w] = "publishProposed" -> OrdersProposed(Identifier(w), {Order(w)})
    [] step[w] = "publishEmpty"    -> OrdersProposed(Identifier(w), {})
    [] step[w] = "publishFailed"   -> ProposalFailed(Identifier(w))

\* pubSubPushResultToStatus: a proposal that failed is answered 500.
AfterPublish(s) == IF s = "publishFailed" THEN "error" ELSE "ok"

Publish(w) ==
  /\ step[w] \in Publications
  /\ published' = published \cup {EventAt(w)}
  /\ Goto(w, AfterPublish(step[w]))
  /\ UNCHANGED <<deliveryVars, payload, documents, histories>>

\* The error is dropped.
PublishFails(w) ==
  /\ "publishLost" \in Faults
  /\ step[w] \in Publications
  /\ Goto(w, AfterPublish(step[w]))
  /\ unfinished' = IF step[w] = "publishFailed" THEN unfinished
                   ELSE unfinished \cup {Identifier(w)}
  /\ UNCHANGED <<deliveryVars, payload, documents, published, unguarded>>

---------------------------------------------------------------------------------
(* The handler.                                                            *)

\* What cannot be decoded is answered 200.
FirstStep(p) == IF p = "malformed" THEN "ok" ELSE "findKey"

\* Another handler works on the event of m.
Contested(w, m) ==
  \E v \in Workers \ {w} : held[v] # NoMessage /\ Identifier(v) = IdentifierOf[m]

Receive(w, m) ==
  /\ step[w] = "idle"
  /\ Push(w, m)
  /\ Goto(w, FirstStep(payload[IdentifierOf[m]]))
  /\ unguarded' = IF Contested(w, m) THEN unguarded \cup {IdentifierOf[m]} ELSE unguarded
  /\ UNCHANGED <<payload, documents, published, unfinished>>

Reply(w) ==
  /\ \/ step[w] = "ok" /\ Ack(w)
     \/ step[w] = "error" /\ Nack(w)
  /\ Goto(w, "idle")
  /\ UNCHANGED <<payload, documents, published, histories>>

(* The instance dies.  It matters between the order and its key, and       *)
(* between the key and the announcement.                                   *)
Crash(w) ==
  /\ "crash" \in Faults
  /\ step[w] # "idle"
  /\ Nack(w)
  /\ Goto(w, "idle")
  /\ unguarded' = IF Order(w) \in orders /\ Identifier(w) \notin keys
                  THEN unguarded \cup {Identifier(w)} ELSE unguarded
  /\ unfinished' = IF step[w] \in Announcing /\ Identifier(w) \in keys
                   THEN unfinished \cup {Identifier(w)} ELSE unfinished
  /\ UNCHANGED <<payload, documents, published>>

Propose(w) == FindKey(w) \/ PersistDispatch(w) \/ PersistOrder(w) \/ PersistKey(w)

Announce(w) == FindDispatch(w) \/ FindOrder(w) \/ Publish(w)

Handle(w) == Propose(w) \/ Announce(w) \/ Reply(w)

Subscription ==
  /\ \E m \in Messages : Expire(m) \/ Redeliver(m)
  /\ UNCHANGED <<step, payload, documents, published, histories>>

Next ==
  \/ \E w \in Workers, m \in Messages : Receive(w, m)
  \/ \E w \in Workers : Handle(w) \/ PersistFails(w) \/ PublishFails(w) \/ Crash(w)
  \/ Subscription

Spec == Init /\ [][Next]_vars

---------------------------------------------------------------------------------
(* What the service must keep to.                                          *)

Contract == INSTANCE PlanningContract
              WITH tradable <- {i \in Identifiers : payload[i] = "valid"}

(* Whatever fails and however handlers overlap, the orders and what is     *)
(* published of them behave as the contract says: an order is made and     *)
(* announced only of a signal that may be traded, is saved before it is    *)
(* announced and never revised; the failure of a signal that may be traded *)
(* is never announced; and the announcement is empty, or an order a second *)
(* one of its signal, only where a history says so.                        *)
ContractSpec == Contract!Spec

(* A signal becomes one order, however often it is pushed and whatever     *)
(* fails (RULE-PP-003, INV-PP-003), unless its handlers overlap, one dies  *)
(* between the order and the key, or the key is not seen or not recorded:  *)
(* every push makes an identifier of its own.                              *)
OneOrderPerSignal ==
  \A i \in Identifiers \ unguarded :
    \A o, p \in orders : SignalOf(o) = i /\ SignalOf(p) = i => o = p

\* An order of i is saved and announced.
Proposed(i) ==
  \E o \in orders : SignalOf(o) = i /\ OrdersProposed(i, {o}) \in published

AtRest(i) == \A w \in Workers : held[w] # NoMessage => Identifier(w) # i

(* An acknowledged signal that can be decoded has become an announced      *)
(* order, as soon as no handler works on it, whatever fails and however    *)
(* handlers overlap, unless one of them failed after the key was there: it *)
(* died, did not read its documents back, or could not publish.  A signal  *)
(* that may not be traded is never acknowledged.                           *)
AckedIsProposed ==
  \A m \in Messages : LET i == IdentifierOf[m] IN
    sub[m] = "acked" /\ payload[i] # "malformed" /\ i \notin unfinished /\ AtRest(i)
      => Proposed(i)

=================================================================================
