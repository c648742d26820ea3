----------------------------- MODULE OrderExecution -----------------------------
(***************************************************************************)
(* The execution service: what one push of an orders.approved message does *)
(* (Presentation/PubSubHandler.hs, UseCase/ExecuteOrder.hs), one action    *)
(* per input/output step, so that other handlers, an expiring deadline and *)
(* a dying instance can come between any two of them.                      *)
(*                                                                         *)
(* A handler walks through                                                 *)
(*   find -> [create] -> submit ... submit -> record -> publish -> respond *)
(* and goes to respond early.  The broker (Alpaca) and the subscription    *)
(* are external.                                                           *)
(***************************************************************************)
EXTENDS PushDelivery, FiniteSets

CONSTANTS
  Orders,       \* order identifiers, payload.identifier of orders.approved
  OrderOf,      \* OrderOf[m]: the order a message approves
  WellFormed,   \* the messages whose payload has every required field
  ReasonCodes,  \* the reason codes the broker adapter may return
  MaxAttempts,  \* oeMaxAttempts of the aggregate (3)
  MaxRetries,   \* maxRetries of defaultRetryPolicyConfig (3)
  NoReason      \* the reason code of an execution without one

\* isRetryable, isRetryableReasonCode: the codes after which a retry may help.
RetryableCodes ==
  {"EXECUTION_BROKER_TIMEOUT", "DEPENDENCY_TIMEOUT", "INTERNAL_ERROR"}

\* isRetryableForBroker: the codes withRetry repeats a broker call for.
BrokerRetryableCodes == {"EXECUTION_BROKER_TIMEOUT", "INTERNAL_ERROR"}

\* classifyStatusCode: the codes of a 4xx answer, a refusal of the order.
RefusalCodes ==
  {"EXECUTION_MARKET_CLOSED", "EXECUTION_INSUFFICIENT_FUNDS",
   "EXECUTION_BROKER_REJECTED"}

ASSUME ExecutionAssumption ==
  /\ OrderOf \in [Messages -> Orders]
  /\ WellFormed \subseteq Messages
  /\ ReasonCodes \subseteq BrokerRetryableCodes \cup RefusalCodes
  /\ NoReason \notin RetryableCodes \cup RefusalCodes
  /\ MaxAttempts \in Nat \ {0}
  /\ MaxRetries \in Nat

VARIABLES
  step,       \* step[w]: where the handler w is
  execution,  \* execution[w]: the OrderExecution aggregate it holds
  tries,      \* tries[w]: the broker calls withRetry has made so far
  answer,     \* answer[w]: the broker result the handler acts on
  store,      \* store[o]: the order_executions document of o
  placed,     \* placed[o]: the orders the broker has taken for o (external)
  refused,    \* refused[o]: the codes the broker has refused o with (external)
  events,     \* the result events published
  exposed,    \* history: orders whose document may not tell what the broker did
  unreported  \* history: orders whose result may never have been published

handlerVars == <<step, execution, tries, answer>>
brokerVars  == <<placed, refused>>
historyVars == <<exposed, unreported>>
vars == <<deliveryVars, handlerVars, store, brokerVars, events, historyVars>>

---------------------------------------------------------------------------------
(* The aggregate and its document.                                         *)

\* No document, and what an idle handler holds.
NoExecution ==
  [status |-> "NONE", attemptCount |-> 0, brokerOrder |-> 0, reasonCode |-> NoReason]

\* acceptApprovedOrder: a fresh aggregate.
AcceptApprovedOrder ==
  [status |-> "APPROVED", attemptCount |-> 0, brokerOrder |-> 0, reasonCode |-> NoReason]

\* recordBrokerSuccess, of an APPROVED aggregate.
RecordBrokerSuccess(e, brokerOrder) ==
  [e EXCEPT !.status = "EXECUTED", !.brokerOrder = brokerOrder]

\* Mutant: a timeout is missing from the retryable codes.
CanRetryNoTimeout(e, code) == code = "INTERNAL_ERROR" /\ e.attemptCount < MaxAttempts

\* canRetry of handleBrokerFailure and of recordBrokerFailure.
CanRetry(e, code) == code \in RetryableCodes /\ e.attemptCount < MaxAttempts

\* recordBrokerFailure, of an APPROVED aggregate.
RecordBrokerFailure(e, code) ==
  IF CanRetry(e, code)
  THEN [e EXCEPT !.reasonCode = code]
  ELSE [e EXCEPT !.status = "FAILED", !.reasonCode = code]

\* Mutant: an APPROVED document counts as a duplicate.
AnyDocumentIsDuplicate(e) == e.status # "NONE"

\* Mutant: an EXECUTED document is dispatched again.
FailedIsDuplicate(e) == e.status = "FAILED"

\* isDuplicateDispatch: the aggregate is in a terminal state.
IsDuplicateDispatch(e) == e.status \in {"EXECUTED", "FAILED"}

(* documentToExecution: an aggregate is rebuilt from a fresh one, so the   *)
(* attempt count of the document is not restored.                          *)
DocumentToExecution(d) ==
  CASE d.status = "NONE"     -> NoExecution
    [] d.status = "APPROVED" -> AcceptApprovedOrder
    [] d.status = "EXECUTED" -> RecordBrokerSuccess(AcceptApprovedOrder, d.brokerOrder)
    [] d.status = "FAILED"   ->
         RecordBrokerFailure(AcceptApprovedOrder,
           IF d.reasonCode = NoReason THEN "DEPENDENCY_TIMEOUT" ELSE d.reasonCode)

---------------------------------------------------------------------------------
(* Types.                                                                  *)

Statuses == {"NONE", "APPROVED", "EXECUTED", "FAILED"}

Executions ==
  [status : Statuses, attemptCount : Nat, brokerOrder : Nat,
   reasonCode : RetryableCodes \cup RefusalCodes \cup {NoReason}]

\* A broker result: taken with a broker order number, or a reason code.
NoAnswer == [ok |-> FALSE, brokerOrder |-> 0, reasonCode |-> NoReason]

Answers ==
  [ok : BOOLEAN, brokerOrder : Nat, reasonCode : ReasonCodes \cup {NoReason}]

Events ==
  [type : {"orders.executed"}, order : Orders, brokerOrder : Nat]
    \cup [type : {"orders.execution.failed"}, order : Orders, reasonCode : ReasonCodes]

Steps ==
  {"idle", "find", "create", "submit", "record", "publish", "respond200", "respond500"}

\* Every variable has its type.
TypeOK ==
  /\ DeliveryTypeOK
  /\ step \in [Workers -> Steps]
  /\ \A w \in Workers : step[w] # "idle" => held[w] \in Messages
  /\ execution \in [Workers -> Executions]
  /\ tries \in [Workers -> Nat]
  /\ answer \in [Workers -> Answers]
  /\ store \in [Orders -> Executions]
  /\ placed \in [Orders -> Nat]
  /\ refused \in [Orders -> SUBSET ReasonCodes]
  /\ events \subseteq Events
  /\ exposed \subseteq Orders
  /\ unreported \subseteq Orders

---------------------------------------------------------------------------------
Init ==
  /\ DeliveryInit
  /\ step = [w \in Workers |-> "idle"]
  /\ execution = [w \in Workers |-> NoExecution]
  /\ tries = [w \in Workers |-> 0]
  /\ answer = [w \in Workers |-> NoAnswer]
  /\ store = [o \in Orders |-> NoExecution]
  /\ placed = [o \in Orders |-> 0]
  /\ refused = [o \in Orders |-> {}]
  /\ events = {}
  /\ exposed = {}
  /\ unreported = {}

\* The order a busy worker is executing.
OrderAt(w) == OrderOf[held[w]]

Goto(w, s) == step' = [step EXCEPT ![w] = s]

\* The handler has no more to do and forgets what it held.
ResetHandler(w) ==
  /\ Goto(w, "idle")
  /\ execution' = [execution EXCEPT ![w] = NoExecution]
  /\ tries' = [tries EXCEPT ![w] = 0]
  /\ answer' = [answer EXCEPT ![w] = NoAnswer]

---------------------------------------------------------------------------------
(* The handler.                                                            *)

(* The histories.  Only what keeps the document of an order from telling   *)
(* what the broker did with it exposes the order: two handlers that both   *)
(* go on to the broker, a final document that was not read, a write or a   *)
(* broker answer that was lost, an instance that dies with the answer.     *)
Expose(w) == exposed' = exposed \cup {OrderAt(w)} /\ UNCHANGED unreported

Unreport(w) == unreported' = unreported \cup {OrderAt(w)} /\ UNCHANGED exposed

\* The handler is on its way to the broker or back.
Deciding(w) == step[w] \in {"create", "submit", "record"}

\* The order has come to its end.
Terminal(o) == store[o].status \in {"EXECUTED", "FAILED"}

(* The push is decoded; a payload without the fields of an approved order  *)
(* is answered 200, since a redelivery would only repeat the error.        *)
Receive(w, m) ==
  /\ step[w] = "idle"
  /\ Push(w, m)
  /\ Goto(w, IF m \in WellFormed THEN "find" ELSE "respond200")
  /\ UNCHANGED <<execution, tries, answer, store, brokerVars, events, historyVars>>

\* findExecution: a failing read looks like a missing document.
Found(w) ==
  {DocumentToExecution(store[OrderAt(w)])}
    \cup (IF "readError" \in Faults THEN {NoExecution} ELSE {})

\* The handler goes on to the broker, and another does, or its document is final.
Contested(w, found) ==
  \/ \E v \in Workers \ {w} : Deciding(v) /\ OrderAt(v) = OrderAt(w)
  \/ found.status = "NONE" /\ Terminal(OrderAt(w))

Venture(w, found) ==
  IF Contested(w, found) THEN Expose(w) ELSE UNCHANGED historyVars

FindExecution(w) ==
  /\ step[w] = "find"
  /\ \E found \in Found(w) :
       \/ /\ IsDuplicateDispatch(found)
          /\ Goto(w, "respond200")
          /\ UNCHANGED <<execution, historyVars>>
       \/ /\ found.status # "NONE"
          /\ ~IsDuplicateDispatch(found)
          /\ Goto(w, "submit")
          /\ execution' = [execution EXCEPT ![w] = found]
          /\ Venture(w, found)
       \/ /\ found.status = "NONE"
          /\ Goto(w, "create")
          /\ execution' = [execution EXCEPT ![w] = AcceptApprovedOrder]
          /\ Venture(w, found)
  /\ UNCHANGED <<deliveryVars, tries, answer, store, brokerVars, events>>

\* persistExecution: the whole document is overwritten, an error is dropped.
PersistExecution(w, e) ==
  \/ store' = [store EXCEPT ![OrderAt(w)] = e] /\ UNCHANGED historyVars
  \/ "persistLost" \in Faults /\ Expose(w) /\ UNCHANGED store

\* Mutant: the new execution is not saved before the broker is called.
CreateUnsaved(w) ==
  /\ step[w] = "create"
  /\ Goto(w, "submit")
  /\ UNCHANGED <<deliveryVars, execution, tries, answer, store, brokerVars, events, historyVars>>

CreateExecution(w) ==
  /\ step[w] = "create"
  /\ PersistExecution(w, execution[w])
  /\ Goto(w, "submit")
  /\ UNCHANGED <<deliveryVars, execution, tries, answer, brokerVars, events>>

(* One POST /v2/orders under withRetry.  The request carries no client     *)
(* order identifier, so each one the broker takes is an order of its own.  *)
Retries(w, a) ==
  /\ ~a.ok
  /\ a.reasonCode \in BrokerRetryableCodes
  /\ tries[w] < MaxRetries

CallBroker(w, a) ==
  /\ tries' = [tries EXCEPT ![w] = IF Retries(w, a) THEN @ + 1 ELSE 0]
  /\ answer' = [answer EXCEPT ![w] = IF Retries(w, a) THEN @ ELSE a]
  /\ Goto(w, IF Retries(w, a) THEN "submit" ELSE "record")
  /\ UNCHANGED <<deliveryVars, execution, store, events>>

\* The broker takes one more order for o.
PlaceOrder(o) == placed' = [placed EXCEPT ![o] = @ + 1]

\* A 2xx answer; without an "id" in its body the order number is unknown (0).
BrokerTakes(w) ==
  /\ step[w] = "submit"
  /\ \E number \in {0, placed[OrderAt(w)] + 1} :
       CallBroker(w, [ok |-> TRUE, brokerOrder |-> number, reasonCode |-> NoReason])
  /\ PlaceOrder(OrderAt(w))
  /\ UNCHANGED <<refused, historyVars>>

\* A 4xx answer.
BrokerRefuses(w) ==
  /\ step[w] = "submit"
  /\ \E code \in ReasonCodes \cap RefusalCodes :
       /\ CallBroker(w, [ok |-> FALSE, brokerOrder |-> 0, reasonCode |-> code])
       /\ refused' = [refused EXCEPT ![OrderAt(w)] = @ \cup {code}]
  /\ UNCHANGED <<placed, historyVars>>

\* A timeout, a connection failure or a 5xx answer.
BrokerUnreachable(w) ==
  /\ step[w] = "submit"
  /\ \E code \in ReasonCodes \cap BrokerRetryableCodes :
       CallBroker(w, [ok |-> FALSE, brokerOrder |-> 0, reasonCode |-> code])
  /\ \/ UNCHANGED <<placed, historyVars>>
     \/ "lostAnswer" \in Faults /\ PlaceOrder(OrderAt(w)) /\ Expose(w)
  /\ UNCHANGED refused

\* Mutant: handleBrokerSuccess without persistExecution.
RecordSuccessUnsaved(w) ==
  /\ step[w] = "record"
  /\ answer[w].ok
  /\ execution' = [execution EXCEPT ![w] = RecordBrokerSuccess(@, answer[w].brokerOrder)]
  /\ Goto(w, "publish")
  /\ UNCHANGED <<deliveryVars, tries, answer, store, brokerVars, events, historyVars>>

\* handleBrokerSuccess up to persistExecution.
RecordSuccess(w) ==
  LET executed == RecordBrokerSuccess(execution[w], answer[w].brokerOrder)
  IN  /\ step[w] = "record"
      /\ answer[w].ok
      /\ execution' = [execution EXCEPT ![w] = executed]
      /\ PersistExecution(w, executed)
      /\ Goto(w, "publish")
      /\ UNCHANGED <<deliveryVars, tries, answer, brokerVars, events>>

\* Mutant: a final failure is saved and answered, but not published.
RecordFailureUnpublished(w) ==
  LET failed == RecordBrokerFailure(execution[w], answer[w].reasonCode)
  IN  /\ step[w] = "record"
      /\ ~answer[w].ok
      /\ execution' = [execution EXCEPT ![w] = failed]
      /\ PersistExecution(w, failed)
      /\ Goto(w, IF CanRetry(execution[w], answer[w].reasonCode) THEN "respond500"
                                                                  ELSE "respond200")
      /\ UNCHANGED <<deliveryVars, tries, answer, brokerVars, events>>

\* Mutant: the handler itself starts a retryable order again, and the attempts
\* it compares with the limit are not counted.
RecordFailureInPlace(w) ==
  LET code == answer[w].reasonCode
      failed == RecordBrokerFailure(execution[w], code)
  IN  /\ step[w] = "record"
      /\ ~answer[w].ok
      /\ execution' = [execution EXCEPT ![w] = failed]
      /\ PersistExecution(w, failed)
      /\ Goto(w, IF CanRetry(execution[w], code) THEN "submit" ELSE "publish")
      /\ UNCHANGED <<deliveryVars, tries, answer, brokerVars, events>>

\* handleBrokerFailure up to persistExecution.
RecordFailure(w) ==
  LET code == answer[w].reasonCode
      failed == RecordBrokerFailure(execution[w], code)
  IN  /\ step[w] = "record"
      /\ ~answer[w].ok
      /\ execution' = [execution EXCEPT ![w] = failed]
      /\ PersistExecution(w, failed)
      /\ Goto(w, IF CanRetry(execution[w], code) THEN "respond500" ELSE "publish")
      /\ UNCHANGED <<deliveryVars, tries, answer, brokerVars, events>>

\* Mutant: every terminal execution is reported as executed.
ResultAlwaysExecuted(w) ==
  [type |-> "orders.executed", order |-> OrderAt(w), brokerOrder |-> answer[w].brokerOrder]

\* The result event of a terminal execution.
ResultEvent(w) ==
  IF execution[w].status = "EXECUTED"
  THEN [type |-> "orders.executed", order |-> OrderAt(w),
        brokerOrder |-> execution[w].brokerOrder]
  ELSE [type |-> "orders.execution.failed", order |-> OrderAt(w),
        reasonCode |-> answer[w].reasonCode]

\* Mutant: only a success is published.
PublishOnlySuccess(w) ==
  /\ step[w] = "publish"
  /\ events' = events \cup
       (IF execution[w].status = "EXECUTED" THEN {ResultEvent(w)} ELSE {})
  /\ Goto(w, "respond200")
  /\ UNCHANGED <<deliveryVars, execution, tries, answer, store, brokerVars, historyVars>>

\* publishOrdersExecuted, publishOrdersExecutionFailed: an error is dropped.
PublishResult(w) ==
  /\ step[w] = "publish"
  /\ \/ events' = events \cup {ResultEvent(w)} /\ UNCHANGED historyVars
     \/ "publishLost" \in Faults /\ Unreport(w) /\ UNCHANGED events
  /\ Goto(w, "respond200")
  /\ UNCHANGED <<deliveryVars, execution, tries, answer, store, brokerVars>>

\* pubSubPushResultToStatus: only a retryable result is answered 500.
Respond(w) ==
  /\ \/ step[w] = "respond200" /\ Ack(w)
     \/ step[w] = "respond500" /\ Nack(w)
  /\ ResetHandler(w)
  /\ UNCHANGED <<store, brokerVars, events, historyVars>>

\* The instance dies; the message is queued again when its deadline passes.
Crash(w) ==
  /\ "crash" \in Faults
  /\ step[w] # "idle"
  /\ Nack(w)
  /\ ResetHandler(w)
  /\ CASE step[w] = "record" /\ answer[w].ok -> Expose(w)
       [] step[w] = "publish"                -> Unreport(w)
       [] OTHER                              -> UNCHANGED historyVars
  /\ UNCHANGED <<store, brokerVars, events>>

\* The subscription pushes again on its own.
Subscription ==
  /\ \E m \in Messages : Expire(m) \/ Redeliver(m)
  /\ UNCHANGED <<handlerVars, store, brokerVars, events, historyVars>>

Handle(w) ==
  \/ FindExecution(w)
  \/ CreateExecution(w)
  \/ BrokerTakes(w)
  \/ BrokerRefuses(w)
  \/ BrokerUnreachable(w)
  \/ RecordSuccess(w)
  \/ RecordFailure(w)
  \/ PublishResult(w)
  \/ Respond(w)

Next ==
  \/ \E w \in Workers, m \in Messages : Receive(w, m)
  \/ \E w \in Workers : Handle(w) \/ Crash(w)
  \/ Subscription

(* Cloud Run runs a started handler on, and the subscription goes on       *)
(* pushing a queued message for as long as it is retained.                 *)
Fairness ==
  /\ \A w \in Workers : WF_vars(Handle(w))
  /\ \A m \in Messages : WF_vars(\E w \in Workers : Receive(w, m))

Spec == Init /\ [][Next]_vars

FairSpec == Spec /\ Fairness

---------------------------------------------------------------------------------
(* Properties that hold whatever the environment does.                     *)

(* An order is recorded or reported as executed only if the broker took    *)
(* it, and never under an order number the broker has not given out        *)
(* (handleBrokerSuccess, RULE-EX-005).                                     *)
ExecutedWasTaken ==
  /\ \A o \in Orders : store[o].status = "EXECUTED" =>
       placed[o] > 0 /\ store[o].brokerOrder <= placed[o]
  /\ \A e \in events : e.type = "orders.executed" =>
       placed[e.order] > 0 /\ e.brokerOrder <= placed[e.order]

(* An order is recorded or reported as failed only for a reason the broker *)
(* itself refused it with (handleBrokerFailure, RULE-EX-004, RULE-EX-006): *)
(* no lost answer or crash fails an order that the broker may have taken.  *)
(* Time-outs that last do not fail it either, and there the code departs   *)
(* from its design, by which the order is FAILED after three attempts      *)
(* (RULE-EX-003): attempts are not counted, the order stays APPROVED and   *)
(* its message ends in the dead letters (README, section 4).               *)
FailedWasRefused ==
  /\ \A o \in Orders : store[o].status = "FAILED" => store[o].reasonCode \in refused[o]
  /\ \A e \in events : e.type = "orders.execution.failed" =>
       e.reasonCode \in refused[e.order]

(* The result of an order, as saved and as published, is what the broker   *)
(* did with it, whatever is lost, repeated or dies in between.  It says    *)
(* nothing of orders that get no result, as those with time-outs that last *)
(* (FailedWasRefused).                                                     *)
ResultIsTheBrokers == ExecutedWasTaken /\ FailedWasRefused

(* No acknowledgement loses an approved order: a well-formed message that  *)
(* is acknowledged has been put before the broker, which took or refused   *)
(* the order (the 200/500 policy of pubSubPushResultToStatus).             *)
Settled(o) == placed[o] > 0 \/ refused[o] # {}

AckedIsSettled ==
  \A m \in WellFormed : sub[m] = "acked" => Settled(OrderOf[m])

(* Every message is resolved in the end, acknowledged or dead-lettered,    *)
(* and stays so: no sequence of retries, crashes and redeliveries keeps it *)
(* going round for ever (the status policy and max_delivery_attempts).     *)
EventuallyResolved == \A m \in Messages : <>[]Resolved(m)

---------------------------------------------------------------------------------
(* Properties of the orders that nothing has exposed, whatever happens to  *)
(* the others.                                                             *)

(* The broker never holds two orders for one approved order (RULE-EX-002,  *)
(* INV-EX-003: findExecution and isDuplicateDispatch before submit).       *)
AtMostOneBrokerOrder == \A o \in Orders : placed[o] <= 1

(* The code keeps that for the orders that nothing has exposed: crashes    *)
(* before and after the broker's answer is at hand, refusals, time-outs,   *)
(* redeliveries and lost publications never place a second one.            *)
PlacedOnce == \A o \in Orders \ exposed : placed[o] <= 1

Contract == INSTANCE ExecutionContract
              WITH status <- [o \in Orders |-> store[o].status], sent <- placed

(* The documents and the broker together behave as the contract says:      *)
(* legal status transitions only, sent once, sent while APPROVED, EXECUTED *)
(* only when sent and FAILED only when not, and an order that strays from  *)
(* that is an exposed one.                                                 *)
ContractSpec == Contract!Spec

\* Some result of the order was published.
Reported(o) == \E e \in events : e.order = o

\* A handler is about to publish a result of the order.
Reporting(o) == \E w \in Workers : step[w] = "publish" /\ OrderAt(w) = o

(* An event tells of the result its order has in store, so that no order   *)
(* is reported both as executed and as failed (RULE-EX-005).               *)
PublishedIsSaved ==
  \A e \in events : e.order \notin exposed =>
    store[e.order].status = IF e.type = "orders.executed" THEN "EXECUTED" ELSE "FAILED"

(* An approval is acknowledged only when the result of its order is saved, *)
(* and has been published or is about to be (UC-EX-01).                    *)
AckedIsReported ==
  \A m \in WellFormed : (sub[m] = "acked" /\ OrderOf[m] \notin exposed) =>
    /\ Terminal(OrderOf[m])
    /\ OrderOf[m] \in unreported \/ Reported(OrderOf[m]) \/ Reporting(OrderOf[m])

(* Saved, then reported, then acknowledged, in that order.                 *)
SavedThenReported == PublishedIsSaved /\ AckedIsReported

=================================================================================
