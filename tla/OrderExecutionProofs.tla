-------------------------- MODULE OrderExecutionProofs --------------------------
(***************************************************************************)
(* Theorems about OrderExecution, for any number of messages, orders,      *)
(* handlers and deliveries and any faults: first of every order, then of   *)
(* the orders that nothing has exposed.                                    *)
(***************************************************************************)
EXTENDS OrderExecution, TLAPS

---------------------------------------------------------------------------------
(* The first inductive invariant: what every handler knows at each step.   *)

\* The broker refuses with the codes of a refusal only.
RefusedOK == \A o \in Orders : refused[o] \subseteq RefusalCodes

\* The broker took the order, under this number if it is not 0.
Taken(o, number) == placed[o] > 0 /\ number <= placed[o]

\* What an answer says has happened.
AnswerOK(w) ==
  IF answer[w].ok
  THEN Taken(OrderAt(w), answer[w].brokerOrder)
  ELSE \/ answer[w].reasonCode \in BrokerRetryableCodes
       \/ answer[w].reasonCode \in refused[OrderAt(w)]

\* What a handler about to publish has recorded.
ResultOK(w) ==
  \/ /\ execution[w].status = "EXECUTED"
     /\ Taken(OrderAt(w), execution[w].brokerOrder)
  \/ /\ execution[w].status = "FAILED"
     /\ answer[w].reasonCode \in refused[OrderAt(w)]

\* What holds of a handler at each of its steps.
StepOK(w) ==
  /\ execution[w].attemptCount = 0
  /\ step[w] \in {"create", "submit", "record"} => execution[w].status = "APPROVED"
  /\ step[w] = "record" => AnswerOK(w)
  /\ step[w] = "publish" => ResultOK(w)
  /\ (step[w] = "respond200" /\ held[w] \in WellFormed) => Settled(OrderAt(w))

HandlerOK == \A w \in Workers : StepOK(w)

SafeInv ==
  /\ TypeOK
  /\ RefusedOK
  /\ HandlerOK
  /\ ExecutedWasTaken
  /\ FailedWasRefused
  /\ AckedIsSettled

---------------------------------------------------------------------------------
(* What the operations on an aggregate return.                             *)

(* recordBrokerSuccess makes an executed aggregate with the broker's order *)
(* number.                                                                 *)
LEMMA RecordBrokerSuccessResult ==
  ASSUME NEW e \in Executions, NEW n \in Nat
  PROVE  /\ RecordBrokerSuccess(e, n) \in Executions
         /\ RecordBrokerSuccess(e, n).status = "EXECUTED"
         /\ RecordBrokerSuccess(e, n).brokerOrder = n
         /\ RecordBrokerSuccess(e, n).attemptCount = e.attemptCount
  BY DEF RecordBrokerSuccess, Executions, Statuses

(* recordBrokerFailure leaves an aggregate that may be retried as it is    *)
(* and ends any other as FAILED, with the code of the failure.             *)
LEMMA RecordBrokerFailureResult ==
  ASSUME NEW e \in Executions, NEW code \in RetryableCodes \cup RefusalCodes
  PROVE  /\ RecordBrokerFailure(e, code) \in Executions
         /\ RecordBrokerFailure(e, code).reasonCode = code
         /\ RecordBrokerFailure(e, code).attemptCount = e.attemptCount
         /\ RecordBrokerFailure(e, code).status =
              IF CanRetry(e, code) THEN e.status ELSE "FAILED"
  BY DEF RecordBrokerFailure, Executions, Statuses

(* acceptApprovedOrder and a missing document.                             *)
LEMMA FreshExecutions ==
  /\ AcceptApprovedOrder \in Executions
  /\ AcceptApprovedOrder.status = "APPROVED"
  /\ AcceptApprovedOrder.attemptCount = 0
  /\ NoExecution \in Executions
  /\ NoExecution.status = "NONE"
  /\ NoExecution.attemptCount = 0
  BY DEF AcceptApprovedOrder, NoExecution, Executions, Statuses

(* A fresh aggregate may be retried after a retryable code, and never      *)
(* after a refusal.                                                        *)
LEMMA CanRetryFresh ==
  ASSUME NEW e \in Executions, e.attemptCount = 0
  PROVE  /\ \A code \in RetryableCodes : CanRetry(e, code)
         /\ \A code \in RefusalCodes : ~CanRetry(e, code)
  BY ExecutionAssumption DEF CanRetry, RetryableCodes, RefusalCodes

(* The aggregate rebuilt from a document has the document's status, but    *)
(* for a FAILED document with a retryable code, which becomes APPROVED.    *)
LEMMA DocumentToExecutionResult ==
  ASSUME NEW d \in Executions
  PROVE  /\ DocumentToExecution(d) \in Executions
         /\ DocumentToExecution(d).attemptCount = 0
         /\ d.status # "FAILED" => DocumentToExecution(d).status = d.status
         /\ d.status = "FAILED" => DocumentToExecution(d).status =
              IF d.reasonCode \in RefusalCodes THEN "FAILED" ELSE "APPROVED"
<1>1. d.status \in Statuses /\ d.brokerOrder \in Nat
      /\ d.reasonCode \in RetryableCodes \cup RefusalCodes \cup {NoReason}
  BY DEF Executions
<1>2. CASE d.status = "NONE"
  BY <1>2, FreshExecutions DEF DocumentToExecution
<1>3. CASE d.status = "APPROVED"
  BY <1>3, FreshExecutions DEF DocumentToExecution
<1>4. CASE d.status = "EXECUTED"
  BY <1>1, <1>4, FreshExecutions, RecordBrokerSuccessResult DEF DocumentToExecution
<1>5. CASE d.status = "FAILED"
  <2> DEFINE code == IF d.reasonCode = NoReason THEN "DEPENDENCY_TIMEOUT" ELSE d.reasonCode
  <2>1. code \in RetryableCodes \cup RefusalCodes
    BY <1>1 DEF RetryableCodes
  <2>2. code \in RefusalCodes <=> d.reasonCode \in RefusalCodes
    BY ExecutionAssumption DEF RefusalCodes, RetryableCodes
  <2>3. DocumentToExecution(d) = RecordBrokerFailure(AcceptApprovedOrder, code)
    BY <1>5 DEF DocumentToExecution
  <2> HIDE DEF code
  <2> QED
    BY <1>5, <2>1, <2>2, <2>3, FreshExecutions, RecordBrokerFailureResult, CanRetryFresh
<1> QED
  BY <1>1, <1>2, <1>3, <1>4, <1>5 DEF Statuses

---------------------------------------------------------------------------------
(* The broker's records only grow, and they are all a handler's knowledge  *)
(* depends on: a step of one handler leaves the others' knowledge alone.   *)

BrokerGrows ==
  \A o \in Orders : placed'[o] >= placed[o] /\ refused[o] \subseteq refused'[o]

\* Nothing a handler v knows or holds has changed.
SameHandler(v) ==
  /\ step'[v] = step[v]
  /\ held'[v] = held[v]
  /\ execution'[v] = execution[v]
  /\ answer'[v] = answer[v]

LEMMA StepOKStable ==
  ASSUME TypeOK, TypeOK', BrokerGrows, NEW v \in Workers, SameHandler(v), StepOK(v)
  PROVE  StepOK(v)'
<1>1. CASE held[v] \in Messages
  <2>1. OrderAt(v) \in Orders /\ OrderAt(v)' = OrderAt(v)
    BY <1>1, ExecutionAssumption DEF OrderAt, SameHandler
  <2>2. \A n \in Nat : Taken(OrderAt(v), n) => Taken(OrderAt(v), n)'
    BY <2>1 DEF Taken, BrokerGrows, TypeOK
  <2>3. Settled(OrderAt(v)) => Settled(OrderAt(v))'
    BY <2>1 DEF Settled, BrokerGrows, TypeOK
  <2>4. refused[OrderAt(v)] \subseteq refused'[OrderAt(v)]
    BY <2>1 DEF BrokerGrows
  <2>5. answer[v].brokerOrder \in Nat /\ execution[v].brokerOrder \in Nat
    BY DEF TypeOK, Answers, Executions
  <2>6. AnswerOK(v) => AnswerOK(v)'
    BY <2>1, <2>2, <2>4, <2>5 DEF AnswerOK, SameHandler, Taken
  <2>7. ResultOK(v) => ResultOK(v)'
    BY <2>1, <2>2, <2>4, <2>5 DEF ResultOK, SameHandler, Taken
  <2> QED
    BY <2>1, <2>3, <2>6, <2>7 DEF StepOK, SameHandler
<1>2. CASE held[v] \notin Messages
  <2>1. step[v] = "idle"
    BY <1>2 DEF TypeOK
  <2> QED
    BY <2>1 DEF StepOK, SameHandler
<1> QED
  BY <1>1, <1>2

---------------------------------------------------------------------------------
(* Each action preserves the invariant.                                    *)

LEMMA InitSafe == Init => SafeInv
<1> SUFFICES ASSUME Init PROVE SafeInv
  OBVIOUS
<1>1. TypeOK
  BY DeliveryAssumption, ExecutionAssumption, FreshExecutions
     DEF Init, TypeOK, DeliveryInit, DeliveryTypeOK, Steps, Answers, NoAnswer, Events
<1> QED
  BY <1>1, ExecutionAssumption, FreshExecutions
     DEF Init, SafeInv, RefusedOK, HandlerOK, StepOK, ExecutedWasTaken,
         FailedWasRefused, AckedIsSettled, DeliveryInit

LEMMA ReceiveSafe ==
  ASSUME SafeInv, NEW w \in Workers, NEW m \in Messages, Receive(w, m)
  PROVE  SafeInv'
<1>1. TypeOK'
  BY DeliveryAssumption
     DEF SafeInv, TypeOK, DeliveryTypeOK, Receive, Push, Idle, Goto, Steps, brokerVars,
         historyVars
<1>2. \A v \in Workers \ {w} : StepOK(v)'
  BY <1>1, StepOKStable
     DEF SafeInv, HandlerOK, Receive, Push, Goto, brokerVars, BrokerGrows, SameHandler,
         TypeOK, DeliveryTypeOK
<1>3. StepOK(w)'
  BY DEF SafeInv, HandlerOK, StepOK, Receive, Push, Goto, TypeOK, DeliveryTypeOK
<1>4. AckedIsSettled'
  BY DEF SafeInv, AckedIsSettled, Settled, Receive, Push, brokerVars, TypeOK, DeliveryTypeOK
<1> QED
  BY <1>1, <1>2, <1>3, <1>4
     DEF SafeInv, RefusedOK, HandlerOK, ExecutedWasTaken, FailedWasRefused, Receive, brokerVars

LEMMA FindSafe ==
  ASSUME SafeInv, NEW w \in Workers, FindExecution(w)
  PROVE  SafeInv'
<1>1. PICK found \in Found(w) :
        /\ \/ /\ IsDuplicateDispatch(found)
              /\ Goto(w, "respond200")
              /\ UNCHANGED execution
           \/ /\ found.status # "NONE"
              /\ ~IsDuplicateDispatch(found)
              /\ Goto(w, "submit")
              /\ execution' = [execution EXCEPT ![w] = found]
           \/ /\ found.status = "NONE"
              /\ Goto(w, "create")
              /\ execution' = [execution EXCEPT ![w] = AcceptApprovedOrder]
        /\ Expose(w) \/ UNCHANGED historyVars
  BY DEF FindExecution, Venture, historyVars
<1>2. held[w] \in Messages /\ OrderAt(w) \in Orders
  BY ExecutionAssumption DEF FindExecution, SafeInv, TypeOK, OrderAt
<1>3. /\ found \in Executions
      /\ found.attemptCount = 0
      /\ found.status \in {"EXECUTED", "FAILED"} => Settled(OrderAt(w))
  <2>1. CASE found = NoExecution
    BY <2>1, FreshExecutions
  <2>2. CASE found = DocumentToExecution(store[OrderAt(w)])
    <3>1. store[OrderAt(w)] \in Executions
      BY <1>2 DEF SafeInv, TypeOK
    <3>2. store[OrderAt(w)].status \in Statuses
      BY <3>1 DEF Executions
    <3> QED
      BY <1>2, <2>2, <3>1, <3>2, DocumentToExecutionResult
         DEF SafeInv, ExecutedWasTaken, FailedWasRefused, Settled, Statuses
  <2> QED
    BY <1>1, <2>1, <2>2 DEF Found
<1>4. found.status \in Statuses
  BY <1>3 DEF Executions
<1>5. UNCHANGED <<deliveryVars, tries, answer, store, brokerVars, events>>
  BY DEF FindExecution
<1>6. TypeOK'
  <2>1. execution' \in [Workers -> Executions]
    BY <1>1, <1>3, FreshExecutions DEF SafeInv, TypeOK
  <2>2. step' \in [Workers -> Steps]
    BY <1>1 DEF SafeInv, TypeOK, Goto, Steps
  <2> QED
    BY <1>1, <1>2, <1>5, <2>1, <2>2
       DEF SafeInv, TypeOK, DeliveryTypeOK, Goto, deliveryVars, brokerVars, Expose, historyVars
<1>7. \A v \in Workers \ {w} : StepOK(v)'
  BY <1>1, <1>5, <1>6, StepOKStable
     DEF SafeInv, HandlerOK, Goto, deliveryVars, brokerVars, BrokerGrows, SameHandler, TypeOK
<1>8. StepOK(w)'
  <2>1. Settled(OrderAt(w))' <=> Settled(OrderAt(w))
    BY <1>5 DEF Settled, OrderAt, deliveryVars, brokerVars
  <2> QED
    BY <1>1, <1>3, <1>4, <2>1, FreshExecutions
       DEF SafeInv, HandlerOK, StepOK, IsDuplicateDispatch, Statuses, Goto, TypeOK
<1> QED
  BY <1>5, <1>6, <1>7, <1>8
     DEF SafeInv, RefusedOK, HandlerOK, ExecutedWasTaken, FailedWasRefused, AckedIsSettled,
         Settled, deliveryVars, brokerVars

LEMMA CreateSafe ==
  ASSUME SafeInv, NEW w \in Workers, CreateExecution(w)
  PROVE  SafeInv'
<1>1. held[w] \in Messages /\ OrderAt(w) \in Orders
  BY ExecutionAssumption DEF CreateExecution, SafeInv, TypeOK, OrderAt
<1>2. execution[w] \in Executions /\ execution[w].status = "APPROVED"
  BY DEF CreateExecution, SafeInv, TypeOK, HandlerOK, StepOK
<1>3. /\ store' \in [Orders -> Executions]
      /\ \A o \in Orders : store'[o] = store[o] \/ store'[o].status = "APPROVED"
  BY <1>1, <1>2 DEF CreateExecution, PersistExecution, SafeInv, TypeOK
<1>4. TypeOK'
  BY <1>1, <1>3
     DEF CreateExecution, SafeInv, TypeOK, DeliveryTypeOK, Goto, deliveryVars, brokerVars,
         Steps, PersistExecution, Expose, historyVars
<1>5. \A v \in Workers \ {w} : StepOK(v)'
  BY <1>4, StepOKStable
     DEF CreateExecution, SafeInv, HandlerOK, Goto, deliveryVars, brokerVars, BrokerGrows,
         SameHandler, TypeOK
<1>6. StepOK(w)'
  BY <1>2 DEF CreateExecution, SafeInv, HandlerOK, StepOK, Goto, TypeOK
<1> QED
  BY <1>3, <1>4, <1>5, <1>6
     DEF CreateExecution, SafeInv, RefusedOK, HandlerOK, ExecutedWasTaken, FailedWasRefused,
         AckedIsSettled, Settled, deliveryVars, brokerVars

(* A call of the broker, whatever its answer a, as long as the broker did  *)
(* what the answer says.                                                   *)
LEMMA CallBrokerSafe ==
  ASSUME SafeInv, NEW w \in Workers, step[w] = "submit", NEW a \in Answers,
         CallBroker(w, a),
         placed' \in [Orders -> Nat], refused' \in [Orders -> SUBSET ReasonCodes],
         BrokerGrows, RefusedOK', Expose(w) \/ UNCHANGED historyVars,
         a.ok => Taken(OrderAt(w), a.brokerOrder)',
         ~a.ok => \/ a.reasonCode \in BrokerRetryableCodes
                  \/ a.reasonCode \in refused'[OrderAt(w)]
  PROVE  SafeInv'
<1>1. held[w] \in Messages /\ OrderAt(w) \in Orders
  BY ExecutionAssumption DEF SafeInv, TypeOK, OrderAt
<1>2. UNCHANGED <<deliveryVars, execution, store, events>>
  BY DEF CallBroker
<1>3. TypeOK'
  <2>1. tries' \in [Workers -> Nat]
    BY DEF CallBroker, SafeInv, TypeOK
  <2>2. answer' \in [Workers -> Answers]
    BY DEF CallBroker, SafeInv, TypeOK
  <2>3. step' \in [Workers -> Steps] /\ \A v \in Workers \ {w} : step'[v] = step[v]
    BY DEF CallBroker, SafeInv, TypeOK, Goto, Steps
  <2> QED
    BY <1>1, <1>2, <2>1, <2>2, <2>3
       DEF SafeInv, TypeOK, DeliveryTypeOK, deliveryVars, Expose, historyVars
<1>4. \A v \in Workers \ {w} : StepOK(v)'
  <2> SUFFICES ASSUME NEW v \in Workers \ {w} PROVE StepOK(v)'
    OBVIOUS
  <2>1. SameHandler(v)
    BY DEF CallBroker, SafeInv, TypeOK, Goto, SameHandler, deliveryVars
  <2> QED
    BY <1>3, <2>1, StepOKStable DEF SafeInv, HandlerOK
<1>5. StepOK(w)'
  <2>1. /\ execution'[w].attemptCount = 0
        /\ execution'[w].status = "APPROVED"
    BY <1>2 DEF SafeInv, HandlerOK, StepOK
  <2>2. CASE Retries(w, a)
    BY <2>1, <2>2 DEF CallBroker, SafeInv, TypeOK, Goto, StepOK
  <2>3. CASE ~Retries(w, a)
    <3>1. step'[w] = "record" /\ answer'[w] = a
      BY <2>3 DEF CallBroker, SafeInv, TypeOK, Goto
    <3>2. OrderAt(w)' = OrderAt(w)
      BY <1>2 DEF OrderAt, deliveryVars
    <3>3. AnswerOK(w)'
      BY <3>1, <3>2 DEF AnswerOK, Taken
    <3> QED
      BY <2>1, <3>1, <3>3 DEF StepOK
  <2> QED
    BY <2>2, <2>3
<1>6. ExecutedWasTaken'
  <2> SUFFICES ASSUME NEW o \in Orders, NEW n \in Nat, placed[o] > 0, n <= placed[o]
               PROVE  placed'[o] > 0 /\ n <= placed'[o]
    BY <1>2 DEF SafeInv, TypeOK, ExecutedWasTaken, Executions, Events
  <2> QED
    BY DEF BrokerGrows, SafeInv, TypeOK
<1>7. FailedWasRefused'
  BY <1>2 DEF SafeInv, TypeOK, FailedWasRefused, Events, BrokerGrows
<1>8. AckedIsSettled'
  <2> SUFFICES ASSUME NEW o \in Orders, Settled(o) PROVE Settled(o)'
    BY <1>2, ExecutionAssumption DEF SafeInv, AckedIsSettled, deliveryVars
  <2> QED
    BY DEF Settled, BrokerGrows, SafeInv, TypeOK
<1> QED
  BY <1>3, <1>4, <1>5, <1>6, <1>7, <1>8 DEF SafeInv, HandlerOK

LEMMA BrokerTakesSafe ==
  ASSUME SafeInv, NEW w \in Workers, BrokerTakes(w)
  PROVE  SafeInv'
<1> DEFINE taken(n) == [ok |-> TRUE, brokerOrder |-> n, reasonCode |-> NoReason]
<1>1. held[w] \in Messages /\ OrderAt(w) \in Orders /\ placed[OrderAt(w)] \in Nat
  BY ExecutionAssumption DEF BrokerTakes, SafeInv, TypeOK, OrderAt
<1>2. PICK n \in {0, placed[OrderAt(w)] + 1} : CallBroker(w, taken(n))
  BY DEF BrokerTakes
<1>3. /\ placed' = [placed EXCEPT ![OrderAt(w)] = @ + 1]
      /\ refused' = refused
      /\ step[w] = "submit"
      /\ UNCHANGED historyVars
  BY DEF BrokerTakes, PlaceOrder
<1>4. n \in Nat /\ taken(n) \in Answers
  BY <1>1, <1>2 DEF Answers
<1>5. OrderAt(w)' = OrderAt(w)
  BY <1>2 DEF CallBroker, OrderAt, deliveryVars
<1>6. Taken(OrderAt(w), n)'
  BY <1>1, <1>2, <1>3, <1>5 DEF Taken, SafeInv, TypeOK
<1>7. BrokerGrows /\ RefusedOK' /\ placed' \in [Orders -> Nat]
  BY <1>1, <1>3 DEF BrokerGrows, RefusedOK, SafeInv, TypeOK
<1>8. refused' \in [Orders -> SUBSET ReasonCodes]
  BY <1>3 DEF SafeInv, TypeOK
<1> QED
  BY <1>2, <1>3, <1>4, <1>5, <1>6, <1>7, <1>8, CallBrokerSafe DEF Taken

LEMMA BrokerRefusesSafe ==
  ASSUME SafeInv, NEW w \in Workers, BrokerRefuses(w)
  PROVE  SafeInv'
<1> DEFINE refusal(code) == [ok |-> FALSE, brokerOrder |-> 0, reasonCode |-> code]
<1>1. held[w] \in Messages /\ OrderAt(w) \in Orders
  BY ExecutionAssumption DEF BrokerRefuses, SafeInv, TypeOK, OrderAt
<1>2. PICK code \in ReasonCodes \cap RefusalCodes :
        /\ CallBroker(w, refusal(code))
        /\ refused' = [refused EXCEPT ![OrderAt(w)] = @ \cup {code}]
  BY DEF BrokerRefuses
<1>3. placed' = placed /\ step[w] = "submit" /\ UNCHANGED historyVars
  BY DEF BrokerRefuses
<1>4. refusal(code) \in Answers
  BY DEF Answers
<1>5. /\ placed' \in [Orders -> Nat]
      /\ refused' \in [Orders -> SUBSET ReasonCodes]
      /\ code \in refused'[OrderAt(w)]
  BY <1>1, <1>2, <1>3 DEF SafeInv, TypeOK
<1>6. BrokerGrows /\ RefusedOK'
  BY <1>1, <1>2, <1>3 DEF BrokerGrows, RefusedOK, SafeInv, TypeOK
<1> QED
  BY <1>2, <1>3, <1>4, <1>5, <1>6, CallBrokerSafe

LEMMA BrokerUnreachableSafe ==
  ASSUME SafeInv, NEW w \in Workers, BrokerUnreachable(w)
  PROVE  SafeInv'
<1> DEFINE failure(code) == [ok |-> FALSE, brokerOrder |-> 0, reasonCode |-> code]
<1>1. held[w] \in Messages /\ OrderAt(w) \in Orders
  BY ExecutionAssumption DEF BrokerUnreachable, SafeInv, TypeOK, OrderAt
<1>2. PICK code \in ReasonCodes \cap BrokerRetryableCodes : CallBroker(w, failure(code))
  BY DEF BrokerUnreachable
<1>3. refused' = refused /\ step[w] = "submit"
  BY DEF BrokerUnreachable
<1>4. /\ placed' = placed \/ placed' = [placed EXCEPT ![OrderAt(w)] = @ + 1]
      /\ Expose(w) \/ UNCHANGED historyVars
  BY DEF BrokerUnreachable, PlaceOrder
<1>5. failure(code) \in Answers
  BY DEF Answers
<1>6. BrokerGrows /\ RefusedOK' /\ placed' \in [Orders -> Nat]
  BY <1>1, <1>3, <1>4 DEF BrokerGrows, RefusedOK, SafeInv, TypeOK
<1>7. refused' \in [Orders -> SUBSET ReasonCodes]
  BY <1>3 DEF SafeInv, TypeOK
<1> QED
  BY <1>2, <1>3, <1>4, <1>5, <1>6, <1>7, CallBrokerSafe

LEMMA RecordSuccessSafe ==
  ASSUME SafeInv, NEW w \in Workers, RecordSuccess(w)
  PROVE  SafeInv'
<1> DEFINE executed == RecordBrokerSuccess(execution[w], answer[w].brokerOrder)
<1>1. held[w] \in Messages /\ OrderAt(w) \in Orders
  BY ExecutionAssumption DEF RecordSuccess, SafeInv, TypeOK, OrderAt
<1>2. Taken(OrderAt(w), answer[w].brokerOrder)
  BY DEF RecordSuccess, SafeInv, HandlerOK, StepOK, AnswerOK
<1>3. /\ executed \in Executions
      /\ executed.status = "EXECUTED"
      /\ executed.brokerOrder = answer[w].brokerOrder
      /\ executed.attemptCount = 0
  <2>1. execution[w] \in Executions /\ answer[w].brokerOrder \in Nat
        /\ execution[w].attemptCount = 0
    BY DEF SafeInv, TypeOK, HandlerOK, StepOK, Answers
  <2> QED
    BY <2>1, RecordBrokerSuccessResult
<1>4. /\ execution' = [execution EXCEPT ![w] = executed]
      /\ store' = [store EXCEPT ![OrderAt(w)] = executed] \/ store' = store
      /\ Goto(w, "publish")
      /\ Expose(w) \/ UNCHANGED historyVars
      /\ UNCHANGED <<deliveryVars, tries, answer, brokerVars, events>>
  BY DEF RecordSuccess, PersistExecution
<1> HIDE DEF executed
<1>5. /\ store' \in [Orders -> Executions]
      /\ \A o \in Orders :
           store'[o] # store[o] => o = OrderAt(w) /\ store'[o] = executed
  BY <1>1, <1>3, <1>4 DEF SafeInv, TypeOK
<1>6. TypeOK'
  BY <1>1, <1>3, <1>4, <1>5
     DEF SafeInv, TypeOK, DeliveryTypeOK, Goto, Steps, deliveryVars, brokerVars, Expose,
         historyVars
<1>7. \A v \in Workers \ {w} : StepOK(v)'
  BY <1>4, <1>6, StepOKStable
     DEF SafeInv, HandlerOK, Goto, deliveryVars, brokerVars, BrokerGrows, SameHandler, TypeOK
<1>8. StepOK(w)'
  <2>1. step'[w] = "publish" /\ execution'[w] = executed
    BY <1>4 DEF SafeInv, TypeOK, Goto
  <2>2. Taken(OrderAt(w), answer[w].brokerOrder)'
    BY <1>2, <1>4 DEF Taken, OrderAt, deliveryVars, brokerVars
  <2> QED
    BY <1>3, <1>4, <2>1, <2>2 DEF StepOK, ResultOK
<1>9. ExecutedWasTaken'
  BY <1>2, <1>3, <1>4, <1>5 DEF SafeInv, ExecutedWasTaken, Taken, brokerVars
<1>10. FailedWasRefused'
  BY <1>3, <1>4, <1>5 DEF SafeInv, FailedWasRefused, brokerVars
<1> QED
  BY <1>4, <1>6, <1>7, <1>8, <1>9, <1>10
     DEF SafeInv, RefusedOK, HandlerOK, AckedIsSettled, Settled, deliveryVars, brokerVars

LEMMA RecordFailureSafe ==
  ASSUME SafeInv, NEW w \in Workers, RecordFailure(w)
  PROVE  SafeInv'
<1> DEFINE code == answer[w].reasonCode
           failed == RecordBrokerFailure(execution[w], code)
<1>1. held[w] \in Messages /\ OrderAt(w) \in Orders
  BY ExecutionAssumption DEF RecordFailure, SafeInv, TypeOK, OrderAt
<1>2. code \in BrokerRetryableCodes \/ code \in refused[OrderAt(w)]
  BY DEF RecordFailure, SafeInv, HandlerOK, StepOK, AnswerOK
<1>3. code \in RetryableCodes \cup RefusalCodes
      /\ (code \in RetryableCodes \/ code \in refused[OrderAt(w)])
  BY <1>1, <1>2 DEF SafeInv, RefusedOK, BrokerRetryableCodes, RetryableCodes
<1>4. /\ failed \in Executions
      /\ failed.status = IF code \in RetryableCodes THEN "APPROVED" ELSE "FAILED"
      /\ failed.reasonCode = code
      /\ failed.attemptCount = 0
      /\ CanRetry(execution[w], code) <=> code \in RetryableCodes
  <2>1. execution[w] \in Executions /\ execution[w].attemptCount = 0
        /\ execution[w].status = "APPROVED"
    BY DEF RecordFailure, SafeInv, TypeOK, HandlerOK, StepOK
  <2> QED
    BY <1>3, <2>1, RecordBrokerFailureResult, CanRetryFresh DEF CanRetry
<1>5. /\ execution' = [execution EXCEPT ![w] = failed]
      /\ store' = [store EXCEPT ![OrderAt(w)] = failed] \/ store' = store
      /\ Goto(w, IF CanRetry(execution[w], code) THEN "respond500" ELSE "publish")
      /\ Expose(w) \/ UNCHANGED historyVars
      /\ UNCHANGED <<deliveryVars, tries, answer, brokerVars, events>>
  BY DEF RecordFailure, PersistExecution
<1> HIDE DEF failed
<1>6. /\ store' \in [Orders -> Executions]
      /\ \A o \in Orders :
           store'[o] # store[o] => o = OrderAt(w) /\ store'[o] = failed
  BY <1>1, <1>4, <1>5 DEF SafeInv, TypeOK
<1>7. TypeOK'
  BY <1>1, <1>4, <1>5, <1>6
     DEF SafeInv, TypeOK, DeliveryTypeOK, Goto, Steps, deliveryVars, brokerVars, Expose,
         historyVars
<1>8. \A v \in Workers \ {w} : StepOK(v)'
  BY <1>5, <1>7, StepOKStable
     DEF SafeInv, HandlerOK, Goto, deliveryVars, brokerVars, BrokerGrows, SameHandler, TypeOK
<1>9. StepOK(w)'
  <2>1. /\ step'[w] = IF code \in RetryableCodes THEN "respond500" ELSE "publish"
        /\ execution'[w] = failed
    BY <1>4, <1>5 DEF SafeInv, TypeOK, Goto
  <2>2. refused'[OrderAt(w)'] = refused[OrderAt(w)] /\ answer'[w].reasonCode = code
    BY <1>5 DEF OrderAt, deliveryVars, brokerVars
  <2> QED
    BY <1>3, <1>4, <2>1, <2>2 DEF StepOK, ResultOK
<1>10. ExecutedWasTaken'
  BY <1>4, <1>5, <1>6 DEF SafeInv, ExecutedWasTaken, brokerVars
<1>11. FailedWasRefused'
  BY <1>3, <1>4, <1>5, <1>6 DEF SafeInv, FailedWasRefused, brokerVars
<1> QED
  BY <1>5, <1>7, <1>8, <1>9, <1>10, <1>11
     DEF SafeInv, RefusedOK, HandlerOK, AckedIsSettled, Settled, deliveryVars, brokerVars

LEMMA PublishSafe ==
  ASSUME SafeInv, NEW w \in Workers, PublishResult(w)
  PROVE  SafeInv'
<1>1. held[w] \in Messages /\ OrderAt(w) \in Orders
  BY ExecutionAssumption DEF PublishResult, SafeInv, TypeOK, OrderAt
<1>2. /\ execution[w] \in Executions
      /\ answer[w] \in Answers
      /\ refused[OrderAt(w)] \subseteq ReasonCodes
      /\ ResultOK(w)
  BY <1>1 DEF PublishResult, SafeInv, TypeOK, HandlerOK, StepOK
<1>3. /\ UNCHANGED <<deliveryVars, execution, tries, answer, store, brokerVars>>
      /\ Goto(w, "respond200")
      /\ events' \subseteq events \cup {ResultEvent(w)}
      /\ Unreport(w) \/ UNCHANGED historyVars
  BY DEF PublishResult
<1>4. /\ ResultEvent(w) \in Events
      /\ ResultEvent(w).order = OrderAt(w)
      /\ ResultEvent(w).type = "orders.executed" =>
           Taken(OrderAt(w), ResultEvent(w).brokerOrder)
      /\ ResultEvent(w).type = "orders.execution.failed" =>
           ResultEvent(w).reasonCode \in refused[OrderAt(w)]
  <2>1. CASE execution[w].status = "EXECUTED"
    BY <1>1, <1>2, <2>1 DEF ResultEvent, ResultOK, Events, Executions
  <2>2. CASE execution[w].status # "EXECUTED"
    BY <1>1, <1>2, <2>2 DEF ResultEvent, ResultOK, Events
  <2> QED
    BY <2>1, <2>2
<1>5. TypeOK'
  BY <1>1, <1>3, <1>4
     DEF SafeInv, TypeOK, DeliveryTypeOK, Goto, Steps, deliveryVars, brokerVars, Unreport,
         historyVars
<1>6. ExecutedWasTaken' /\ FailedWasRefused'
  BY <1>3, <1>4
     DEF SafeInv, ExecutedWasTaken, FailedWasRefused, Taken, brokerVars
<1>7. \A v \in Workers \ {w} : StepOK(v)'
  BY <1>3, <1>5, StepOKStable
     DEF SafeInv, HandlerOK, Goto, deliveryVars, brokerVars, BrokerGrows, SameHandler, TypeOK
<1>8. StepOK(w)'
  <2>1. Settled(OrderAt(w))'
    BY <1>2, <1>3 DEF ResultOK, Taken, Settled, OrderAt, deliveryVars, brokerVars
  <2> QED
    BY <1>3, <2>1 DEF SafeInv, HandlerOK, StepOK, Goto, TypeOK
<1> QED
  BY <1>3, <1>5, <1>6, <1>7, <1>8
     DEF SafeInv, RefusedOK, HandlerOK, AckedIsSettled, Settled, deliveryVars, brokerVars

LEMMA RespondSafe ==
  ASSUME SafeInv, NEW w \in Workers, Respond(w)
  PROVE  SafeInv'
<1>1. held[w] \in Messages /\ OrderAt(w) \in Orders
  BY ExecutionAssumption DEF Respond, SafeInv, TypeOK, OrderAt
<1>2. /\ ResetHandler(w)
      /\ Release(w)
      /\ UNCHANGED <<store, brokerVars, events, historyVars>>
  BY DEF Respond, Ack, Nack
<1>3. /\ sub' \in [Messages -> {"queued", "outstanding", "acked", "dead"}]
      /\ \A m \in Messages : sub'[m] = "queued" => deliveries[m] < MaxDeliveries
      /\ \A m \in Messages : (sub'[m] = "acked" /\ sub[m] # "acked") =>
           m = held[w] /\ step[w] = "respond200"
  BY <1>1 DEF Respond, Ack, Nack, Requeued, SafeInv, TypeOK, DeliveryTypeOK
<1>4. TypeOK'
  BY <1>1, <1>2, <1>3, DeliveryAssumption, FreshExecutions
     DEF SafeInv, TypeOK, DeliveryTypeOK, ResetHandler, Release, Goto, Steps, brokerVars,
         NoAnswer, Answers, historyVars
<1>5. \A v \in Workers \ {w} : StepOK(v)'
  BY <1>2, <1>4, StepOKStable
     DEF SafeInv, HandlerOK, ResetHandler, Release, Goto, brokerVars, BrokerGrows,
         SameHandler, TypeOK, DeliveryTypeOK
<1>6. StepOK(w)'
  BY <1>2, FreshExecutions DEF SafeInv, StepOK, ResetHandler, Goto, TypeOK
<1>7. AckedIsSettled'
  BY <1>2, <1>3, ExecutionAssumption
     DEF SafeInv, HandlerOK, StepOK, AckedIsSettled, Settled, OrderAt, brokerVars
<1> QED
  BY <1>2, <1>4, <1>5, <1>6, <1>7
     DEF SafeInv, RefusedOK, HandlerOK, ExecutedWasTaken, FailedWasRefused, brokerVars

LEMMA CrashSafe ==
  ASSUME SafeInv, NEW w \in Workers, Crash(w)
  PROVE  SafeInv'
<1>1. held[w] \in Messages /\ OrderAt(w) \in Orders
  BY ExecutionAssumption DEF Crash, SafeInv, TypeOK, OrderAt
<1>2. /\ ResetHandler(w)
      /\ Release(w)
      /\ UNCHANGED <<store, brokerVars, events>>
      /\ Expose(w) \/ Unreport(w) \/ UNCHANGED historyVars
  BY DEF Crash, Nack
<1>3. /\ sub' \in [Messages -> {"queued", "outstanding", "acked", "dead"}]
      /\ \A m \in Messages : sub'[m] = "queued" => deliveries[m] < MaxDeliveries
      /\ \A m \in Messages : sub'[m] = "acked" => sub[m] = "acked"
  BY <1>1 DEF Crash, Nack, Requeued, SafeInv, TypeOK, DeliveryTypeOK
<1>4. TypeOK'
  BY <1>1, <1>2, <1>3, DeliveryAssumption, FreshExecutions
     DEF SafeInv, TypeOK, DeliveryTypeOK, ResetHandler, Release, Goto, Steps, brokerVars,
         NoAnswer, Answers, Expose, Unreport, historyVars
<1>5. \A v \in Workers \ {w} : StepOK(v)'
  BY <1>2, <1>4, StepOKStable
     DEF SafeInv, HandlerOK, ResetHandler, Release, Goto, brokerVars, BrokerGrows,
         SameHandler, TypeOK, DeliveryTypeOK
<1>6. StepOK(w)'
  BY <1>2, FreshExecutions DEF SafeInv, StepOK, ResetHandler, Goto, TypeOK
<1>7. AckedIsSettled'
  BY <1>2, <1>3, ExecutionAssumption DEF SafeInv, AckedIsSettled, Settled, brokerVars
<1> QED
  BY <1>2, <1>4, <1>5, <1>6, <1>7
     DEF SafeInv, RefusedOK, HandlerOK, ExecutedWasTaken, FailedWasRefused, brokerVars

LEMMA SubscriptionSafe ==
  ASSUME SafeInv, Subscription
  PROVE  SafeInv'
<1>1. PICK m \in Messages : Expire(m) \/ Redeliver(m)
  BY DEF Subscription
<1>2. UNCHANGED <<deliveries, held, lease, handlerVars, store, brokerVars, events, historyVars>>
  BY <1>1 DEF Subscription, Expire, Redeliver
<1>3. /\ sub' \in [Messages -> {"queued", "outstanding", "acked", "dead"}]
      /\ \A n \in Messages : sub'[n] = "queued" => deliveries[n] < MaxDeliveries
      /\ \A n \in Messages : sub'[n] = "acked" => sub[n] = "acked"
  BY <1>1 DEF Expire, Redeliver, Requeued, SafeInv, TypeOK, DeliveryTypeOK
<1>4. TypeOK'
  BY <1>2, <1>3 DEF SafeInv, TypeOK, DeliveryTypeOK, handlerVars, brokerVars, historyVars
<1>5. \A v \in Workers : StepOK(v)'
  BY <1>2, <1>4, StepOKStable
     DEF SafeInv, HandlerOK, handlerVars, brokerVars, BrokerGrows, SameHandler, TypeOK
<1>6. AckedIsSettled'
  BY <1>2, <1>3, ExecutionAssumption DEF SafeInv, AckedIsSettled, Settled, brokerVars
<1> QED
  BY <1>2, <1>4, <1>5, <1>6
     DEF SafeInv, RefusedOK, HandlerOK, ExecutedWasTaken, FailedWasRefused, brokerVars

LEMMA StutterSafe ==
  ASSUME SafeInv, UNCHANGED vars
  PROVE  SafeInv'
  BY DEF SafeInv, TypeOK, DeliveryTypeOK, RefusedOK, HandlerOK, StepOK, AnswerOK, ResultOK,
         Taken, OrderAt, ExecutedWasTaken, FailedWasRefused, AckedIsSettled, Settled,
         vars, deliveryVars, handlerVars, brokerVars, historyVars

(* SafeInv is an invariant, whatever the environment does.                 *)
THEOREM SafeInvariant == Spec => []SafeInv
<1>1. Init => SafeInv
  BY InitSafe
<1>2. SafeInv /\ [Next]_vars => SafeInv'
  <2> SUFFICES ASSUME SafeInv, [Next]_vars PROVE SafeInv'
    OBVIOUS
  <2>1. CASE \E w \in Workers, m \in Messages : Receive(w, m)
    BY <2>1, ReceiveSafe
  <2>2. ASSUME NEW w \in Workers, Handle(w) PROVE SafeInv'
    BY <2>2, FindSafe, CreateSafe, BrokerTakesSafe, BrokerRefusesSafe,
       BrokerUnreachableSafe, RecordSuccessSafe, RecordFailureSafe, PublishSafe, RespondSafe
       DEF Handle
  <2>3. ASSUME NEW w \in Workers, Crash(w) PROVE SafeInv'
    BY <2>3, CrashSafe
  <2>4. CASE Subscription
    BY <2>4, SubscriptionSafe
  <2>5. CASE UNCHANGED vars
    BY <2>5, StutterSafe
  <2> QED
    BY <2>1, <2>2, <2>3, <2>4, <2>5 DEF Next
<1> QED
  BY <1>1, <1>2, PTL DEF Spec

(* Every variable keeps its type.                                          *)
THEOREM TypeCorrect == Spec => []TypeOK
<1>1. SafeInv => TypeOK
  BY DEF SafeInv
<1> QED
  BY <1>1, SafeInvariant, PTL

(* An order is recorded or reported as executed only if the broker took    *)
(* it, under a number the broker gave out.                                 *)
THEOREM ExecutedOnlyIfTaken == Spec => []ExecutedWasTaken
<1>1. SafeInv => ExecutedWasTaken
  BY DEF SafeInv
<1> QED
  BY <1>1, SafeInvariant, PTL

(* An order is recorded or reported as failed only for a reason the broker *)
(* refused it with; so time-outs that last fail no order, though RULE-EX-  *)
(* 003 has them do so after three attempts.                                *)
THEOREM FailedOnlyIfRefused == Spec => []FailedWasRefused
<1>1. SafeInv => FailedWasRefused
  BY DEF SafeInv
<1> QED
  BY <1>1, SafeInvariant, PTL

(* Both at once: a result that is recorded or reported is the broker's.    *)
THEOREM ResultsAreTheBrokers == Spec => []ResultIsTheBrokers
<1>1. SafeInv => ResultIsTheBrokers
  BY DEF SafeInv, ResultIsTheBrokers
<1> QED
  BY <1>1, SafeInvariant, PTL

(* No acknowledgement loses an approved order.                             *)
THEOREM NoLostApproval == Spec => []AckedIsSettled
<1>1. SafeInv => AckedIsSettled
  BY DEF SafeInv
<1> QED
  BY <1>1, SafeInvariant, PTL

---------------------------------------------------------------------------------
(***************************************************************************)
(* The second part.  Of the orders that nothing has exposed, OrderExecution*)
(* places at most one each at the broker, implements ExecutionContract, and*)
(* saves, reports and acknowledges a result in that order.                 *)
(***************************************************************************)

(* The inductive invariant, order by order.  One handler at most is on its *)
(* way to the broker and back; the broker holds an order exactly if the    *)
(* document is EXECUTED or that handler is about to make it so; and what   *)
(* has come to its end was reported or is about to be.                     *)

Decides(w, o) == Deciding(w) /\ OrderAt(w) = o

\* The handler has the broker's yes in its hand and has not saved it.
Carries(w, o) == step[w] = "record" /\ answer[w].ok /\ OrderAt(w) = o

OneDecides(o) == \A v, w \in Workers : Decides(v, o) /\ Decides(w, o) => v = w

PlacedAsStored(o) ==
  placed[o] = IF store[o].status = "EXECUTED" \/ \E w \in Workers : Carries(w, o)
              THEN 1 ELSE 0

\* The document of o as a handler of o knows it, and what the broker has of it.
WorkOK(w, o) ==
  /\ step[w] = "create" => store[o].status \in {"NONE", "APPROVED"}
  /\ step[w] \in {"submit", "record"} => store[o].status = "APPROVED"
  /\ step[w] \in {"create", "submit"} => placed[o] = 0
  /\ step[w] = "record" => placed[o] = IF answer[w].ok THEN 1 ELSE 0
  /\ step[w] = "publish" => store[o].status = execution[w].status
  /\ (step[w] = "respond200" /\ held[w] \in WellFormed) => Terminal(o)

WorkedOn(o) ==
  \A w \in Workers : (step[w] # "idle" /\ OrderAt(w) = o) => WorkOK(w, o)

EventsOK(o) ==
  \A e \in events : e.order = o =>
    store[o].status = IF e.type = "orders.executed" THEN "EXECUTED" ELSE "FAILED"

AckedOK(o) == \A m \in WellFormed : (sub[m] = "acked" /\ OrderOf[m] = o) => Terminal(o)

ToldOK(o) == Terminal(o) => o \in unreported \/ Reported(o) \/ Reporting(o)

OrderInv(o) ==
  /\ OneDecides(o)
  /\ PlacedAsStored(o)
  /\ WorkedOn(o)
  /\ EventsOK(o)
  /\ AckedOK(o)
  /\ ToldOK(o)

GuardInv == SafeInv /\ \A o \in Orders \ exposed : OrderInv(o)

---------------------------------------------------------------------------------
(* A step of one handler, whose order is o.                                *)

\* What a step of handler w at order o leaves to the others.
MovesAt(w, o) ==
  /\ \A v \in Workers \ {w} : SameHandler(v)
  /\ step[w] # "idle" => OrderAt(w) = o
  /\ step'[w] # "idle" => OrderAt(w)' = o
  /\ \A p \in Orders \ {o} :
       /\ store'[p] = store[p] /\ placed'[p] = placed[p]
       /\ p \in unreported <=> p \in unreported'
  /\ unreported \subseteq unreported'
  /\ exposed \subseteq exposed'
  /\ events \subseteq events' /\ \A e \in events' \ events : e.order = o
  /\ \A m \in Messages : (sub'[m] = "acked" /\ sub[m] # "acked") => OrderOf[m] = o

(* The other orders are none of its business.                              *)
LEMMA OthersKept ==
  ASSUME GuardInv, SafeInv', NEW w \in Workers, NEW o \in Orders, MovesAt(w, o),
         o \notin exposed' => OrderInv(o)'
  PROVE  GuardInv'
<1> SUFFICES ASSUME NEW p \in Orders \ {o}, p \notin exposed' PROVE OrderInv(p)'
  BY DEF GuardInv
<1>1. OrderInv(p)
  BY DEF GuardInv, MovesAt
<1>2. store'[p] = store[p] /\ placed'[p] = placed[p] /\ (p \in unreported <=> p \in unreported')
  BY DEF MovesAt
<1>3. ASSUME NEW v \in Workers, step'[v] # "idle", OrderAt(v)' = p
      PROVE  v # w /\ SameHandler(v) /\ OrderAt(v) = p
  BY <1>3 DEF MovesAt, SameHandler, OrderAt
<1>4. ASSUME NEW v \in Workers, step[v] # "idle", OrderAt(v) = p
      PROVE  v # w /\ SameHandler(v) /\ OrderAt(v)' = p
  BY <1>4 DEF MovesAt, SameHandler, OrderAt
<1>5. \A v \in Workers : Decides(v, p)' => Decides(v, p)
  BY <1>3 DEF Decides, Deciding, SameHandler
<1>6. \A v \in Workers : Carries(v, p)' <=> Carries(v, p)
  BY <1>3, <1>4 DEF Carries, SameHandler
<1>7. OneDecides(p)' /\ PlacedAsStored(p)'
  BY <1>1, <1>2, <1>5, <1>6 DEF OrderInv, OneDecides, PlacedAsStored
<1>8. WorkedOn(p)'
  BY <1>1, <1>2, <1>3 DEF OrderInv, WorkedOn, WorkOK, SameHandler, Terminal
<1>9. EventsOK(p)'
  BY <1>1, <1>2 DEF OrderInv, EventsOK, MovesAt
<1>10. AckedOK(p)'
  BY <1>1, <1>2, ExecutionAssumption DEF OrderInv, AckedOK, Terminal, MovesAt
<1>11. ToldOK(p)'
  <2>1. Reported(p) => Reported(p)'
    BY DEF Reported, MovesAt
  <2>2. Reporting(p) => Reporting(p)'
    BY <1>4 DEF Reporting, SameHandler
  <2> QED
    BY <1>1, <1>2, <2>1, <2>2 DEF OrderInv, ToldOK, Terminal
<1> QED
  BY <1>7, <1>8, <1>9, <1>10, <1>11 DEF OrderInv

(* While a handler decides on an order nothing has exposed, no other does, *)
(* and the order has not come to its end.                                  *)
LEMMA Undecided ==
  ASSUME GuardInv, NEW o \in Orders \ exposed, NEW w \in Workers, Decides(w, o)
  PROVE  /\ \A v \in Workers \ {w} : ~Decides(v, o) /\ ~Carries(v, o)
         /\ store[o].status \in {"NONE", "APPROVED"}
         /\ ~Terminal(o)
         /\ \A e \in events : e.order # o
         /\ \A m \in WellFormed : sub[m] = "acked" => OrderOf[m] # o
         /\ ~Reporting(o)
         /\ WorkOK(w, o)
<1>1. OrderInv(o)
  BY DEF GuardInv
<1>2. WorkOK(w, o)
  BY <1>1 DEF OrderInv, WorkedOn, Decides, Deciding
<1>3. store[o].status \in {"NONE", "APPROVED"} /\ ~Terminal(o)
  BY <1>2 DEF WorkOK, Decides, Deciding, Terminal
<1>4. \A v \in Workers \ {w} : ~Decides(v, o) /\ ~Carries(v, o)
  BY <1>1 DEF OrderInv, OneDecides, Decides, Deciding, Carries
<1>5. \A e \in events : e.order # o
  BY <1>1, <1>3 DEF OrderInv, EventsOK
<1>6. \A m \in WellFormed : sub[m] = "acked" => OrderOf[m] # o
  BY <1>1, <1>3 DEF OrderInv, AckedOK
<1>7. ~Reporting(o)
  <2> SUFFICES ASSUME NEW v \in Workers, step[v] = "publish", OrderAt(v) = o PROVE FALSE
    BY DEF Reporting
  <2>1. store[o].status = execution[v].status
    BY <1>1 DEF OrderInv, WorkedOn, WorkOK
  <2>2. execution[v].status \in {"EXECUTED", "FAILED"}
    BY DEF GuardInv, SafeInv, HandlerOK, StepOK, ResultOK
  <2> QED
    BY <1>3, <2>1, <2>2 DEF Terminal
<1> QED
  BY <1>2, <1>3, <1>4, <1>5, <1>6, <1>7

(* The broker holds an order that nobody decides on exactly if its         *)
(* document is EXECUTED.                                                   *)
LEMMA AtRest ==
  ASSUME GuardInv, NEW o \in Orders \ exposed, \A v \in Workers : ~Decides(v, o)
  PROVE  placed[o] = IF store[o].status = "EXECUTED" THEN 1 ELSE 0
  BY DEF GuardInv, OrderInv, PlacedAsStored, Carries, Decides, Deciding

(* A step that changes what is known of an order only if it decides on it  *)
(* leaves the order's other handlers, events and answers in order.         *)
LEMMA OwnKept ==
  ASSUME GuardInv, NEW w \in Workers, NEW o \in Orders \ exposed, MovesAt(w, o),
         events' = events,
         \A m \in Messages : sub'[m] = "acked" => sub[m] = "acked",
         Decides(w, o) \/ (store'[o].status = store[o].status /\ placed'[o] = placed[o]),
         Decides(w, o)' => \A v \in Workers \ {w} : ~Decides(v, o),
         step'[w] # "idle" => WorkOK(w, o)'
  PROVE  OneDecides(o)' /\ WorkedOn(o)' /\ EventsOK(o)' /\ AckedOK(o)'
<1>1. OrderInv(o)
  BY DEF GuardInv
<1>2. \A v \in Workers \ {w} : /\ SameHandler(v)
                               /\ OrderAt(v)' = OrderAt(v)
                               /\ Decides(v, o)' <=> Decides(v, o)
  BY DEF MovesAt, SameHandler, OrderAt, Decides, Deciding
<1>3. OneDecides(o)'
  BY <1>1, <1>2 DEF OrderInv, OneDecides
<1>4. WorkedOn(o)'
  <2> SUFFICES ASSUME NEW v \in Workers \ {w}, step[v] # "idle", OrderAt(v) = o
               PROVE  WorkOK(v, o)'
    BY <1>2 DEF WorkedOn, SameHandler
  <2>1. WorkOK(v, o)
    BY <1>1 DEF OrderInv, WorkedOn
  <2>2. CASE store'[o].status = store[o].status /\ placed'[o] = placed[o]
    BY <1>2, <2>1, <2>2 DEF WorkOK, SameHandler, Terminal
  <2>3. CASE Decides(w, o)
    <3>1. ~Decides(v, o) /\ ~Terminal(o) /\ ~Reporting(o)
      BY <2>3, Undecided
    <3>2. step[v] \notin {"create", "submit", "record", "publish"}
      BY <3>1 DEF Decides, Deciding, Reporting
    <3>3. ~(step[v] = "respond200" /\ held[v] \in WellFormed)
      BY <2>1, <3>1 DEF WorkOK
    <3> QED
      BY <1>2, <3>2, <3>3 DEF WorkOK, SameHandler
  <2> QED
    BY <2>2, <2>3
<1>5. EventsOK(o)' /\ AckedOK(o)'
  <2>1. CASE store'[o].status = store[o].status
    BY <1>1, <2>1, ExecutionAssumption DEF OrderInv, EventsOK, AckedOK, Terminal
  <2>2. CASE Decides(w, o)
    BY <2>2, Undecided, ExecutionAssumption DEF EventsOK, AckedOK
  <2> QED
    BY <2>1, <2>2
<1> QED
  BY <1>3, <1>4, <1>5

---------------------------------------------------------------------------------
(* What it takes to be a step of the contract.                             *)

Status == [o \in Orders |-> store[o].status]

InitContract == Contract!Init
StepContract == [Contract!Next]_<<Status, placed, exposed>>

\* One of the four steps of an order that does not stray, or none.
Regular(o) ==
  \/ store'[o].status = store[o].status /\ placed'[o] = placed[o]
  \/ /\ store[o].status = "NONE" /\ store'[o].status = "APPROVED"
     /\ placed'[o] = placed[o]
  \/ /\ store[o].status = "APPROVED" /\ store'[o].status = "APPROVED"
     /\ placed[o] = 0 /\ placed'[o] = 1
  \/ /\ store[o].status = "APPROVED" /\ store'[o].status = "EXECUTED"
     /\ placed[o] = 1 /\ placed'[o] = 1
  \/ /\ store[o].status = "APPROVED" /\ store'[o].status = "FAILED"
     /\ placed[o] = 0 /\ placed'[o] = 0

(* Only one order changes, and it is exposed or changes as it should.      *)
LEMMA OneOrderContract ==
  ASSUME SafeInv, SafeInv', NEW o \in Orders,
         \A p \in Orders \ {o} : store'[p] = store[p] /\ placed'[p] = placed[p],
         exposed' \in {exposed, exposed \cup {o}},
         placed'[o] \in {placed[o], placed[o] + 1},
         o \notin exposed' => Regular(o)
  PROVE  StepContract
<1>1. /\ placed \in [Orders -> Nat] /\ placed' \in [Orders -> Nat]
      /\ store'[o].status \in Statuses
      /\ store'[o].status = "EXECUTED" => placed'[o] > 0
  BY DEF SafeInv, TypeOK, Executions, ExecutedWasTaken
<1>2. ASSUME NEW s, store'[o].status = s PROVE Status' = [Status EXCEPT ![o] = s]
  BY <1>2 DEF Status
<1>3. ASSUME NEW n \in Nat, placed'[o] = placed[o] + n
      PROVE  placed' = [placed EXCEPT ![o] = @ + n]
  BY <1>1, <1>3
<1>4. Status[o] = store[o].status /\ Status'[o] = store'[o].status
  BY DEF Status
<1>5. CASE o \in exposed'
  <2>1. exposed' = exposed \cup {o}
    BY <1>5
  <2>2. \E n \in {0, 1} : placed' = [placed EXCEPT ![o] = @ + n]
    <3>1. CASE placed'[o] = placed[o]
      <4>1. placed'[o] = placed[o] + 0
        BY <1>1, <3>1
      <4> QED
        BY <1>3, <4>1
    <3>2. CASE placed'[o] = placed[o] + 1
      BY <1>3, <3>2
    <3> QED
      BY <3>1, <3>2
  <2>3. \E s \in Contract!Statuses : Status' = [Status EXCEPT ![o] = s]
    BY <1>1, <1>2 DEF Statuses, Contract!Statuses
  <2>4. Status'[o] = "EXECUTED" => placed'[o] > 0
    BY <1>1, <1>4
  <2>5. Contract!Stray(o)
    BY <2>1, <2>2, <2>3, <2>4 DEF Contract!Stray, Status
  <2> QED
    BY <2>5 DEF StepContract, Contract!Next
<1>6. CASE o \notin exposed'
  <2>1. exposed' = exposed /\ Regular(o)
    BY <1>6
  <2>2. placed'[o] = placed[o] => placed' = placed
    BY <1>1
  <2>3. store'[o].status = store[o].status => Status' = Status
    BY DEF Status
  <2>4. CASE store'[o].status = store[o].status /\ placed'[o] = placed[o]
    BY <2>1, <2>2, <2>3, <2>4 DEF StepContract
  <2>5. CASE /\ store[o].status = "NONE" /\ store'[o].status = "APPROVED"
             /\ placed'[o] = placed[o]
    <3>1. Contract!Accept(o)
      BY <1>2, <1>4, <2>1, <2>2, <2>5 DEF Contract!Accept, Status
    <3> QED
      BY <3>1 DEF StepContract, Contract!Next
  <2>6. CASE /\ store[o].status = "APPROVED" /\ store'[o].status = "APPROVED"
             /\ placed[o] = 0 /\ placed'[o] = 1
    <3>1. placed' = [placed EXCEPT ![o] = 1]
      BY <1>1, <2>6
    <3>2. Contract!Send(o)
      BY <1>4, <2>1, <2>3, <2>6, <3>1 DEF Contract!Send, Status
    <3> QED
      BY <3>2 DEF StepContract, Contract!Next
  <2>7. CASE /\ store[o].status = "APPROVED" /\ store'[o].status = "EXECUTED"
             /\ placed[o] = 1 /\ placed'[o] = 1
    <3>1. Contract!Execute(o)
      BY <1>2, <1>4, <2>1, <2>2, <2>7 DEF Contract!Execute, Status
    <3> QED
      BY <3>1 DEF StepContract, Contract!Next
  <2>8. CASE /\ store[o].status = "APPROVED" /\ store'[o].status = "FAILED"
             /\ placed[o] = 0 /\ placed'[o] = 0
    <3>1. Contract!Fail(o)
      BY <1>2, <1>4, <2>1, <2>2, <2>8 DEF Contract!Fail, Status
    <3> QED
      BY <3>1 DEF StepContract, Contract!Next
  <2> QED
    BY <2>1, <2>4, <2>5, <2>6, <2>7, <2>8 DEF Regular
<1> QED
  BY <1>5, <1>6

(* A step that changes neither a document nor what the broker holds.       *)
LEMMA StutterContract ==
  ASSUME UNCHANGED <<store, placed, exposed>>
  PROVE  StepContract
  BY DEF StepContract, Status

---------------------------------------------------------------------------------
(* Each action preserves the invariant and maps to a step of the contract. *)

LEMMA InitGuard == Init => GuardInv /\ InitContract
<1> SUFFICES ASSUME Init PROVE GuardInv /\ InitContract
  OBVIOUS
<1>1. SafeInv
  BY InitSafe
<1>2. ASSUME NEW o \in Orders PROVE OrderInv(o)
  <2>1. store[o].status = "NONE" /\ placed[o] = 0 /\ ~Terminal(o)
    BY FreshExecutions DEF Init, Terminal
  <2>2. \A w \in Workers : step[w] = "idle"
    BY DEF Init
  <2>3. \A m \in WellFormed : sub[m] # "acked"
    BY ExecutionAssumption DEF Init, DeliveryInit
  <2> QED
    BY <2>1, <2>2, <2>3
       DEF Init, OrderInv, OneDecides, Decides, Deciding, PlacedAsStored, Carries, WorkedOn,
           EventsOK, AckedOK, ToldOK
<1> QED
  BY <1>1, <1>2, FreshExecutions DEF GuardInv, Init, InitContract, Contract!Init

LEMMA ReceiveGuard ==
  ASSUME GuardInv, NEW w \in Workers, NEW m \in Messages, Receive(w, m)
  PROVE  GuardInv' /\ StepContract
<1>1. SafeInv'
  BY ReceiveSafe DEF GuardInv
<1>2. PICK o \in Orders : o = OrderOf[m]
  BY ExecutionAssumption
<1>3. /\ step[w] = "idle"
      /\ step'[w] = IF m \in WellFormed THEN "find" ELSE "respond200"
      /\ held'[w] = m /\ OrderAt(w)' = o
      /\ \A n \in Messages : sub'[n] = "acked" => sub[n] = "acked"
      /\ UNCHANGED <<store, placed, events, exposed, unreported>>
  BY <1>2 DEF Receive, Push, Goto, GuardInv, SafeInv, TypeOK, DeliveryTypeOK, OrderAt,
              brokerVars, historyVars
<1>4. MovesAt(w, o)
  BY <1>3 DEF MovesAt, SameHandler, Receive, Push, Goto, GuardInv, SafeInv, TypeOK,
              DeliveryTypeOK
<1>5. ASSUME o \notin exposed' PROVE OrderInv(o)'
  <2>1. OrderInv(o)
    BY <1>3, <1>5 DEF GuardInv
  <2>2. OneDecides(o)' /\ WorkedOn(o)' /\ EventsOK(o)' /\ AckedOK(o)'
    <3>1. WorkOK(w, o)' /\ ~Decides(w, o)'
      BY <1>3 DEF WorkOK, Decides, Deciding
    <3> QED
      BY <1>3, <1>4, <1>5, <3>1, OwnKept
  <2>3. \A v \in Workers : Carries(v, o)' <=> Carries(v, o)
    BY <1>3, <1>4 DEF MovesAt, SameHandler, Carries, OrderAt
  <2>4. Reporting(o) => Reporting(o)'
    BY <1>3, <1>4 DEF MovesAt, SameHandler, Reporting, OrderAt
  <2> QED
    BY <1>3, <2>1, <2>2, <2>3, <2>4
       DEF OrderInv, PlacedAsStored, ToldOK, Terminal, Reported
<1> QED
  BY <1>1, <1>3, <1>4, <1>5, OthersKept, StutterContract

LEMMA FindGuard ==
  ASSUME GuardInv, NEW w \in Workers, FindExecution(w)
  PROVE  GuardInv' /\ StepContract
<1>1. SafeInv'
  BY FindSafe DEF GuardInv
<1>2. PICK o \in Orders : o = OrderAt(w)
  BY ExecutionAssumption DEF FindExecution, GuardInv, SafeInv, TypeOK, OrderAt
<1>3. /\ step[w] = "find"
      /\ UNCHANGED <<deliveryVars, answer, store, placed, events, unreported>>
      /\ exposed' \in {exposed, exposed \cup {o}}
      /\ \A v \in Workers \ {w} : step'[v] = step[v] /\ execution'[v] = execution[v]
  BY <1>2 DEF FindExecution, Venture, Expose, Goto, GuardInv, SafeInv, TypeOK, brokerVars,
              historyVars
<1>4. MovesAt(w, o) /\ OrderAt(w)' = o
  BY <1>2, <1>3 DEF MovesAt, SameHandler, OrderAt, deliveryVars
<1>5. ASSUME o \notin exposed' PROVE OrderInv(o)'
  <2>1. OrderInv(o) /\ o \in Orders \ exposed
    BY <1>3, <1>5 DEF GuardInv
  <2>2. PICK found \in Found(w) :
          \/ IsDuplicateDispatch(found) /\ step'[w] = "respond200"
          \/ /\ found.status # "NONE" /\ ~IsDuplicateDispatch(found)
             /\ step'[w] = "submit" /\ ~Contested(w, found)
          \/ found.status = "NONE" /\ step'[w] = "create" /\ ~Contested(w, found)
    BY <1>2, <1>5 DEF FindExecution, Venture, Expose, Goto, GuardInv, SafeInv, TypeOK
  <2>3. /\ store[o] \in Executions /\ store[o].status \in Statuses
        /\ DocumentToExecution(store[o]).status = store[o].status
    <3>1. store[o] \in Executions
      BY DEF GuardInv, SafeInv, TypeOK
    <3>2. store[o].status = "FAILED" => store[o].reasonCode \in RefusalCodes
      BY DEF GuardInv, SafeInv, FailedWasRefused, RefusedOK
    <3> QED
      BY <3>1, <3>2, DocumentToExecutionResult DEF Executions
  <2>4. found.status = store[o].status \/ found.status = "NONE"
    BY <1>2, <2>3, FreshExecutions DEF Found
  <2>5. CASE IsDuplicateDispatch(found) /\ step'[w] = "respond200"
    <3>1. Terminal(o) /\ ~Decides(w, o)' /\ ~Carries(w, o)' /\ ~Carries(w, o)
      BY <1>3, <2>4, <2>5 DEF IsDuplicateDispatch, Terminal, Decides, Deciding, Carries
    <3>2. WorkOK(w, o)'
      BY <1>3, <2>5, <3>1 DEF WorkOK, Terminal
    <3>3. OneDecides(o)' /\ WorkedOn(o)' /\ EventsOK(o)' /\ AckedOK(o)'
      BY <1>3, <1>4, <2>1, <3>1, <3>2, OwnKept DEF deliveryVars
    <3>4. \A v \in Workers : Carries(v, o)' <=> Carries(v, o)
      BY <1>4, <3>1 DEF MovesAt, SameHandler, Carries, OrderAt
    <3>5. Reporting(o) => Reporting(o)'
      BY <1>3, <1>4 DEF MovesAt, SameHandler, Reporting, OrderAt
    <3> QED
      BY <1>3, <2>1, <3>3, <3>4, <3>5
         DEF OrderInv, PlacedAsStored, ToldOK, Terminal, Reported
  <2>6. CASE step'[w] \in {"submit", "create"} /\ ~Contested(w, found)
    <3>1. \A v \in Workers : ~Decides(v, o)
      BY <1>2, <1>3, <2>6 DEF Contested, Decides, Deciding
    <3>2. /\ step'[w] = "submit" => store[o].status = "APPROVED"
          /\ step'[w] = "create" => store[o].status \in {"NONE", "APPROVED"}
          /\ store[o].status # "EXECUTED"
      BY <1>2, <2>2, <2>3, <2>4, <2>6
         DEF Contested, Terminal, IsDuplicateDispatch, Statuses
    <3>3. placed[o] = 0
      BY <2>1, <3>1, <3>2, AtRest
    <3>4. WorkOK(w, o)'
      BY <1>3, <2>6, <3>2, <3>3 DEF WorkOK
    <3>5. OneDecides(o)' /\ WorkedOn(o)' /\ EventsOK(o)' /\ AckedOK(o)'
      BY <1>3, <1>4, <2>1, <3>1, <3>4, OwnKept DEF deliveryVars
    <3>6. \A v \in Workers : Carries(v, o)' <=> Carries(v, o)
      BY <1>3, <1>4, <2>6 DEF MovesAt, SameHandler, Carries, OrderAt
    <3>7. Reporting(o) => Reporting(o)'
      BY <1>3, <1>4 DEF MovesAt, SameHandler, Reporting, OrderAt
    <3> QED
      BY <1>3, <2>1, <3>5, <3>6, <3>7
         DEF OrderInv, PlacedAsStored, ToldOK, Terminal, Reported
  <2> QED
    BY <2>2, <2>5, <2>6
<1>6. StepContract
  BY <1>1, <1>2, <1>3, OneOrderContract DEF GuardInv, Regular
<1> QED
  BY <1>1, <1>4, <1>5, <1>6, OthersKept

(* The new document of the order at hand, if it was not lost.              *)
LEMMA Persisted ==
  ASSUME GuardInv, NEW w \in Workers, NEW o \in Orders, o = OrderAt(w),
         NEW e \in Executions, PersistExecution(w, e)
  PROVE  /\ exposed' \in {exposed, exposed \cup {o}}
         /\ UNCHANGED unreported
         /\ \A p \in Orders \ {o} : store'[p] = store[p]
         /\ o \notin exposed' => store'[o] = e
  BY DEF PersistExecution, Expose, GuardInv, SafeInv, TypeOK, historyVars

LEMMA CreateGuard ==
  ASSUME GuardInv, NEW w \in Workers, CreateExecution(w)
  PROVE  GuardInv' /\ StepContract
<1>1. SafeInv'
  BY CreateSafe DEF GuardInv
<1>2. PICK o \in Orders : o = OrderAt(w)
  BY ExecutionAssumption DEF CreateExecution, GuardInv, SafeInv, TypeOK, OrderAt
<1>3. /\ step[w] = "create" /\ step'[w] = "submit"
      /\ UNCHANGED <<deliveryVars, answer, execution, placed, events>>
      /\ \A v \in Workers \ {w} : step'[v] = step[v]
      /\ execution[w] \in Executions /\ execution[w].status = "APPROVED"
  BY DEF CreateExecution, Goto, GuardInv, SafeInv, TypeOK, HandlerOK, StepOK, brokerVars
<1>4. /\ exposed' \in {exposed, exposed \cup {o}}
      /\ UNCHANGED unreported
      /\ \A p \in Orders \ {o} : store'[p] = store[p]
      /\ o \notin exposed' => store'[o].status = "APPROVED"
  BY <1>2, <1>3, Persisted DEF CreateExecution
<1>5. MovesAt(w, o) /\ OrderAt(w)' = o /\ Decides(w, o)
  BY <1>2, <1>3, <1>4 DEF MovesAt, SameHandler, OrderAt, deliveryVars, Decides, Deciding
<1>6. ASSUME o \notin exposed' PROVE OrderInv(o)' /\ Regular(o)
  <2>1. o \in Orders \ exposed /\ OrderInv(o)
    BY <1>4, <1>6 DEF GuardInv
  <2>2. /\ \A v \in Workers \ {w} : ~Decides(v, o) /\ ~Carries(v, o)
        /\ store[o].status \in {"NONE", "APPROVED"}
        /\ placed[o] = 0
    BY <1>3, <1>5, <2>1, Undecided DEF WorkOK
  <2>3. WorkOK(w, o)'
    BY <1>3, <1>4, <1>6, <2>2 DEF WorkOK
  <2>4. OneDecides(o)' /\ WorkedOn(o)' /\ EventsOK(o)' /\ AckedOK(o)'
    BY <1>3, <1>5, <2>1, <2>2, <2>3, OwnKept DEF deliveryVars
  <2>5. PlacedAsStored(o)'
    BY <1>3, <1>4, <1>5, <1>6, <2>2
       DEF MovesAt, SameHandler, PlacedAsStored, Carries, OrderAt
  <2>6. ToldOK(o)'
    BY <1>4, <1>6 DEF ToldOK, Terminal
  <2> QED
    BY <1>3, <1>4, <1>6, <2>2, <2>4, <2>5, <2>6 DEF OrderInv, Regular
<1>7. StepContract
  BY <1>1, <1>3, <1>4, <1>6, OneOrderContract DEF GuardInv, SafeInv, TypeOK
<1> QED
  BY <1>1, <1>5, <1>6, <1>7, OthersKept

(* A broker call that nothing went wrong with, but for a timeout before    *)
(* the broker had the order.                                               *)
LEMMA CallGuard ==
  ASSUME GuardInv, SafeInv', NEW w \in Workers, NEW o \in Orders, o = OrderAt(w),
         step[w] = "submit", NEW a \in Answers, CallBroker(w, a),
         placed' = [placed EXCEPT ![o] = @ + 1] \/ placed' = placed,
         \/ o \notin exposed /\ exposed' = exposed /\ (placed' # placed <=> a.ok)
         \/ exposed' = exposed \cup {o}
         \/ o \in exposed /\ exposed' = exposed,
         UNCHANGED unreported
  PROVE  GuardInv' /\ StepContract
<1>1. /\ UNCHANGED <<deliveryVars, store, execution, events>>
      /\ \A v \in Workers \ {w} : step'[v] = step[v] /\ answer'[v] = answer[v]
      /\ \/ step'[w] = "submit" /\ ~a.ok
         \/ step'[w] = "record" /\ answer'[w] = a
  BY DEF CallBroker, Goto, GuardInv, SafeInv, TypeOK, Retries
<1>2. /\ \A p \in Orders \ {o} : placed'[p] = placed[p]
      /\ placed'[o] \in {placed[o], placed[o] + 1}
      /\ exposed' \in {exposed, exposed \cup {o}}
      /\ placed[o] \in Nat
  BY DEF GuardInv, SafeInv, TypeOK
<1>3. MovesAt(w, o) /\ OrderAt(w)' = o /\ Decides(w, o)
  BY <1>1, <1>2 DEF MovesAt, SameHandler, OrderAt, deliveryVars, Decides, Deciding
<1>4. ASSUME o \notin exposed' PROVE OrderInv(o)' /\ Regular(o)
  <2>1. o \in Orders \ exposed /\ OrderInv(o) /\ (placed' # placed <=> a.ok)
    BY <1>2, <1>4 DEF GuardInv
  <2>2. /\ \A v \in Workers \ {w} : ~Decides(v, o) /\ ~Carries(v, o)
        /\ store[o].status = "APPROVED"
        /\ placed[o] = 0
        /\ ~Terminal(o)
    BY <1>3, <2>1, Undecided DEF WorkOK
  <2>3. placed'[o] = IF a.ok THEN 1 ELSE 0
    BY <1>2, <2>1, <2>2 DEF GuardInv, SafeInv, TypeOK
  <2>4. WorkOK(w, o)'
    BY <1>1, <2>2, <2>3 DEF WorkOK
  <2>5. OneDecides(o)' /\ WorkedOn(o)' /\ EventsOK(o)' /\ AckedOK(o)'
    BY <1>1, <1>3, <2>1, <2>2, <2>4, OwnKept DEF deliveryVars
  <2>6. PlacedAsStored(o)'
    <3>1. \A v \in Workers \ {w} : ~Carries(v, o)'
      BY <1>3, <2>2 DEF MovesAt, SameHandler, Carries, OrderAt
    <3>2. Carries(w, o)' <=> a.ok
      BY <1>1, <1>3 DEF Carries
    <3> QED
      BY <1>1, <2>2, <2>3, <3>1, <3>2 DEF PlacedAsStored
  <2>7. ToldOK(o)'
    BY <1>1, <2>2 DEF ToldOK, Terminal
  <2> QED
    BY <1>1, <2>2, <2>3, <2>5, <2>6, <2>7 DEF OrderInv, Regular
<1>5. StepContract
  BY <1>1, <1>2, <1>4, OneOrderContract DEF GuardInv
<1> QED
  BY <1>3, <1>4, <1>5, OthersKept

LEMMA BrokerTakesGuard ==
  ASSUME GuardInv, NEW w \in Workers, BrokerTakes(w)
  PROVE  GuardInv' /\ StepContract
<1>1. SafeInv'
  BY BrokerTakesSafe DEF GuardInv
<1>2. PICK o \in Orders : o = OrderAt(w)
  BY ExecutionAssumption DEF BrokerTakes, GuardInv, SafeInv, TypeOK, OrderAt
<1>3. placed[o] \in Nat
  BY DEF GuardInv, SafeInv, TypeOK
<1>4. PICK a \in Answers : a.ok /\ CallBroker(w, a)
  <2>1. PICK n \in {0, placed[o] + 1} :
          CallBroker(w, [ok |-> TRUE, brokerOrder |-> n, reasonCode |-> NoReason])
    BY <1>2 DEF BrokerTakes
  <2>2. [ok |-> TRUE, brokerOrder |-> n, reasonCode |-> NoReason] \in Answers
    BY <1>3, <2>1 DEF Answers
  <2> QED
    BY <2>1, <2>2
<1>5. /\ placed' = [placed EXCEPT ![o] = @ + 1] /\ placed' # placed
      /\ step[w] = "submit"
      /\ UNCHANGED <<exposed, unreported>>
  BY <1>2, <1>3 DEF BrokerTakes, PlaceOrder, historyVars, GuardInv, SafeInv, TypeOK
<1> QED
  BY <1>1, <1>2, <1>4, <1>5, CallGuard

LEMMA BrokerRefusesGuard ==
  ASSUME GuardInv, NEW w \in Workers, BrokerRefuses(w)
  PROVE  GuardInv' /\ StepContract
<1>1. SafeInv'
  BY BrokerRefusesSafe DEF GuardInv
<1>2. PICK o \in Orders : o = OrderAt(w)
  BY ExecutionAssumption DEF BrokerRefuses, GuardInv, SafeInv, TypeOK, OrderAt
<1>3. PICK a \in Answers : ~a.ok /\ CallBroker(w, a)
  <2>1. PICK code \in ReasonCodes \cap RefusalCodes :
          CallBroker(w, [ok |-> FALSE, brokerOrder |-> 0, reasonCode |-> code])
    BY DEF BrokerRefuses
  <2>2. [ok |-> FALSE, brokerOrder |-> 0, reasonCode |-> code] \in Answers
    BY DEF Answers
  <2> QED
    BY <2>1, <2>2
<1>4. placed' = placed /\ step[w] = "submit" /\ UNCHANGED <<exposed, unreported>>
  BY DEF BrokerRefuses, historyVars
<1> QED
  BY <1>1, <1>2, <1>3, <1>4, CallGuard

LEMMA BrokerUnreachableGuard ==
  ASSUME GuardInv, NEW w \in Workers, BrokerUnreachable(w)
  PROVE  GuardInv' /\ StepContract
<1>1. SafeInv'
  BY BrokerUnreachableSafe DEF GuardInv
<1>2. PICK o \in Orders : o = OrderAt(w)
  BY ExecutionAssumption DEF BrokerUnreachable, GuardInv, SafeInv, TypeOK, OrderAt
<1>3. PICK a \in Answers : ~a.ok /\ CallBroker(w, a)
  <2>1. PICK code \in ReasonCodes \cap BrokerRetryableCodes :
          CallBroker(w, [ok |-> FALSE, brokerOrder |-> 0, reasonCode |-> code])
    BY DEF BrokerUnreachable
  <2>2. [ok |-> FALSE, brokerOrder |-> 0, reasonCode |-> code] \in Answers
    BY DEF Answers
  <2> QED
    BY <2>1, <2>2
<1>4. /\ step[w] = "submit"
      /\ \/ UNCHANGED <<placed, exposed, unreported>>
         \/ /\ placed' = [placed EXCEPT ![o] = @ + 1]
            /\ exposed' = exposed \cup {o}
            /\ UNCHANGED unreported
  BY <1>2 DEF BrokerUnreachable, PlaceOrder, Expose, historyVars
<1> QED
  BY <1>1, <1>2, <1>3, <1>4, CallGuard

LEMMA RecordSuccessGuard ==
  ASSUME GuardInv, NEW w \in Workers, RecordSuccess(w)
  PROVE  GuardInv' /\ StepContract
<1> DEFINE executed == RecordBrokerSuccess(execution[w], answer[w].brokerOrder)
<1>1. SafeInv'
  BY RecordSuccessSafe DEF GuardInv
<1>2. PICK o \in Orders : o = OrderAt(w)
  BY ExecutionAssumption DEF RecordSuccess, GuardInv, SafeInv, TypeOK, OrderAt
<1>3. executed \in Executions /\ executed.status = "EXECUTED"
  <2>1. execution[w] \in Executions /\ answer[w].brokerOrder \in Nat
    BY DEF GuardInv, SafeInv, TypeOK, Answers
  <2> QED
    BY <2>1, RecordBrokerSuccessResult
<1>4. /\ step[w] = "record" /\ answer[w].ok /\ step'[w] = "publish"
      /\ execution' = [execution EXCEPT ![w] = executed]
      /\ PersistExecution(w, executed)
      /\ UNCHANGED <<deliveryVars, answer, placed, events>>
      /\ \A v \in Workers \ {w} : step'[v] = step[v]
  BY DEF RecordSuccess, Goto, GuardInv, SafeInv, TypeOK, brokerVars
<1> HIDE DEF executed
<1>5. /\ exposed' \in {exposed, exposed \cup {o}}
      /\ UNCHANGED unreported
      /\ \A p \in Orders \ {o} : store'[p] = store[p]
      /\ o \notin exposed' => store'[o].status = "EXECUTED"
  BY <1>2, <1>3, <1>4, Persisted
<1>6. /\ execution'[w].status = "EXECUTED"
      /\ \A v \in Workers \ {w} : execution'[v] = execution[v]
  BY <1>3, <1>4 DEF GuardInv, SafeInv, TypeOK
<1>7. MovesAt(w, o) /\ OrderAt(w)' = o /\ Decides(w, o)
  BY <1>2, <1>4, <1>5, <1>6
     DEF MovesAt, SameHandler, OrderAt, deliveryVars, Decides, Deciding
<1>8. ASSUME o \notin exposed' PROVE OrderInv(o)' /\ Regular(o)
  <2>1. o \in Orders \ exposed /\ OrderInv(o)
    BY <1>5, <1>8 DEF GuardInv
  <2>2. store[o].status = "APPROVED" /\ placed[o] = 1
    BY <1>4, <1>7, <2>1, Undecided DEF WorkOK
  <2>3. WorkOK(w, o)' /\ ~Decides(w, o)'
    BY <1>4, <1>5, <1>6, <1>8 DEF WorkOK, Decides, Deciding
  <2>4. OneDecides(o)' /\ WorkedOn(o)' /\ EventsOK(o)' /\ AckedOK(o)'
    BY <1>4, <1>7, <2>1, <2>3, OwnKept DEF deliveryVars
  <2>5. PlacedAsStored(o)'
    BY <1>4, <1>5, <1>8, <2>2 DEF PlacedAsStored
  <2>6. ToldOK(o)'
    BY <1>4, <1>7 DEF ToldOK, Reporting
  <2> QED
    BY <1>4, <1>5, <1>8, <2>2, <2>4, <2>5, <2>6 DEF OrderInv, Regular
<1>9. StepContract
  BY <1>1, <1>4, <1>5, <1>8, OneOrderContract DEF GuardInv, SafeInv, TypeOK
<1> QED
  BY <1>1, <1>7, <1>8, <1>9, OthersKept

LEMMA RecordFailureGuard ==
  ASSUME GuardInv, NEW w \in Workers, RecordFailure(w)
  PROVE  GuardInv' /\ StepContract
<1> DEFINE code == answer[w].reasonCode
           failed == RecordBrokerFailure(execution[w], code)
           retried == CanRetry(execution[w], code)
<1>1. SafeInv'
  BY RecordFailureSafe DEF GuardInv
<1>2. PICK o \in Orders : o = OrderAt(w)
  BY ExecutionAssumption DEF RecordFailure, GuardInv, SafeInv, TypeOK, OrderAt
<1>3. failed \in Executions /\ failed.status = IF retried THEN "APPROVED" ELSE "FAILED"
  <2>1. execution[w] \in Executions /\ execution[w].status = "APPROVED"
    BY DEF RecordFailure, GuardInv, SafeInv, TypeOK, HandlerOK, StepOK
  <2>2. code \in RetryableCodes \cup RefusalCodes
    BY <1>2 DEF RecordFailure, GuardInv, SafeInv, HandlerOK, StepOK, AnswerOK, RefusedOK,
                RetryableCodes, BrokerRetryableCodes
  <2> QED
    BY <2>1, <2>2, RecordBrokerFailureResult
<1>4. /\ step[w] = "record" /\ ~answer[w].ok
      /\ step'[w] = IF retried THEN "respond500" ELSE "publish"
      /\ execution' = [execution EXCEPT ![w] = failed]
      /\ PersistExecution(w, failed)
      /\ UNCHANGED <<deliveryVars, answer, placed, events>>
      /\ \A v \in Workers \ {w} : step'[v] = step[v]
  BY DEF RecordFailure, Goto, GuardInv, SafeInv, TypeOK, brokerVars
<1> HIDE DEF failed, retried
<1>5. /\ exposed' \in {exposed, exposed \cup {o}}
      /\ UNCHANGED unreported
      /\ \A p \in Orders \ {o} : store'[p] = store[p]
      /\ o \notin exposed' => store'[o] = failed
  BY <1>2, <1>3, <1>4, Persisted
<1>6. /\ execution'[w] = failed
      /\ \A v \in Workers \ {w} : execution'[v] = execution[v]
  BY <1>3, <1>4 DEF GuardInv, SafeInv, TypeOK
<1>7. MovesAt(w, o) /\ OrderAt(w)' = o /\ Decides(w, o)
  BY <1>2, <1>4, <1>5, <1>6
     DEF MovesAt, SameHandler, OrderAt, deliveryVars, Decides, Deciding
<1>8. ASSUME o \notin exposed' PROVE OrderInv(o)' /\ Regular(o)
  <2>1. o \in Orders \ exposed /\ OrderInv(o)
    BY <1>5, <1>8 DEF GuardInv
  <2>2. /\ store[o].status = "APPROVED" /\ placed[o] = 0
        /\ \A v \in Workers \ {w} : ~Carries(v, o)
    BY <1>4, <1>7, <2>1, Undecided DEF WorkOK
  <2>3. WorkOK(w, o)' /\ ~Decides(w, o)'
    BY <1>4, <1>5, <1>6, <1>8 DEF WorkOK, Decides, Deciding
  <2>4. OneDecides(o)' /\ WorkedOn(o)' /\ EventsOK(o)' /\ AckedOK(o)'
    BY <1>4, <1>7, <2>1, <2>3, OwnKept DEF deliveryVars
  <2>5. PlacedAsStored(o)'
    <3>1. \A v \in Workers : ~Carries(v, o)'
      BY <1>4, <1>7, <2>2 DEF MovesAt, SameHandler, Carries, OrderAt
    <3> QED
      BY <1>3, <1>4, <1>5, <1>8, <2>2, <3>1 DEF PlacedAsStored
  <2>6. ToldOK(o)'
    <3>1. CASE retried
      BY <1>3, <1>5, <1>8, <3>1 DEF ToldOK, Terminal
    <3>2. CASE ~retried
      BY <1>4, <1>7, <3>2 DEF ToldOK, Reporting
    <3> QED
      BY <3>1, <3>2
  <2> QED
    BY <1>3, <1>4, <1>5, <1>8, <2>2, <2>4, <2>5, <2>6 DEF OrderInv, Regular
<1>9. StepContract
  BY <1>1, <1>4, <1>5, <1>8, OneOrderContract DEF GuardInv, SafeInv, TypeOK
<1> QED
  BY <1>1, <1>7, <1>8, <1>9, OthersKept

LEMMA PublishGuard ==
  ASSUME GuardInv, NEW w \in Workers, PublishResult(w)
  PROVE  GuardInv' /\ StepContract
<1>1. SafeInv'
  BY PublishSafe DEF GuardInv
<1>2. PICK o \in Orders : o = OrderAt(w)
  BY ExecutionAssumption DEF PublishResult, GuardInv, SafeInv, TypeOK, OrderAt
<1>3. /\ step[w] = "publish" /\ step'[w] = "respond200"
      /\ UNCHANGED <<deliveryVars, answer, execution, placed, store, exposed>>
      /\ \A v \in Workers \ {w} : step'[v] = step[v]
      /\ \/ events' = events \cup {ResultEvent(w)} /\ UNCHANGED unreported
         \/ events' = events /\ unreported' = unreported \cup {o}
  BY <1>2 DEF PublishResult, Unreport, Goto, GuardInv, SafeInv, TypeOK, brokerVars, historyVars
<1>4. /\ ResultEvent(w).order = o
      /\ ResultEvent(w).type =
           IF execution[w].status = "EXECUTED" THEN "orders.executed"
                                               ELSE "orders.execution.failed"
  BY <1>2 DEF ResultEvent
<1>5. MovesAt(w, o) /\ OrderAt(w)' = o
  BY <1>2, <1>3, <1>4 DEF MovesAt, SameHandler, OrderAt, deliveryVars
<1>6. ASSUME o \notin exposed' PROVE OrderInv(o)'
  <2>1. o \in Orders \ exposed /\ OrderInv(o)
    BY <1>3, <1>6 DEF GuardInv
  <2>2. /\ store[o].status = execution[w].status
        /\ execution[w].status \in {"EXECUTED", "FAILED"}
    BY <1>2, <1>3, <2>1
       DEF OrderInv, WorkedOn, WorkOK, GuardInv, SafeInv, HandlerOK, StepOK, ResultOK
  <2>3. \A v \in Workers \ {w} : SameHandler(v) /\ OrderAt(v)' = OrderAt(v)
    BY <1>5 DEF MovesAt, SameHandler, OrderAt
  <2>4. \A v \in Workers : /\ Decides(v, o)' => Decides(v, o)
                           /\ Carries(v, o)' <=> Carries(v, o)
    BY <1>3, <2>3 DEF SameHandler, Decides, Deciding, Carries
  <2>5. OneDecides(o)' /\ PlacedAsStored(o)'
    BY <1>3, <2>1, <2>4 DEF OrderInv, OneDecides, PlacedAsStored
  <2>6. WorkedOn(o)'
    <3>1. WorkOK(w, o)'
      BY <1>3, <2>2 DEF WorkOK, Terminal
    <3> QED
      BY <1>3, <2>1, <2>3, <3>1 DEF OrderInv, WorkedOn, WorkOK, SameHandler, Terminal
  <2>7. EventsOK(o)'
    BY <1>3, <1>4, <2>1, <2>2 DEF OrderInv, EventsOK
  <2>8. AckedOK(o)'
    BY <1>3, <2>1 DEF OrderInv, AckedOK, Terminal, deliveryVars
  <2>9. ToldOK(o)'
    BY <1>3, <1>4 DEF ToldOK, Reported
  <2> QED
    BY <2>5, <2>6, <2>7, <2>8, <2>9 DEF OrderInv
<1> QED
  BY <1>1, <1>3, <1>5, <1>6, OthersKept, StutterContract

LEMMA RespondGuard ==
  ASSUME GuardInv, NEW w \in Workers, Respond(w)
  PROVE  GuardInv' /\ StepContract
<1>1. SafeInv'
  BY RespondSafe DEF GuardInv
<1>2. PICK o \in Orders : o = OrderAt(w)
  BY ExecutionAssumption DEF Respond, GuardInv, SafeInv, TypeOK, OrderAt
<1>3. /\ step[w] \in {"respond200", "respond500"} /\ step'[w] = "idle"
      /\ held[w] \in Messages
      /\ UNCHANGED <<store, placed, events, exposed, unreported>>
      /\ \A v \in Workers \ {w} : SameHandler(v)
      /\ \A m \in Messages : (sub'[m] = "acked" /\ sub[m] # "acked") =>
           m = held[w] /\ step[w] = "respond200"
  BY DEF Respond, Ack, Nack, Requeued, Release, ResetHandler, Goto, SameHandler, GuardInv,
         SafeInv, TypeOK, DeliveryTypeOK, brokerVars, historyVars
<1>4. MovesAt(w, o)
  BY <1>2, <1>3 DEF MovesAt, OrderAt
<1>5. ASSUME o \notin exposed' PROVE OrderInv(o)'
  <2>1. o \in Orders \ exposed /\ OrderInv(o)
    BY <1>3, <1>5 DEF GuardInv
  <2>2. \A v \in Workers \ {w} : SameHandler(v) /\ OrderAt(v)' = OrderAt(v)
    BY <1>3 DEF SameHandler, OrderAt
  <2>3. \A v \in Workers : /\ Decides(v, o)' => Decides(v, o)
                           /\ Carries(v, o)' <=> Carries(v, o)
    BY <1>3, <2>2 DEF SameHandler, Decides, Deciding, Carries
  <2>4. OneDecides(o)' /\ PlacedAsStored(o)'
    BY <1>3, <2>1, <2>3 DEF OrderInv, OneDecides, PlacedAsStored
  <2>5. WorkedOn(o)'
    BY <1>3, <2>1, <2>2 DEF OrderInv, WorkedOn, WorkOK, SameHandler, Terminal
  <2>6. EventsOK(o)'
    BY <1>3, <2>1 DEF OrderInv, EventsOK
  <2>7. AckedOK(o)'
    <3>1. (step[w] = "respond200" /\ held[w] \in WellFormed) => Terminal(o)
      BY <1>2, <1>3, <2>1 DEF OrderInv, WorkedOn, WorkOK
    <3> QED
      BY <1>2, <1>3, <2>1, <3>1, ExecutionAssumption
         DEF OrderInv, AckedOK, Terminal, OrderAt
  <2>8. Reporting(o) => Reporting(o)'
    BY <1>3, <2>2 DEF Reporting, SameHandler
  <2>9. ToldOK(o)'
    BY <1>3, <2>1, <2>8 DEF OrderInv, ToldOK, Terminal, Reported
  <2> QED
    BY <2>4, <2>5, <2>6, <2>7, <2>9 DEF OrderInv
<1> QED
  BY <1>1, <1>3, <1>4, <1>5, OthersKept, StutterContract

LEMMA CrashGuard ==
  ASSUME GuardInv, NEW w \in Workers, Crash(w)
  PROVE  GuardInv' /\ StepContract
<1>1. SafeInv'
  BY CrashSafe DEF GuardInv
<1>2. PICK o \in Orders : o = OrderAt(w)
  BY ExecutionAssumption DEF Crash, GuardInv, SafeInv, TypeOK, OrderAt
<1>3. /\ step[w] # "idle" /\ step'[w] = "idle"
      /\ UNCHANGED <<store, placed, events>>
      /\ \A v \in Workers \ {w} : SameHandler(v)
      /\ \A m \in Messages : sub'[m] = "acked" => sub[m] = "acked"
  BY DEF Crash, Nack, Requeued, Release, ResetHandler, Goto, SameHandler, GuardInv, SafeInv,
         TypeOK, DeliveryTypeOK, brokerVars
<1>4. /\ exposed' \in {exposed, exposed \cup {o}}
      /\ unreported' \in {unreported, unreported \cup {o}}
      /\ Carries(w, o) => o \in exposed'
      /\ step[w] = "publish" => o \in unreported'
  BY <1>2 DEF Crash, Expose, Unreport, historyVars, Carries
<1>5. MovesAt(w, o)
  BY <1>2, <1>3, <1>4 DEF MovesAt
<1>6. ASSUME o \notin exposed' PROVE OrderInv(o)'
  <2>1. o \in Orders \ exposed /\ OrderInv(o)
    BY <1>4, <1>6 DEF GuardInv
  <2>2. OneDecides(o)' /\ WorkedOn(o)' /\ EventsOK(o)' /\ AckedOK(o)'
    <3>1. ~Decides(w, o)'
      BY <1>3 DEF Decides, Deciding
    <3> QED
      BY <1>3, <1>5, <2>1, <3>1, OwnKept
  <2>3. \A v \in Workers : Carries(v, o)' <=> Carries(v, o)
    BY <1>3, <1>4, <1>6 DEF SameHandler, Carries, OrderAt
  <2>4. Reporting(o) => o \in unreported' \/ Reporting(o)'
    BY <1>3, <1>4 DEF SameHandler, Reporting, OrderAt
  <2> QED
    BY <1>3, <1>4, <2>1, <2>2, <2>3, <2>4
       DEF OrderInv, PlacedAsStored, ToldOK, Terminal, Reported
<1>7. StepContract
  BY <1>1, <1>3, <1>4, OneOrderContract DEF GuardInv, Regular
<1> QED
  BY <1>1, <1>5, <1>6, <1>7, OthersKept

(* A step that no handler takes, or that changes nothing.                  *)
LEMMA RestGuard ==
  ASSUME GuardInv, SafeInv',
         UNCHANGED <<held, step, answer, execution, store, placed, events, historyVars>>,
         \A m \in Messages : sub'[m] = "acked" => sub[m] = "acked"
  PROVE  GuardInv' /\ StepContract
<1>1. ASSUME NEW o \in Orders, OrderInv(o) PROVE OrderInv(o)'
  <2>1. OneDecides(o)' /\ PlacedAsStored(o)'
    BY <1>1 DEF OrderInv, OneDecides, PlacedAsStored, Decides, Deciding, Carries, OrderAt
  <2>2. WorkedOn(o)'
    BY <1>1 DEF OrderInv, WorkedOn, WorkOK, OrderAt, Terminal
  <2>3. EventsOK(o)' /\ ToldOK(o)'
    BY <1>1 DEF OrderInv, EventsOK, ToldOK, Terminal, Reported, Reporting, OrderAt, historyVars
  <2>4. AckedOK(o)'
    BY <1>1, ExecutionAssumption DEF OrderInv, AckedOK, Terminal
  <2> QED
    BY <2>1, <2>2, <2>3, <2>4 DEF OrderInv
<1>2. exposed' = exposed
  BY DEF historyVars
<1> QED
  BY <1>1, <1>2, StutterContract DEF GuardInv

LEMMA SubscriptionGuard ==
  ASSUME GuardInv, Subscription
  PROVE  GuardInv' /\ StepContract
<1>1. SafeInv'
  BY SubscriptionSafe DEF GuardInv
<1>2. \A m \in Messages : sub'[m] = "acked" => sub[m] = "acked"
  BY DEF Subscription, Expire, Redeliver, Requeued, GuardInv, SafeInv, TypeOK, DeliveryTypeOK
<1>3. UNCHANGED <<held, step, answer, execution, store, placed, events, historyVars>>
  BY DEF Subscription, Expire, Redeliver, handlerVars, brokerVars
<1> QED
  BY <1>1, <1>2, <1>3, RestGuard

LEMMA NextGuard ==
  ASSUME GuardInv, [Next]_vars
  PROVE  GuardInv' /\ StepContract
<1>1. CASE \E w \in Workers, m \in Messages : Receive(w, m)
  BY <1>1, ReceiveGuard
<1>2. ASSUME NEW w \in Workers, Handle(w) PROVE GuardInv' /\ StepContract
  BY <1>2, FindGuard, CreateGuard, BrokerTakesGuard, BrokerRefusesGuard,
     BrokerUnreachableGuard, RecordSuccessGuard, RecordFailureGuard, PublishGuard,
     RespondGuard DEF Handle
<1>3. ASSUME NEW w \in Workers, Crash(w) PROVE GuardInv' /\ StepContract
  BY <1>3, CrashGuard
<1>4. CASE Subscription
  BY <1>4, SubscriptionGuard
<1>5. CASE UNCHANGED vars
  <2>1. SafeInv'
    BY <1>5, StutterSafe DEF GuardInv
  <2> QED
    BY <1>5, <2>1, RestGuard DEF vars, deliveryVars, handlerVars, brokerVars
<1> QED
  BY <1>1, <1>2, <1>3, <1>4, <1>5 DEF Next

---------------------------------------------------------------------------------

(* GuardInv is an invariant, whatever the environment does.                *)
THEOREM GuardInvariant == Spec => []GuardInv
<1>1. Init => GuardInv
  BY InitGuard
<1>2. GuardInv /\ [Next]_vars => GuardInv'
  BY NextGuard
<1> QED
  BY <1>1, <1>2, PTL DEF Spec

(* The broker never holds two orders for an approved order that nothing    *)
(* has exposed, whatever fails at other orders or at other points.         *)
THEOREM OneBrokerOrder == Spec => []PlacedOnce
<1>1. GuardInv => PlacedOnce
  BY DEF GuardInv, OrderInv, PlacedAsStored, PlacedOnce
<1> QED
  BY <1>1, GuardInvariant, PTL

(* Whatever the environment does, the documents and the broker together    *)
(* implement ExecutionContract: an order that strays from its life cycle   *)
(* is one of those that were exposed.                                      *)
THEOREM ImplementsContract == Spec => ContractSpec
<1>1. Init => Contract!Init
  BY InitGuard DEF InitContract
<1>2. GuardInv /\ [Next]_vars =>
        [Contract!Next]_<<[o \in Orders |-> store[o].status], placed, exposed>>
  BY NextGuard DEF StepContract, Status
<1> QED
  BY <1>1, <1>2, GuardInvariant, PTL DEF Spec, ContractSpec, Contract!Spec

(* A result is saved before it is reported, so that no order that nothing  *)
(* has exposed is reported both as executed and as failed; and it is saved,*)
(* and reported or about to be, before its approval is acknowledged.       *)
THEOREM SavedBeforeReported == Spec => []SavedThenReported
<1>1. GuardInv => PublishedIsSaved
  <2> SUFFICES ASSUME GuardInv, NEW e \in events, e.order \notin exposed
               PROVE  store[e.order].status =
                        IF e.type = "orders.executed" THEN "EXECUTED" ELSE "FAILED"
    BY DEF PublishedIsSaved
  <2>1. e.order \in Orders \ exposed
    BY DEF GuardInv, SafeInv, TypeOK, Events
  <2> QED
    BY <2>1 DEF GuardInv, OrderInv, EventsOK
<1>2. GuardInv => AckedIsReported
  <2> SUFFICES ASSUME GuardInv, NEW m \in WellFormed, sub[m] = "acked",
                      OrderOf[m] \notin exposed
               PROVE  /\ Terminal(OrderOf[m])
                      /\ \/ OrderOf[m] \in unreported
                         \/ Reported(OrderOf[m])
                         \/ Reporting(OrderOf[m])
    BY DEF AckedIsReported
  <2>1. OrderOf[m] \in Orders \ exposed
    BY ExecutionAssumption
  <2> QED
    BY <2>1 DEF GuardInv, OrderInv, AckedOK, ToldOK
<1>3. GuardInv => SavedThenReported
  BY <1>1, <1>2 DEF SavedThenReported
<1> QED
  BY <1>3, GuardInvariant, PTL

---------------------------------------------------------------------------------
(***************************************************************************)
(* The third part.  Where no fault of five kinds happens, and one message  *)
(* at most approves an order, no order is ever exposed: the histories name *)
(* nothing but what a fault has done.                                      *)
(***************************************************************************)

Calm ==
  /\ Faults \cap {"crash", "overlap", "readError", "persistLost", "lostAnswer"} = {}
  /\ \A m, n \in WellFormed : OrderOf[m] = OrderOf[n] => m = n

\* No two handlers work on one message, and what they work on is outstanding.
HandlersApart ==
  /\ \A w \in Workers : held[w] # NoMessage => sub[held[w]] = "outstanding"
  /\ \A v, w \in Workers : held[v] # NoMessage /\ held[v] = held[w] => v = w

\* Only a payload that could be decoded goes on to the document and the broker.
Decoded ==
  \A w \in Workers : step[w] = "find" \/ Deciding(w) => held[w] \in WellFormed

CalmInv == TypeOK /\ HandlersApart /\ Decoded /\ exposed = {}

(* A handler that is done leaves the others apart.                         *)
LEMMA ApartWhenReleased ==
  ASSUME DeliveryTypeOK, HandlersApart, NEW w \in Workers, held[w] # NoMessage, Ack(w) \/ Nack(w)
  PROVE  HandlersApart'
<1>1. /\ held' = [held EXCEPT ![w] = NoMessage]
      /\ \A m \in Messages : m # held[w] => sub'[m] = sub[m]
  BY DEF Ack, Nack, Release, DeliveryTypeOK
<1> QED
  BY <1>1 DEF HandlersApart, DeliveryTypeOK

(* A step of a handler after its decoding, which keeps its message.        *)
LEMMA CalmWithin ==
  ASSUME CalmInv, TypeOK', NEW w \in Workers, NEW s, Goto(w, s), UNCHANGED deliveryVars,
         step[w] = "find" \/ Deciding(w) \/ s \notin {"find", "create", "submit", "record"},
         exposed' = exposed
  PROVE  CalmInv'
<1>1. HandlersApart'
  BY DEF CalmInv, HandlersApart, deliveryVars
<1>2. Decoded'
  BY DEF CalmInv, Decoded, Deciding, Goto, TypeOK, deliveryVars
<1> QED
  BY <1>1, <1>2 DEF CalmInv

(* Nobody else is on the way to the broker with the order, and a document  *)
(* is missing only if it is not there.                                     *)
LEMMA Uncontested ==
  ASSUME Calm, CalmInv, NEW w \in Workers, step[w] = "find", NEW found \in Found(w)
  PROVE  ~Contested(w, found)
<1>1. held[w] \in WellFormed /\ held[w] # NoMessage
  BY ExecutionAssumption, DeliveryAssumption DEF CalmInv, Decoded
<1>2. ASSUME NEW v \in Workers \ {w}, Deciding(v), OrderAt(v) = OrderAt(w) PROVE FALSE
  <2>1. held[v] \in WellFormed
    BY <1>2 DEF CalmInv, Decoded
  <2>2. held[v] = held[w]
    BY <1>1, <1>2, <2>1 DEF Calm, OrderAt
  <2> QED
    BY <1>1, <1>2, <2>2 DEF CalmInv, HandlersApart
<1>3. ASSUME found.status = "NONE", Terminal(OrderAt(w)) PROVE FALSE
  <2>1. found = DocumentToExecution(store[OrderAt(w)])
    BY DEF Found, Calm
  <2>2. store[OrderAt(w)] \in Executions
    BY <1>1, ExecutionAssumption DEF CalmInv, TypeOK, OrderAt
  <2> QED
    BY <1>3, <2>1, <2>2 DEF Terminal, DocumentToExecution, RecordBrokerSuccess,
       RecordBrokerFailure, AcceptApprovedOrder, CanRetry
<1> QED
  BY <1>2, <1>3 DEF Contested

LEMMA CalmStep ==
  ASSUME Calm, CalmInv, SafeInv', [Next]_vars
  PROVE  CalmInv'
<1>1. TypeOK'
  BY DEF SafeInv
<1>2. ASSUME NEW w \in Workers, NEW m \in Messages, Receive(w, m) PROVE CalmInv'
  <2>1. HandlersApart'
    BY <1>2 DEF CalmInv, HandlersApart, Receive, Push, Idle, TypeOK, DeliveryTypeOK
  <2>2. Decoded'
    BY <1>2 DEF CalmInv, Decoded, Deciding, Receive, Push, Idle, Goto, TypeOK, DeliveryTypeOK
  <2> QED
    BY <1>1, <1>2, <2>1, <2>2 DEF CalmInv, Receive, historyVars
<1>3. ASSUME NEW w \in Workers, FindExecution(w) PROVE CalmInv'
  <2>1. PICK found \in Found(w) :
          \/ Goto(w, "respond200") /\ UNCHANGED historyVars
          \/ Goto(w, "submit") /\ Venture(w, found)
          \/ Goto(w, "create") /\ Venture(w, found)
    BY <1>3 DEF FindExecution, historyVars
  <2>2. UNCHANGED historyVars /\ UNCHANGED deliveryVars /\ step[w] = "find"
    BY <1>3, <2>1, Uncontested DEF FindExecution, Venture
  <2> QED
    BY <1>1, <2>1, <2>2, CalmWithin DEF historyVars
<1>4. ASSUME NEW w \in Workers, NEW e, PersistExecution(w, e) PROVE exposed' = exposed
  BY <1>4 DEF PersistExecution, Calm, historyVars
<1>5. ASSUME NEW w \in Workers, CreateExecution(w) \/ RecordSuccess(w) \/ RecordFailure(w)
      PROVE  CalmInv'
  <2>1. /\ Goto(w, "submit") \/ Goto(w, "publish") \/ Goto(w, "respond500")
        /\ Deciding(w)
        /\ UNCHANGED deliveryVars
        /\ exposed' = exposed
    BY <1>5, <1>4 DEF CreateExecution, RecordSuccess, RecordFailure, Deciding
  <2> QED
    BY <1>1, <2>1, CalmWithin
<1>6. ASSUME NEW w \in Workers, BrokerTakes(w) \/ BrokerRefuses(w) \/ BrokerUnreachable(w)
      PROVE  CalmInv'
  <2>1. /\ Goto(w, "submit") \/ Goto(w, "record")
        /\ Deciding(w)
        /\ UNCHANGED deliveryVars
    BY <1>6 DEF BrokerTakes, BrokerRefuses, BrokerUnreachable, CallBroker, Deciding
  <2>2. exposed' = exposed
    BY <1>6 DEF BrokerTakes, BrokerRefuses, BrokerUnreachable, historyVars, Calm
  <2> QED
    BY <1>1, <2>1, <2>2, CalmWithin
<1>7. ASSUME NEW w \in Workers, PublishResult(w) PROVE CalmInv'
  <2>1. Goto(w, "respond200") /\ UNCHANGED deliveryVars /\ exposed' = exposed
    BY <1>7 DEF PublishResult, historyVars, Unreport
  <2> QED
    BY <1>1, <2>1, CalmWithin
<1>8. ASSUME NEW w \in Workers, Respond(w) PROVE CalmInv'
  <2>1. held[w] # NoMessage /\ (Ack(w) \/ Nack(w)) /\ Goto(w, "idle") /\ exposed' = exposed
    BY <1>8, DeliveryAssumption DEF Respond, ResetHandler, historyVars, CalmInv, TypeOK
  <2>2. held' = [held EXCEPT ![w] = NoMessage]
    BY <2>1 DEF Ack, Nack, Release
  <2>3. Decoded'
    BY <2>1, <2>2 DEF CalmInv, Decoded, Deciding, Goto, TypeOK, DeliveryTypeOK
  <2> QED
    BY <1>1, <2>1, <2>3, ApartWhenReleased DEF CalmInv, TypeOK
<1>9. ASSUME NEW w \in Workers, Crash(w) PROVE FALSE
  BY <1>9 DEF Crash, Calm
<1>10. CASE Subscription
  <2>1. PICK m \in Messages : Redeliver(m)
    BY <1>10 DEF Subscription, Expire, Calm
  <2>2. sub[m] = "acked" /\ sub' = [sub EXCEPT ![m] = "queued"] /\ UNCHANGED held
    BY <2>1 DEF Redeliver
  <2>3. HandlersApart'
    BY <2>2 DEF CalmInv, HandlersApart, TypeOK, DeliveryTypeOK
  <2> QED
    BY <1>1, <1>10, <2>2, <2>3
       DEF CalmInv, Decoded, Deciding, Subscription, handlerVars, historyVars
<1>11. CASE UNCHANGED vars
  BY <1>1, <1>11 DEF CalmInv, Decoded, Deciding, HandlersApart, vars, deliveryVars,
     handlerVars, historyVars
<1> QED
  BY <1>2, <1>3, <1>5, <1>6, <1>7, <1>8, <1>9, <1>10, <1>11 DEF Next, Handle

(* Refusals, time-outs, retries, redeliveries and lost publications alone  *)
(* never place a second order for an approval (RULE-EX-002): what          *)
(* the design asks of every order then holds of every order.               *)
THEOREM OneBrokerOrderWhenCalm ==
  ASSUME Calm
  PROVE  Spec => []AtMostOneBrokerOrder
<1>1. Init => CalmInv
  BY InitSafe DEF SafeInv, Init, DeliveryInit, CalmInv, HandlersApart, Decoded, Deciding
<1>2. CalmInv /\ SafeInv' /\ [Next]_vars => CalmInv'
  BY CalmStep
<1>3. PlacedOnce /\ CalmInv => AtMostOneBrokerOrder
  BY DEF PlacedOnce, CalmInv, AtMostOneBrokerOrder
<1> QED
  BY <1>1, <1>2, <1>3, SafeInvariant, OneBrokerOrder, PTL DEF Spec

=================================================================================
