----------------------------- MODULE ControlPlane ------------------------------
(***************************************************************************)
(* The operator's side of the pipeline: the BFF handlers that approve,     *)
(* reject and retry an order (Presentation/Handler/Orders.hs) and that     *)
(* change the runtime state and the kill switch                            *)
(* (Presentation/Handler/Operations.hs), one action per access to          *)
(* Firestore or Pub/Sub.  The BFF serves every request in a thread of its  *)
(* own, so a request is its own handler, and two of them interleave.       *)
(*                                                                         *)
(*   approve, retry      switch -> order -> write -> publish -> respond    *)
(*   reject                        order -> write -> publish -> respond    *)
(*   enable, disable             runtime -> write -> publish -> respond    *)
(*   start, stop                 runtime -> write            -> respond    *)
(*                                                                         *)
(* The documents are read and written whole, and without a precondition.   *)
(***************************************************************************)
EXTENDS Naturals, Sequences

CONSTANTS
  Requests,   \* the requests operators make, with the permission they need
  Orders,     \* order identifiers
  InitialOrders, \* the orders documents there may be, and NoOrder for none
  Faults      \* what the environment does in this run, out of FaultKinds

(***************************************************************************)
(*   overlap      a request starts while another one is being handled      *)
(*   crash        the instance dies under a request                        *)
(*   readError    a document read fails after its retries                  *)
(*   writeError   a document write fails after its retries                 *)
(*   lostAnswer   a document is written, and the answer is lost            *)
(*   publishLost  an event publication fails                               *)
(***************************************************************************)
FaultKinds ==
  {"overlap", "crash", "readError", "writeError", "lostAnswer", "publishLost"}

Statuses == {"PROPOSED", "APPROVED", "REJECTED", "EXECUTED", "FAILED"}

(* An orders document, as far as the handlers can tell: its status, and    *)
(* whether it has every field that OrderDetail requires (those that the    *)
(* portfolio planner writes have not).                                     *)
NoOrder == [status |-> "NONE", readable |-> FALSE]
Documents == [status : Statuses, readable : BOOLEAN] \cup {NoOrder}

ASSUME ControlAssumption ==
  /\ InitialOrders \subseteq Documents
  /\ Faults \subseteq FaultKinds

\* The faults after which the operator, the document and the pipeline may
\* disagree: a read or a write that fails without effect is none of them.
Mishaps == {"overlap", "crash", "lostAnswer", "publishLost"}

VARIABLES
  step,      \* step[r]: where the handler of r is
  asked,     \* asked[r]: what the operator asks for
  seen,      \* seen[r]: operations/runtime as the handler read it
  reply,     \* reply[r]: what the operator was answered
  orders,    \* orders[o]: the orders document of o
  runtime,   \* the operations/runtime document
  written,   \* written[o]: the statuses ever written to o (history)
  announced, \* announced[o]: the types of the events published about o
  switchEvents, \* the values published as operation.kill_switch.changed
  mishaps    \* what has gone wrong so far, out of Mishaps (history)

handlerVars == <<step, asked, seen, reply>>
orderVars == <<orders, written>>
eventVars == <<announced, switchEvents>>
vars == <<handlerVars, orderVars, runtime, eventVars, mishaps>>

---------------------------------------------------------------------------------
(* Requests and documents.                                                 *)

SwitchKinds == {"enable", "disable"}
RuntimeKinds == {"start", "stop"} \cup SwitchKinds

\* The order actions that the kill switch stops, and all of them.
Halting == {"approve", "retry"}
OrderKinds == Halting \cup {"reject"}

Asks == [kind : OrderKinds, order : Orders] \cup [kind : RuntimeKinds]
NoAsk == [kind |-> "none"]

Runtimes == [state : {"RUNNING", "STOPPED"}, killSwitch : BOOLEAN, version : Nat]

\* getOperationsRuntime of a missing document.
DefaultRuntime == [state |-> "STOPPED", killSwitch |-> FALSE, version |-> 0]

\* Mutant: a retry writes the status the order has already.
RetryKeepsStatus(kind) ==
  [approve |-> "APPROVED", reject |-> "REJECTED", retry |-> "FAILED"][kind]

\* The status an order action takes an order from, and to.
SourceOf(kind) == [approve |-> "PROPOSED", reject |-> "PROPOSED", retry |-> "FAILED"][kind]
TargetOf(kind) == [approve |-> "APPROVED", reject |-> "REJECTED", retry |-> "PROPOSED"][kind]

\* Mutant: a failed order can be rejected.
RejectsFailed(kind, status, killSwitch) ==
  /\ status = SourceOf(kind) \/ (kind = "reject" /\ status = "FAILED")
  /\ kind \in Halting => ~killSwitch

\* Mutant: the kill switch does not stop a retry.
RetriesAnyway(kind, status, killSwitch) ==
  /\ status = SourceOf(kind)
  /\ kind = "approve" => ~killSwitch

\* validateApprove, validateReject, validateRetry.
Valid(kind, status, killSwitch) ==
  /\ status = SourceOf(kind)
  /\ kind \in Halting => ~killSwitch

\* validateRuntimeTransition; the kill switch can be set to what it is.
ValidChange(kind, state) ==
  CASE kind = "start" -> state = "STOPPED"
    [] kind = "stop"  -> state = "RUNNING"
    [] OTHER          -> TRUE

\* Mutant: a change of the runtime state turns the kill switch off.
UpdatedForgetsSwitch(kind, d) ==
  [state |-> CASE kind = "start" -> "RUNNING" [] kind = "stop" -> "STOPPED"
               [] OTHER -> d.state,
   killSwitch |-> kind = "enable",
   version |-> d.version + 1]

\* OperationsUpdate: what was read, with the field asked for and a new version.
Updated(kind, d) ==
  [state |-> CASE kind = "start" -> "RUNNING" [] kind = "stop" -> "STOPPED"
               [] OTHER -> d.state,
   killSwitch |-> CASE kind = "enable" -> TRUE [] kind = "disable" -> FALSE
                    [] OTHER -> d.killSwitch,
   version |-> d.version + 1]

Steps ==
  {"unsent", "switch", "order", "runtime", "write", "publish", "respond", "done"}

Replies ==
  {"none", "success", "conflict", "notFound", "unavailable"}

\* Every variable has its type.
TypeOK ==
  /\ step \in [Requests -> Steps]
  /\ asked \in [Requests -> Asks \cup {NoAsk}]
  /\ \A r \in Requests : (step[r] = "unsent") = (asked[r] = NoAsk)
  /\ seen \in [Requests -> Runtimes]
  /\ reply \in [Requests -> Replies]
  /\ orders \in [Orders -> Documents]
  /\ runtime \in Runtimes
  /\ written \in [Orders -> SUBSET Statuses]
  /\ announced \in [Orders -> SUBSET {"APPROVED", "REJECTED", "PROPOSED"}]
  /\ switchEvents \in Seq(BOOLEAN)
  /\ mishaps \subseteq Faults \cap Mishaps

---------------------------------------------------------------------------------
(* The runtime is stopped, as when the document is missing, and the kill   *)
(* switch may have been set already.                                       *)
Init ==
  /\ step = [r \in Requests |-> "unsent"]
  /\ asked = [r \in Requests |-> NoAsk]
  /\ seen = [r \in Requests |-> DefaultRuntime]
  /\ reply = [r \in Requests |-> "none"]
  /\ orders \in [Orders -> InitialOrders]
  /\ \E k \in BOOLEAN : runtime = [DefaultRuntime EXCEPT !.killSwitch = k]
  /\ written = [o \in Orders |-> {}]
  /\ announced = [o \in Orders |-> {}]
  /\ switchEvents = <<>>
  /\ mishaps = {}

InFlight(r) == step[r] \notin {"unsent", "done"}

\* What the request is about.
Kind(r) == asked[r].kind
OrderAt(r) == asked[r].order

Goto(r, s) == step' = [step EXCEPT ![r] = s]

\* The handler is done, and forgets what it read.
Finish(r) ==
  /\ Goto(r, "done")
  /\ seen' = [seen EXCEPT ![r] = DefaultRuntime]

\* The request is answered.
Answer(r, a) ==
  /\ Finish(r)
  /\ reply' = [reply EXCEPT ![r] = a]

\* A fault that is switched on happens.
Mishap(fault) ==
  /\ fault \in Faults
  /\ mishaps' = mishaps \cup ({fault} \cap Mishaps)

NoMishap == UNCHANGED mishaps

---------------------------------------------------------------------------------
(* The handlers.                                                           *)

FirstStep(kind) ==
  IF kind \in Halting THEN "switch"
  ELSE IF kind = "reject" THEN "order" ELSE "runtime"

\* A request that requireAuth lets through.
Receive(r) ==
  /\ step[r] = "unsent"
  /\ IF \E q \in Requests : InFlight(q) THEN Mishap("overlap") ELSE NoMishap
  /\ \E ask \in Asks :
       /\ asked' = [asked EXCEPT ![r] = ask]
       /\ Goto(r, FirstStep(ask.kind))
  /\ UNCHANGED <<seen, reply, orderVars, runtime, eventVars>>

\* A read that fails is answered 503.
ReadFails(r) ==
  /\ step[r] \in {"switch", "order", "runtime"}
  /\ Mishap("readError")
  /\ Answer(r, "unavailable")
  /\ UNCHANGED <<asked, orderVars, runtime, eventVars>>

\* fetchKillSwitchEnabled.
ReadSwitch(r) ==
  /\ step[r] = "switch"
  /\ seen' = [seen EXCEPT ![r].killSwitch = runtime.killSwitch]
  /\ Goto(r, "order")
  /\ NoMishap
  /\ UNCHANGED <<asked, reply, orderVars, runtime, eventVars>>

\* fetchOrderOrNotFound and the validation of the transition.
ReadOrder(r) ==
  LET d == orders[OrderAt(r)]
      valid == Valid(Kind(r), d.status, seen[r].killSwitch)
  IN  /\ step[r] = "order"
      /\ \/ d.status = "NONE" /\ Answer(r, "notFound")
         \/ d.status # "NONE" /\ ~d.readable /\ Answer(r, "unavailable")
         \/ d.readable /\ ~valid /\ Answer(r, "conflict")
         \/ d.readable /\ valid /\ Goto(r, "write")
            /\ UNCHANGED <<seen, reply>>
      /\ NoMishap
      /\ UNCHANGED <<asked, orderVars, runtime, eventVars>>

\* getOperationsRuntime and, of a start or stop, validateRuntimeTransition.
ReadRuntime(r) ==
  /\ step[r] = "runtime"
  /\ IF ValidChange(Kind(r), runtime.state)
     THEN /\ seen' = [seen EXCEPT ![r] = runtime]
          /\ Goto(r, "write")
          /\ UNCHANGED reply
     ELSE Answer(r, "conflict")
  /\ NoMishap
  /\ UNCHANGED <<asked, orderVars, runtime, eventVars>>

(* updateOrderStatus, updateOperationsRuntime: a PATCH without a mask      *)
(* replaces the document, so that of an order is left with a status and    *)
(* without the fields OrderDetail requires.                                *)
Upsert(r) ==
  IF Kind(r) \in OrderKinds
  THEN LET status == TargetOf(Kind(r)) IN
       /\ orders' = [orders EXCEPT ![OrderAt(r)] = [status |-> status, readable |-> FALSE]]
       /\ written' = [written EXCEPT ![OrderAt(r)] = @ \cup {status}]
       /\ UNCHANGED runtime
  ELSE /\ runtime' = Updated(Kind(r), seen[r])
       /\ UNCHANGED orderVars

Write(r) ==
  /\ step[r] = "write"
  /\ Upsert(r)
  /\ Goto(r, IF Kind(r) \in {"start", "stop"} THEN "respond" ELSE "publish")
  /\ NoMishap
  /\ UNCHANGED <<asked, seen, reply, eventVars>>

\* Mutant: an error of the write is not looked at.
WriteErrorIgnored(r) ==
  /\ step[r] = "write"
  /\ Mishap("writeError")
  /\ Goto(r, IF Kind(r) \in {"start", "stop"} THEN "respond" ELSE "publish")
  /\ UNCHANGED <<asked, seen, reply, orderVars, runtime, eventVars>>

\* A write that fails after its retries is answered 503.
WriteFails(r) ==
  /\ step[r] = "write"
  /\ Mishap("writeError")
  /\ Answer(r, "unavailable")
  /\ UNCHANGED <<asked, orderVars, runtime, eventVars>>

\* A write whose answer is lost: upsertDocument repeats it or gives up.
WriteUnanswered(r) ==
  /\ step[r] = "write"
  /\ Mishap("lostAnswer")
  /\ Upsert(r)
  /\ \/ Answer(r, "unavailable")
     \/ UNCHANGED <<step, seen, reply>>
  /\ UNCHANGED <<asked, eventVars>>

\* The events of the handlers, whose errors are dropped.
Announce(r) ==
  IF Kind(r) \in OrderKinds
  THEN /\ announced' = [announced EXCEPT ![OrderAt(r)] = @ \cup {TargetOf(Kind(r))}]
       /\ UNCHANGED switchEvents
  ELSE /\ switchEvents' = Append(switchEvents, Kind(r) = "enable")
       /\ UNCHANGED announced

\* Mutant: only the change to an enabled kill switch is published.
PublishEnable(r) ==
  /\ step[r] = "publish"
  /\ IF Kind(r) = "disable" THEN UNCHANGED eventVars ELSE Announce(r)
  /\ Goto(r, "respond")
  /\ NoMishap
  /\ UNCHANGED <<asked, seen, reply, orderVars, runtime>>

Publish(r) ==
  /\ step[r] = "publish"
  /\ \/ Announce(r) /\ NoMishap
     \/ Mishap("publishLost") /\ UNCHANGED eventVars
  /\ Goto(r, "respond")
  /\ UNCHANGED <<asked, seen, reply, orderVars, runtime>>

Respond(r) ==
  /\ step[r] = "respond"
  /\ Answer(r, "success")
  /\ NoMishap
  /\ UNCHANGED <<asked, orderVars, runtime, eventVars>>

\* The instance dies: the request is never answered.
Crash(r) ==
  /\ InFlight(r)
  /\ Mishap("crash")
  /\ Finish(r)
  /\ UNCHANGED <<asked, reply, orderVars, runtime, eventVars>>

Next ==
  \E r \in Requests :
    \/ Receive(r)
    \/ ReadFails(r)
    \/ ReadSwitch(r)
    \/ ReadOrder(r)
    \/ ReadRuntime(r)
    \/ Write(r)
    \/ WriteFails(r)
    \/ WriteUnanswered(r)
    \/ Publish(r)
    \/ Respond(r)
    \/ Crash(r)

Spec == Init /\ [][Next]_vars

---------------------------------------------------------------------------------
(* Properties.                                                             *)

(* Once the kill switch is on and every approval and retry in flight has   *)
(* seen it on, no order is approved or proposed again, in its document or  *)
(* by an event, until the switch is off (validateApprove, validateRetry).  *)
Halted ==
  /\ runtime.killSwitch
  /\ \A r \in Requests :
       Kind(r) \in Halting /\ step[r] \in {"order", "write", "publish"} =>
         seen[r].killSwitch

KillSwitchHalts ==
  [][Halted => \A o \in Orders : \A s \in {"APPROVED", "PROPOSED"} :
       /\ orders'[o].status = s => orders[o].status = s
       /\ s \in announced'[o] => s \in announced[o]]_vars

(* An event never tells of an order status that was not saved, whatever    *)
(* write failed (the update before the publication, in every handler).     *)
AnnouncedWasWritten == \A o \in Orders : announced[o] \subseteq written[o]

(* An operator who is told of a success can rely on it: the order was      *)
(* saved as asked, and the change announced to the pipeline unless the     *)
(* publication itself failed.                                              *)
Lost == "publishLost" \in mishaps

SuccessIsDone ==
  \A r \in Requests : reply[r] = "success" =>
    /\ Kind(r) \in OrderKinds =>
         /\ TargetOf(Kind(r)) \in written[OrderAt(r)]
         /\ TargetOf(Kind(r)) \in announced[OrderAt(r)] \/ Lost
    /\ Kind(r) \in SwitchKinds =>
         Lost \/ \E i \in DOMAIN switchEvents : switchEvents[i] = (Kind(r) = "enable")

(* While operators take turns, whatever fails: an order only takes the     *)
(* transitions of the design's table, and is approved or proposed again    *)
(* only while the kill switch is off (section 3.3 of the state design).    *)
LegalTransitions ==
  {<<"PROPOSED", "APPROVED">>, <<"PROPOSED", "REJECTED">>, <<"FAILED", "PROPOSED">>}

StatusFollowsDesign ==
  [][\A o \in Orders :
       /\ "overlap" \notin mishaps
       /\ orders'[o].status # orders[o].status
       => /\ <<orders[o].status, orders'[o].status>> \in LegalTransitions
          /\ orders'[o].status # "REJECTED" => ~runtime.killSwitch]_vars

(* While operators take turns and nothing fails, the pipeline, which hears *)
(* of the kill switch by events, and the document agree at rest.           *)
SwitchAsAnnounced ==
  mishaps = {} /\ (\A r \in Requests : ~InFlight(r)) /\ switchEvents # <<>> =>
    runtime.killSwitch = switchEvents[Len(switchEvents)]

---------------------------------------------------------------------------------
(* What the code says and does not do.                                     *)

(* The runtime state and the kill switch are independent, and guarded by a *)
(* version counter: only a request to change the kill switch changes it.   *)
KillSwitchOnlyByRequest ==
  [][runtime'.killSwitch # runtime.killSwitch =>
       \E r \in Requests : step[r] = "write" /\ Kind(r) \in SwitchKinds
                             /\ runtime' = Updated(Kind(r), seen[r])]_vars

=================================================================================
