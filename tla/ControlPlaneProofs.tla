-------------------------- MODULE ControlPlaneProofs --------------------------
(***************************************************************************)
(* Theorems about ControlPlane, for any number of orders and requests and  *)
(* for every choice of faults.                                             *)
(***************************************************************************)
EXTENDS ControlPlane, TLAPS

---------------------------------------------------------------------------------
\* The step of one request.
StepOf(r) ==
  \/ Receive(r) \/ ReadFails(r) \/ ReadSwitch(r) \/ ReadOrder(r) \/ ReadRuntime(r)
  \/ Write(r) \/ WriteFails(r) \/ WriteUnanswered(r) \/ Publish(r) \/ Respond(r)
  \/ Crash(r)

(* What the pure operators return.                                         *)

(* The documents a request writes.                                         *)
LEMMA UpdatedResult ==
  ASSUME NEW kind \in RuntimeKinds, NEW d \in Runtimes
  PROVE  /\ Updated(kind, d) \in Runtimes
         /\ kind = "enable" => Updated(kind, d).killSwitch = TRUE
         /\ kind = "disable" => Updated(kind, d).killSwitch = FALSE
         /\ kind \in {"start", "stop"} => Updated(kind, d).killSwitch = d.killSwitch
<1> DEFINE state == CASE kind = "start" -> "RUNNING" [] kind = "stop" -> "STOPPED"
                      [] OTHER -> d.state
           killSwitch == CASE kind = "enable" -> TRUE [] kind = "disable" -> FALSE
                           [] OTHER -> d.killSwitch
<1>1. d.state \in {"RUNNING", "STOPPED"} /\ d.killSwitch \in BOOLEAN /\ d.version \in Nat
  BY DEF Runtimes
<1>2. state \in {"RUNNING", "STOPPED"}
  BY <1>1, Zenon
<1>3. /\ kind = "enable" => killSwitch = TRUE
      /\ kind = "disable" => killSwitch = FALSE
  BY Zenon
<1>4. kind \in {"start", "stop"} => killSwitch = d.killSwitch
  BY Zenon
<1>5. killSwitch \in BOOLEAN
  BY <1>1, <1>3, <1>4, Zenon DEF RuntimeKinds, SwitchKinds
<1>6. d.version + 1 \in Nat
  BY <1>1
<1>7. Updated(kind, d) = [state |-> state, killSwitch |-> killSwitch, version |-> d.version + 1]
  BY Zenon DEF Updated
<1> HIDE DEF state, killSwitch
<1> QED
  BY <1>2, <1>3, <1>4, <1>5, <1>6, <1>7 DEF Runtimes

(* The status an order action writes.                                      *)
LEMMA TargetResult ==
  ASSUME NEW kind \in OrderKinds
  PROVE  /\ TargetOf(kind) \in Statuses \cap {"APPROVED", "REJECTED", "PROPOSED"}
         /\ TargetOf(kind) \in {"APPROVED", "PROPOSED"} <=> kind \in Halting
         /\ <<SourceOf(kind), TargetOf(kind)>> \in LegalTransitions
  BY DEF OrderKinds, Halting, TargetOf, SourceOf, Statuses, LegalTransitions

(* A request that has arrived is about the runtime, or about an order.     *)
LEMMA AskResult ==
  ASSUME TypeOK, NEW r \in Requests, step[r] # "unsent"
  PROVE  \/ Kind(r) \in OrderKinds /\ OrderAt(r) \in Orders
         \/ Kind(r) \in RuntimeKinds
  BY DEF TypeOK, Asks, Kind, OrderAt

---------------------------------------------------------------------------------
(* Types.                                                                  *)

LEMMA InitType == ASSUME Init PROVE TypeOK
<1>1. DefaultRuntime \in Runtimes
  BY DEF DefaultRuntime, Runtimes
<1>2. runtime \in Runtimes
  BY <1>1 DEF Init, Runtimes
<1>3. \A a \in Asks : a # NoAsk
  BY DEF Asks, NoAsk, OrderKinds, Halting, RuntimeKinds, SwitchKinds
<1> QED
  BY <1>1, <1>2, <1>3, ControlAssumption DEF Init, TypeOK, Steps, Replies

\* A handler goes on, and its request stays what it is.
Moves(r) ==
  /\ step[r] # "unsent"
  /\ \E s \in Steps \ {"unsent"} : Goto(r, s)
  /\ UNCHANGED asked

\* The request parts of TypeOK.
RequestTypeOK ==
  /\ step \in [Requests -> Steps]
  /\ asked \in [Requests -> Asks \cup {NoAsk}]
  /\ \A r \in Requests : (step[r] = "unsent") = (asked[r] = NoAsk)

LEMMA MovesType ==
  ASSUME TypeOK, NEW r \in Requests, Moves(r)
  PROVE  RequestTypeOK'
  BY DEF TypeOK, Moves, Goto, RequestTypeOK

LEMMA FinishType ==
  ASSUME TypeOK, NEW r \in Requests, Finish(r), step[r] # "unsent", UNCHANGED asked
  PROVE  /\ RequestTypeOK'
         /\ seen' \in [Requests -> Runtimes]
<1>1. Moves(r)
  BY DEF Finish, Moves, Steps, Goto
<1>2. DefaultRuntime \in Runtimes
  BY DEF DefaultRuntime, Runtimes
<1> QED
  BY <1>1, <1>2, MovesType DEF Finish, TypeOK

LEMMA AnswerType ==
  ASSUME TypeOK, NEW r \in Requests, NEW a \in Replies, Answer(r, a),
         step[r] # "unsent", UNCHANGED asked
  PROVE  /\ RequestTypeOK'
         /\ seen' \in [Requests -> Runtimes]
         /\ reply' \in [Requests -> Replies]
  BY FinishType DEF Answer, TypeOK

LEMMA UpsertType ==
  ASSUME TypeOK, NEW r \in Requests, step[r] # "unsent", Upsert(r)
  PROVE  /\ orders' \in [Orders -> Documents]
         /\ runtime' \in Runtimes
         /\ written' \in [Orders -> SUBSET Statuses]
<1>1. CASE Kind(r) \in OrderKinds
  <2>1. OrderAt(r) \in Orders
    BY <1>1, AskResult DEF OrderKinds, Halting, RuntimeKinds, SwitchKinds
  <2>2. TargetOf(Kind(r)) \in Statuses
    BY <1>1, TargetResult
  <2> DEFINE d == [status |-> TargetOf(Kind(r)), readable |-> FALSE]
  <2>3. d \in Documents
    BY <2>2 DEF Documents
  <2>4. /\ orders' = [orders EXCEPT ![OrderAt(r)] = d]
        /\ written' = [written EXCEPT ![OrderAt(r)] = @ \cup {TargetOf(Kind(r))}]
        /\ runtime' = runtime
    BY <1>1 DEF Upsert
  <2> HIDE DEF d
  <2> QED
    BY <2>1, <2>2, <2>3, <2>4 DEF TypeOK
<1>2. CASE Kind(r) \notin OrderKinds
  <2>1. Kind(r) \in RuntimeKinds
    BY <1>2, AskResult
  <2>2. Updated(Kind(r), seen[r]) \in Runtimes
    BY <2>1, UpdatedResult DEF TypeOK
  <2> QED
    BY <1>2, <2>2 DEF Upsert, TypeOK, orderVars
<1> QED
  BY <1>1, <1>2

LEMMA AnnounceType ==
  ASSUME TypeOK, NEW r \in Requests, step[r] # "unsent", Announce(r)
  PROVE  /\ announced' \in [Orders -> SUBSET {"APPROVED", "REJECTED", "PROPOSED"}]
         /\ switchEvents' \in Seq(BOOLEAN)
<1>1. CASE Kind(r) \in OrderKinds
  <2>1. OrderAt(r) \in Orders
    BY <1>1, AskResult DEF OrderKinds, Halting, RuntimeKinds, SwitchKinds
  <2>2. TargetOf(Kind(r)) \in {"APPROVED", "REJECTED", "PROPOSED"}
    BY <1>1, TargetResult
  <2> QED
    BY <1>1, <2>1, <2>2 DEF Announce, TypeOK
<1>2. CASE Kind(r) \notin OrderKinds
  <2> DEFINE on == Kind(r) = "enable"
  <2>1. on \in BOOLEAN
    OBVIOUS
  <2>2. switchEvents' = Append(switchEvents, on) /\ announced' = announced
    BY <1>2 DEF Announce
  <2> HIDE DEF on
  <2> QED
    BY <2>1, <2>2 DEF TypeOK
<1> QED
  BY <1>1, <1>2

LEMMA MishapsType ==
  ASSUME TypeOK, NoMishap \/ \E f \in FaultKinds : Mishap(f)
  PROVE  mishaps' \subseteq Faults \cap Mishaps
  BY DEF TypeOK, NoMishap, Mishap

(* Every step preserves the types.                                         *)
LEMMA NextType ==
  ASSUME TypeOK, Next
  PROVE  TypeOK'
<1> USE DEF FaultKinds
<1>1. PICK r \in Requests : StepOf(r)
  BY DEF Next, StepOf
<1>2. CASE Receive(r)
  <2>1. PICK ask \in Asks : asked' = [asked EXCEPT ![r] = ask] /\ Goto(r, FirstStep(ask.kind))
    BY <1>2 DEF Receive
  <2>2. FirstStep(ask.kind) \in Steps \ {"unsent"}
    BY DEF FirstStep, Steps
  <2>3. ask # NoAsk
    BY DEF Asks, NoAsk, OrderKinds, Halting, RuntimeKinds, SwitchKinds
  <2>4. RequestTypeOK'
    BY <2>1, <2>2, <2>3 DEF Goto, TypeOK, RequestTypeOK
  <2>5. mishaps' \subseteq Faults \cap Mishaps
    BY <1>2, MishapsType DEF Receive
  <2> QED
    BY <1>2, <2>4, <2>5 DEF Receive, TypeOK, RequestTypeOK, orderVars, eventVars
<1>3. CASE ReadFails(r)
  <2>1. mishaps' \subseteq Faults \cap Mishaps
    BY <1>3, MishapsType DEF ReadFails
  <2> QED
    BY <1>3, <2>1, AnswerType DEF ReadFails, TypeOK, RequestTypeOK, orderVars, eventVars, Replies
<1>4. CASE ReadSwitch(r)
  <2>1. RequestTypeOK'
    BY <1>4, MovesType DEF ReadSwitch, Moves, Steps
  <2>2. seen' \in [Requests -> Runtimes]
    BY <1>4 DEF ReadSwitch, TypeOK, Runtimes
  <2> QED
    BY <1>4, <2>1, <2>2, MishapsType
    DEF ReadSwitch, TypeOK, RequestTypeOK, orderVars, eventVars
<1>5. CASE ReadOrder(r)
  <2>1. CASE Goto(r, "write") /\ UNCHANGED <<seen, reply>>
    <3>1. RequestTypeOK'
      BY <1>5, <2>1, MovesType DEF ReadOrder, Moves, Steps
    <3> QED
      BY <1>5, <2>1, <3>1, MishapsType
      DEF ReadOrder, TypeOK, RequestTypeOK, orderVars, eventVars
  <2>2. CASE \E a \in Replies : Answer(r, a)
    BY <1>5, <2>2, AnswerType, MishapsType
    DEF ReadOrder, TypeOK, RequestTypeOK, orderVars, eventVars
  <2> QED
    BY <1>5, <2>1, <2>2 DEF ReadOrder, Replies
<1>6. CASE ReadRuntime(r)
  <2>1. CASE Goto(r, "write") /\ seen' = [seen EXCEPT ![r] = runtime] /\ UNCHANGED reply
    <3>1. RequestTypeOK'
      BY <1>6, <2>1, MovesType DEF ReadRuntime, Moves, Steps
    <3> QED
      BY <1>6, <2>1, <3>1, MishapsType
      DEF ReadRuntime, TypeOK, RequestTypeOK, orderVars, eventVars
  <2>2. CASE Answer(r, "conflict")
    BY <1>6, <2>2, AnswerType, MishapsType
    DEF ReadRuntime, TypeOK, RequestTypeOK, orderVars, eventVars, Replies
  <2> QED
    BY <1>6, <2>1, <2>2 DEF ReadRuntime
<1>7. CASE Write(r)
  <2>1. RequestTypeOK'
    BY <1>7, MovesType DEF Write, Moves, Steps
  <2> QED
    BY <1>7, <2>1, UpsertType, MishapsType DEF Write, TypeOK, RequestTypeOK, eventVars
<1>8. CASE WriteFails(r)
  <2>1. mishaps' \subseteq Faults \cap Mishaps
    BY <1>8, MishapsType DEF WriteFails
  <2> QED
    BY <1>8, <2>1, AnswerType DEF WriteFails, TypeOK, RequestTypeOK, orderVars, eventVars, Replies
<1>9. CASE WriteUnanswered(r)
  <2>1. mishaps' \subseteq Faults \cap Mishaps
    BY <1>9, MishapsType DEF WriteUnanswered
  <2>2. RequestTypeOK' /\ seen' \in [Requests -> Runtimes] /\ reply' \in [Requests -> Replies]
    BY <1>9, AnswerType DEF WriteUnanswered, TypeOK, RequestTypeOK, Replies
  <2> QED
    BY <1>9, <2>1, <2>2, UpsertType DEF WriteUnanswered, TypeOK, RequestTypeOK, eventVars
<1>10. CASE Publish(r)
  <2>1. mishaps' \subseteq Faults \cap Mishaps
    BY <1>10, MishapsType DEF Publish
  <2>2. RequestTypeOK'
    BY <1>10, MovesType DEF Publish, Moves, Steps
  <2> QED
    BY <1>10, <2>1, <2>2, AnnounceType DEF Publish, TypeOK, RequestTypeOK, orderVars, eventVars
<1>11. CASE Respond(r)
  BY <1>11, AnswerType, MishapsType
  DEF Respond, TypeOK, RequestTypeOK, orderVars, eventVars, Replies
<1>12. CASE Crash(r)
  <2>1. mishaps' \subseteq Faults \cap Mishaps
    BY <1>12, MishapsType DEF Crash
  <2> QED
    BY <1>12, <2>1, FinishType DEF Crash, InFlight, TypeOK, RequestTypeOK, orderVars, eventVars
<1> QED
  BY <1>1, <1>2, <1>3, <1>4, <1>5, <1>6, <1>7, <1>8, <1>9, <1>10, <1>11, <1>12 DEF StepOf

LEMMA StepType == TypeOK /\ [Next]_vars => TypeOK'
<1>1. ASSUME TypeOK, UNCHANGED vars PROVE TypeOK'
  BY <1>1 DEF vars, handlerVars, orderVars, eventVars, TypeOK
<1> QED
  BY <1>1, NextType

(* Every variable keeps its type, whatever requests operators make and     *)
(* however their handlers interleave and fail.                             *)
THEOREM TypeCorrect == Spec => []TypeOK
<1>1. Init => TypeOK
  BY InitType
<1> QED
  BY <1>1, StepType, PTL DEF Spec

---------------------------------------------------------------------------------
(* What a handler knows at each step, and the histories never lose.        *)

SwitchPublished(on) == \E i \in DOMAIN switchEvents : switchEvents[i] = on

\* What a success tells the operator.
Done(r) ==
  /\ Kind(r) \in OrderKinds =>
       /\ TargetOf(Kind(r)) \in written[OrderAt(r)]
       /\ TargetOf(Kind(r)) \in announced[OrderAt(r)] \/ Lost
  /\ Kind(r) \in SwitchKinds => Lost \/ SwitchPublished(Kind(r) = "enable")

Knows(r) ==
  /\ reply[r] # "none" => step[r] = "done"
  /\ step[r] = "switch" => Kind(r) \in Halting
  /\ step[r] = "order" => Kind(r) \in OrderKinds
  /\ step[r] = "runtime" => Kind(r) \in RuntimeKinds
  /\ step[r] = "publish" => Kind(r) \in OrderKinds \cup SwitchKinds
  /\ step[r] \in {"write", "publish"} /\ Kind(r) \in Halting => ~seen[r].killSwitch
  /\ step[r] = "publish" /\ Kind(r) \in OrderKinds =>
       TargetOf(Kind(r)) \in written[OrderAt(r)]
  /\ step[r] = "respond" => Done(r)
  /\ reply[r] = "success" => Done(r)

SafeInv ==
  /\ TypeOK
  /\ AnnouncedWasWritten
  /\ \A r \in Requests : Knows(r)

\* The histories only grow.
Grows ==
  /\ \A o \in Orders : written[o] \subseteq written'[o] /\ announced[o] \subseteq announced'[o]
  /\ Lost => Lost'
  /\ \A on \in BOOLEAN : SwitchPublished(on) => SwitchPublished(on)'

\* Nothing of the request q has changed.
SameRequest(q) ==
  /\ step'[q] = step[q]
  /\ asked'[q] = asked[q]
  /\ seen'[q] = seen[q]
  /\ reply'[q] = reply[q]

LEMMA UpsertGrows ==
  ASSUME TypeOK, NEW r \in Requests, Upsert(r)
  PROVE  \A o \in Orders : written[o] \subseteq written'[o]
  BY DEF Upsert, TypeOK, orderVars

LEMMA AnnounceGrows ==
  ASSUME TypeOK, NEW r \in Requests, Announce(r)
  PROVE  /\ \A o \in Orders : announced[o] \subseteq announced'[o]
         /\ \A on \in BOOLEAN : SwitchPublished(on) => SwitchPublished(on)'
         /\ \A on \in BOOLEAN :
              Kind(r) \notin OrderKinds /\ on = (Kind(r) = "enable") => SwitchPublished(on)'
         /\ Kind(r) \in OrderKinds /\ OrderAt(r) \in Orders =>
              TargetOf(Kind(r)) \in announced'[OrderAt(r)]
<1>1. CASE Kind(r) \in OrderKinds
  BY <1>1 DEF Announce, TypeOK, SwitchPublished
<1>2. CASE Kind(r) \notin OrderKinds
  <2>1. PICK on \in BOOLEAN : on = (Kind(r) = "enable")
    OBVIOUS
  <2>2. switchEvents' = Append(switchEvents, on) /\ announced' = announced
    BY <1>2, <2>1 DEF Announce
  <2>3. switchEvents \in Seq(BOOLEAN)
    BY DEF TypeOK
  <2>4. /\ \A i \in DOMAIN switchEvents : i \in DOMAIN switchEvents' /\ switchEvents'[i] = switchEvents[i]
        /\ Len(switchEvents) + 1 \in DOMAIN switchEvents'
        /\ switchEvents'[Len(switchEvents) + 1] = on
    BY <2>1, <2>2, <2>3
  <2>5. SwitchPublished(on)'
    BY <2>4 DEF SwitchPublished
  <2> QED
    BY <1>2, <2>1, <2>2, <2>4, <2>5 DEF SwitchPublished
<1> QED
  BY <1>1, <1>2

LEMMA StepGrows ==
  ASSUME TypeOK, Next
  PROVE  Grows
<1>1. PICK r \in Requests : StepOf(r)
  BY DEF Next, StepOf
<1>2. mishaps \subseteq mishaps'
  BY <1>1 DEF StepOf, Receive, ReadFails, ReadSwitch, ReadOrder, ReadRuntime, Write, WriteFails,
              WriteUnanswered, Publish, Respond, Crash, Mishap, NoMishap
<1>3. Lost => Lost'
  BY <1>2 DEF Lost
<1>4. CASE Write(r) \/ WriteUnanswered(r)
  BY <1>3, <1>4, UpsertGrows DEF Write, WriteUnanswered, Grows, eventVars, SwitchPublished
<1>5. CASE Publish(r)
  BY <1>3, <1>5, AnnounceGrows DEF Publish, Grows, orderVars, eventVars, SwitchPublished
<1>6. CASE UNCHANGED <<orderVars, eventVars>>
  BY <1>3, <1>6 DEF Grows, orderVars, eventVars, SwitchPublished
<1> QED
  BY <1>1, <1>4, <1>5, <1>6
  DEF StepOf, Receive, ReadFails, ReadSwitch, ReadOrder, ReadRuntime, WriteFails, Respond, Crash

LEMMA DoneStable ==
  ASSUME TypeOK, Grows, NEW q \in Requests, step[q] # "unsent", asked'[q] = asked[q], Done(q)
  PROVE  Done(q)'
<1>1. Kind(q)' = Kind(q) /\ OrderAt(q)' = OrderAt(q)
  BY DEF Kind, OrderAt
<1>2. Kind(q) \in OrderKinds => OrderAt(q) \in Orders
  BY AskResult DEF OrderKinds, Halting, RuntimeKinds, SwitchKinds
<1>3. (Kind(q) = "enable") \in BOOLEAN
  OBVIOUS
<1>4. SwitchPublished(Kind(q) = "enable") => SwitchPublished(Kind(q) = "enable")'
  BY <1>1, <1>3 DEF Grows
<1> QED
  BY <1>1, <1>2, <1>4 DEF Done, Grows

LEMMA KnowsStable ==
  ASSUME TypeOK, Grows, NEW q \in Requests, SameRequest(q), Knows(q)
  PROVE  Knows(q)'
<1>1. Kind(q)' = Kind(q) /\ OrderAt(q)' = OrderAt(q)
  BY DEF Kind, OrderAt, SameRequest
<1>2. Kind(q) \in OrderKinds /\ step[q] # "unsent" => OrderAt(q) \in Orders
  BY AskResult DEF OrderKinds, Halting, RuntimeKinds, SwitchKinds
<1>3. step[q] # "unsent" /\ Done(q) => Done(q)'
  BY DoneStable DEF SameRequest
<1> QED
  BY <1>1, <1>2, <1>3 DEF Knows, Grows, SameRequest

(* A step is that of one request, and leaves the others as they are.       *)
LEMMA OthersStay ==
  ASSUME TypeOK, NEW r \in Requests, NEW q \in Requests, q # r, StepOf(r)
  PROVE  SameRequest(q)
<1> USE DEF TypeOK, SameRequest, Goto, Finish, Answer
<1>1. CASE Receive(r)
  BY <1>1 DEF Receive
<1>2. CASE ReadFails(r) \/ ReadSwitch(r)
  BY <1>2 DEF ReadFails, ReadSwitch
<1>3. CASE ReadOrder(r)
  BY <1>3 DEF ReadOrder
<1>4. CASE ReadRuntime(r)
  BY <1>4 DEF ReadRuntime
<1>5. CASE Write(r) \/ WriteFails(r)
  BY <1>5 DEF Write, WriteFails
<1>6. CASE WriteUnanswered(r)
  BY <1>6 DEF WriteUnanswered
<1>7. CASE Publish(r) \/ Respond(r) \/ Crash(r)
  BY <1>7 DEF Publish, Respond, Crash
<1> QED
  BY <1>1, <1>2, <1>3, <1>4, <1>5, <1>6, <1>7 DEF StepOf

(* A handler that ends without a success leaves nothing to know.           *)
LEMMA KnowsAtEnd ==
  ASSUME TypeOK, NEW r \in Requests, Knows(r), InFlight(r), Grows, UNCHANGED asked,
         \/ \E a \in Replies \ {"success"} : Answer(r, a)
         \/ Finish(r) /\ UNCHANGED reply
  PROVE  Knows(r)'
<1>1. step'[r] = "done" /\ reply'[r] # "success"
  BY DEF TypeOK, Answer, Finish, Goto, Replies, Knows, InFlight
<1> QED
  BY <1>1 DEF Knows

(* Every step preserves what its own handler knows.                        *)
LEMMA KnowsStep ==
  ASSUME TypeOK, NEW r \in Requests, Knows(r), Grows, TypeOK', StepOf(r)
  PROVE  Knows(r)'
<1>1. CASE Receive(r)
  <2>1. PICK ask \in Asks : asked' = [asked EXCEPT ![r] = ask] /\ Goto(r, FirstStep(ask.kind))
    BY <1>1 DEF Receive
  <2>2. Kind(r)' = ask.kind /\ step'[r] = FirstStep(ask.kind)
    BY <2>1 DEF Kind, Goto, TypeOK
  <2>3. ask.kind \in OrderKinds \cup RuntimeKinds
    BY DEF Asks
  <2>4. reply'[r] = "none"
    BY <1>1 DEF Receive, Knows
  <2> QED
    BY <2>2, <2>3, <2>4
    DEF Knows, FirstStep, OrderKinds, RuntimeKinds, Halting, SwitchKinds
<1>2. CASE ReadFails(r) \/ WriteFails(r)
  BY <1>2, KnowsAtEnd DEF ReadFails, WriteFails, InFlight, Replies
<1>3. CASE ReadSwitch(r)
  <2>1. Kind(r)' = Kind(r) /\ step'[r] = "order" /\ reply'[r] = "none"
    BY <1>3 DEF ReadSwitch, Kind, Goto, TypeOK, Knows
  <2> QED
    BY <1>3, <2>1 DEF ReadSwitch, Knows, OrderKinds
<1>4. CASE ReadOrder(r)
  <2>1. CASE /\ Goto(r, "write") /\ UNCHANGED <<seen, reply>>
             /\ Valid(Kind(r), orders[OrderAt(r)].status, seen[r].killSwitch)
    <3>1. Kind(r)' = Kind(r) /\ step'[r] = "write" /\ reply'[r] = "none"
      BY <1>4, <2>1 DEF ReadOrder, Kind, Goto, TypeOK, Knows
    <3> QED
      BY <2>1, <3>1 DEF Knows, Valid
  <2>2. CASE \E a \in Replies \ {"success"} : Answer(r, a)
    BY <1>4, <2>2, KnowsAtEnd DEF ReadOrder, InFlight
  <2> QED
    BY <1>4, <2>1, <2>2 DEF ReadOrder, Replies
<1>5. CASE ReadRuntime(r)
  <2>1. CASE Goto(r, "write") /\ UNCHANGED reply
    <3>1. Kind(r)' = Kind(r) /\ step'[r] = "write" /\ reply'[r] = "none"
      BY <1>5, <2>1 DEF ReadRuntime, Kind, Goto, TypeOK, Knows
    <3>2. Kind(r) \notin Halting
      BY <1>5 DEF ReadRuntime, Knows, RuntimeKinds, SwitchKinds, Halting
    <3> QED
      BY <3>1, <3>2 DEF Knows
  <2>2. CASE Answer(r, "conflict")
    BY <1>5, <2>2, KnowsAtEnd DEF ReadRuntime, InFlight, Replies
  <2> QED
    BY <1>5, <2>1, <2>2 DEF ReadRuntime
<1>6. CASE Write(r)
  <2>1. Kind(r)' = Kind(r) /\ OrderAt(r)' = OrderAt(r) /\ reply'[r] = "none" /\ seen' = seen
    BY <1>6 DEF Write, Kind, OrderAt, Knows
  <2>2. Kind(r) \in OrderKinds \cup RuntimeKinds
    BY <1>6, AskResult DEF Write
  <2>3. Kind(r) \in OrderKinds => TargetOf(Kind(r)) \in written'[OrderAt(r)]
    <3>1. SUFFICES ASSUME Kind(r) \in OrderKinds
                   PROVE  TargetOf(Kind(r)) \in written'[OrderAt(r)]
      OBVIOUS
    <3>2. OrderAt(r) \in Orders
      BY <1>6, <3>1, AskResult DEF Write, OrderKinds, Halting, RuntimeKinds, SwitchKinds
    <3> QED
      BY <1>6, <3>1, <3>2 DEF Write, Upsert, TypeOK
  <2>4. step'[r] = IF Kind(r) \in {"start", "stop"} THEN "respond" ELSE "publish"
    BY <1>6 DEF Write, Goto, TypeOK
  <2>5. step[r] = "write"
    BY <1>6 DEF Write
  <2> QED
    BY <2>1, <2>2, <2>3, <2>4, <2>5
    DEF Knows, Done, RuntimeKinds, OrderKinds, Halting, SwitchKinds
<1>7. CASE WriteUnanswered(r)
  <2>1. CASE Answer(r, "unavailable")
    BY <1>7, <2>1, KnowsAtEnd DEF WriteUnanswered, InFlight, Replies
  <2>2. CASE UNCHANGED <<step, seen, reply>>
    BY <1>7, <2>2, KnowsStable DEF WriteUnanswered, SameRequest
  <2> QED
    BY <1>7, <2>1, <2>2 DEF WriteUnanswered
<1>8. CASE Publish(r)
  <2>1. /\ Kind(r)' = Kind(r) /\ OrderAt(r)' = OrderAt(r) /\ reply'[r] = "none"
        /\ written' = written /\ step'[r] = "respond" /\ step[r] = "publish"
    BY <1>8 DEF Publish, Kind, OrderAt, Knows, Goto, TypeOK, orderVars
  <2>2. Kind(r) \in OrderKinds \cup SwitchKinds
    BY <2>1 DEF Knows
  <2>3. Kind(r) \in OrderKinds => OrderAt(r) \in Orders
    BY <2>1, AskResult DEF OrderKinds, Halting, RuntimeKinds, SwitchKinds
  <2>4. CASE Mishap("publishLost")
    <3>1. Lost'
      BY <2>4 DEF Lost, Mishap, Mishaps
    <3> QED
      BY <2>1, <3>1 DEF Knows, Done
  <2>5. CASE Announce(r)
    <3>1. PICK on \in BOOLEAN : on = (Kind(r) = "enable")
      OBVIOUS
    <3>2. Kind(r) \in SwitchKinds => Kind(r) \notin OrderKinds
      BY DEF OrderKinds, Halting, SwitchKinds
    <3>3. Kind(r) \in SwitchKinds => SwitchPublished(on)'
      BY <2>5, <3>1, <3>2, AnnounceGrows
    <3>4. Kind(r) \in OrderKinds => TargetOf(Kind(r)) \in announced'[OrderAt(r)]
      BY <2>3, <2>5, AnnounceGrows
    <3>5. Kind(r) \in SwitchKinds => SwitchPublished(Kind(r) = "enable")'
      BY <2>1, <3>1, <3>3
    <3> QED
      BY <2>1, <3>4, <3>5 DEF Knows, Done
  <2> QED
    BY <1>8, <2>4, <2>5 DEF Publish
<1>9. CASE Respond(r)
  <2>1. step'[r] = "done" /\ step[r] = "respond" /\ asked' = asked
    BY <1>9 DEF Respond, Answer, Finish, Goto, TypeOK
  <2>2. Done(r)'
    BY <2>1, DoneStable DEF Knows
  <2> QED
    BY <2>1, <2>2 DEF Knows
<1>10. CASE Crash(r)
  BY <1>10, KnowsAtEnd DEF Crash
<1> QED
  BY <1>1, <1>2, <1>3, <1>4, <1>5, <1>6, <1>7, <1>8, <1>9, <1>10 DEF StepOf

(* An event tells of a status that the same handler has saved before.      *)
LEMMA AnnouncedStep ==
  ASSUME SafeInv, Next, Grows
  PROVE  AnnouncedWasWritten'
<1>1. PICK r \in Requests : StepOf(r)
  BY DEF Next, StepOf
<1>2. CASE announced' = announced
  BY <1>2 DEF SafeInv, AnnouncedWasWritten, Grows
<1>3. CASE step[r] = "publish" /\ Announce(r) /\ announced' # announced
  <2>1. Kind(r) \in OrderKinds
    BY <1>3 DEF Announce
  <2>2. TargetOf(Kind(r)) \in written[OrderAt(r)]
    BY <1>3, <2>1 DEF SafeInv, Knows
  <2>3. announced' = [announced EXCEPT ![OrderAt(r)] = @ \cup {TargetOf(Kind(r))}]
    BY <1>3, <2>1 DEF Announce
  <2> QED
    BY <2>2, <2>3 DEF SafeInv, AnnouncedWasWritten, Grows, TypeOK
<1> QED
  BY <1>1, <1>2, <1>3
  DEF StepOf, Receive, ReadFails, ReadSwitch, ReadOrder, ReadRuntime, Write, WriteFails,
      WriteUnanswered, Publish, Respond, Crash, eventVars

LEMMA InitSafe == ASSUME Init PROVE SafeInv
  BY InitType DEF Init, SafeInv, AnnouncedWasWritten, Knows

LEMMA StepSafe == SafeInv /\ [Next]_vars => SafeInv'
<1>1. ASSUME SafeInv, Next PROVE SafeInv'
  <2>1. TypeOK /\ TypeOK' /\ Grows
    BY <1>1, NextType, StepGrows DEF SafeInv
  <2>2. PICK r \in Requests : StepOf(r)
    BY <1>1 DEF Next, StepOf
  <2>3. ASSUME NEW q \in Requests PROVE Knows(q)'
    <3>1. CASE q = r
      BY <1>1, <2>1, <2>2, <3>1, KnowsStep DEF SafeInv
    <3>2. CASE q # r
      BY <1>1, <2>1, <2>2, <3>2, OthersStay, KnowsStable DEF SafeInv
    <3> QED
      BY <3>1, <3>2
  <2> QED
    BY <1>1, <2>1, <2>3, AnnouncedStep DEF SafeInv
<1>2. ASSUME SafeInv, UNCHANGED vars PROVE SafeInv'
  <2>1. TypeOK' /\ AnnouncedWasWritten'
    BY <1>2, StepType
    DEF SafeInv, AnnouncedWasWritten, vars, handlerVars, orderVars, eventVars
  <2>2. Grows /\ \A q \in Requests : SameRequest(q)
    BY <1>2
    DEF Grows, SameRequest, Lost, SwitchPublished, vars, handlerVars, orderVars, eventVars
  <2> QED
    BY <1>2, <2>1, <2>2, KnowsStable DEF SafeInv
<1> QED
  BY <1>1, <1>2

LEMMA AlwaysSafe == Spec => []SafeInv
<1>1. Init => SafeInv
  BY InitSafe
<1> QED
  BY <1>1, StepSafe, PTL DEF Spec

(* An event never tells of an order status that was not saved, whatever    *)
(* write failed and whoever else wrote in between.                         *)
THEOREM EventsTellWhatWasSaved == Spec => []AnnouncedWasWritten
<1>1. SafeInv => AnnouncedWasWritten
  BY DEF SafeInv
<1> QED
  BY <1>1, AlwaysSafe, PTL

(* A success an operator is told of was saved, and announced unless the    *)
(* publication failed, whatever other requests do.                         *)
THEOREM SuccessCanBeReliedOn == Spec => []SuccessIsDone
<1>1. SafeInv => SuccessIsDone
  BY DEF SafeInv, SuccessIsDone, Knows, Done, SwitchPublished
<1> QED
  BY <1>1, AlwaysSafe, PTL

---------------------------------------------------------------------------------
(* The kill switch.                                                        *)

LEMMA HaltStep ==
  ASSUME SafeInv, Halted, Next, NEW o \in Orders, NEW s \in {"APPROVED", "PROPOSED"}
  PROVE  /\ orders'[o].status = s => orders[o].status = s
         /\ s \in announced'[o] => s \in announced[o]
<1>1. PICK r \in Requests : StepOf(r)
  BY DEF Next, StepOf
<1>2. step[r] \in {"write", "publish"} => Kind(r) \notin Halting
  BY DEF SafeInv, Knows, Halted
<1>3. CASE step[r] = "write" /\ Upsert(r) /\ UNCHANGED eventVars
  <2>1. CASE Kind(r) \in OrderKinds
    <3>1. TargetOf(Kind(r)) # s
      BY <1>2, <1>3, <2>1, TargetResult
    <3>2. orders' = [orders EXCEPT ![OrderAt(r)] =
                       [status |-> TargetOf(Kind(r)), readable |-> FALSE]]
      BY <1>3, <2>1 DEF Upsert
    <3> QED
      BY <1>3, <3>1, <3>2 DEF SafeInv, TypeOK, eventVars
  <2>2. CASE Kind(r) \notin OrderKinds
    BY <1>3, <2>2 DEF Upsert, orderVars, eventVars
  <2> QED
    BY <2>1, <2>2
<1>4. CASE step[r] = "publish" /\ Announce(r) /\ UNCHANGED orderVars
  <2>1. CASE Kind(r) \in OrderKinds
    <3>1. TargetOf(Kind(r)) # s
      BY <1>2, <1>4, <2>1, TargetResult
    <3>2. announced' = [announced EXCEPT ![OrderAt(r)] = @ \cup {TargetOf(Kind(r))}]
      BY <1>4, <2>1 DEF Announce
    <3> QED
      BY <1>4, <3>1, <3>2 DEF SafeInv, TypeOK, orderVars
  <2>2. CASE Kind(r) \notin OrderKinds
    BY <1>4, <2>2 DEF Announce, orderVars
  <2> QED
    BY <2>1, <2>2
<1>5. CASE UNCHANGED <<orderVars, eventVars>>
  BY <1>5 DEF orderVars, eventVars
<1> QED
  BY <1>1, <1>3, <1>4, <1>5
  DEF StepOf, Receive, ReadFails, ReadSwitch, ReadOrder, ReadRuntime, Write, WriteFails,
      WriteUnanswered, Publish, Respond, Crash

(* With the kill switch on and seen by every approval and retry in flight, *)
(* no order is approved or proposed again by any step.                     *)
THEOREM KillSwitchHolds == Spec => KillSwitchHalts
<1>1. SafeInv /\ [Next]_vars =>
        [Halted => \A o \in Orders : \A s \in {"APPROVED", "PROPOSED"} :
           /\ orders'[o].status = s => orders[o].status = s
           /\ s \in announced'[o] => s \in announced[o]]_vars
  BY HaltStep
<1> QED
  BY <1>1, AlwaysSafe, PTL DEF Spec, KillSwitchHalts

---------------------------------------------------------------------------------
(* While operators take turns.                                             *)

TakeTurns == "overlap" \notin mishaps

\* At most one request is being handled.
Alone == \A p, q \in Requests : InFlight(p) /\ InFlight(q) => p = q

\* What the only handler has read is still so.
StillSo(r) ==
  /\ step[r] = "order" /\ Kind(r) \in Halting => seen[r].killSwitch = runtime.killSwitch
  /\ step[r] = "write" /\ Kind(r) \in OrderKinds =>
       orders[OrderAt(r)].status \in {SourceOf(Kind(r)), TargetOf(Kind(r))}
  /\ step[r] = "write" /\ Kind(r) \in Halting => ~runtime.killSwitch

\* A handler that has changed the kill switch, and not yet published it.
Unannounced(r) == step[r] = "publish" /\ Kind(r) \in SwitchKinds

\* The kill switch, its last event and the handler between the two.
SwitchInStep ==
  /\ \A r \in Requests : step[r] = "write" /\ Kind(r) \in RuntimeKinds =>
       seen[r].killSwitch = runtime.killSwitch
  /\ \A r \in Requests : Unannounced(r) => runtime.killSwitch = (Kind(r) = "enable")
  /\ (\A r \in Requests : ~Unannounced(r)) /\ switchEvents # <<>> =>
       runtime.killSwitch = switchEvents[Len(switchEvents)]

TurnInv ==
  /\ SafeInv
  /\ TakeTurns => Alone /\ \A r \in Requests : StillSo(r)
  /\ mishaps = {} => SwitchInStep

(* While operators take turns, a step leaves nobody else at work.          *)
LEMMA AloneStep ==
  ASSUME SafeInv, TakeTurns => Alone, NEW r \in Requests, StepOf(r), TakeTurns'
  PROVE  /\ TakeTurns
         /\ \A q \in Requests : q # r => ~InFlight(q) /\ ~InFlight(q)'
<1>1. mishaps \subseteq mishaps'
  BY DEF StepOf, Receive, ReadFails, ReadSwitch, ReadOrder, ReadRuntime, Write, WriteFails,
         WriteUnanswered, Publish, Respond, Crash, Mishap, NoMishap
<1>2. TakeTurns
  BY <1>1 DEF TakeTurns
<1>3. ASSUME NEW q \in Requests, q # r PROVE InFlight(q)' <=> InFlight(q)
  BY <1>3, OthersStay DEF SafeInv, StepOf, SameRequest, InFlight
<1>4. CASE Receive(r)
  BY <1>2, <1>3, <1>4 DEF Receive, Mishap, Mishaps, TakeTurns
<1>5. CASE ~Receive(r)
  <2>1. InFlight(r)
    BY <1>5 DEF StepOf, ReadFails, ReadSwitch, ReadOrder, ReadRuntime, Write, WriteFails,
                WriteUnanswered, Publish, Respond, Crash, InFlight
  <2> QED
    BY <1>2, <1>3, <2>1 DEF Alone
<1> QED
  BY <1>2, <1>3, <1>4, <1>5

(* The step of the only handler keeps what it has read true.               *)
LEMMA StillSoStep ==
  ASSUME SafeInv, NEW r \in Requests, StepOf(r), StillSo(r), TypeOK'
  PROVE  StillSo(r)'
<1> USE DEF SafeInv
<1>1. CASE Receive(r)
  <2>1. step'[r] \in {"switch", "order", "runtime"}
    BY <1>1 DEF Receive, Goto, FirstStep, TypeOK
  <2>2. PICK ask \in Asks : asked' = [asked EXCEPT ![r] = ask] /\ Goto(r, FirstStep(ask.kind))
    BY <1>1 DEF Receive
  <2>3. Kind(r)' = ask.kind /\ step'[r] = FirstStep(ask.kind)
    BY <2>2 DEF Kind, Goto, TypeOK
  <2> QED
    BY <2>1, <2>3 DEF StillSo, FirstStep
<1>2. CASE step'[r] = "done"
  BY <1>2 DEF StillSo
<1>3. CASE ReadSwitch(r)
  <2>1. Kind(r)' = Kind(r) /\ step'[r] = "order" /\ runtime' = runtime
    BY <1>3 DEF ReadSwitch, Goto, Kind, TypeOK
  <2>2. seen'[r].killSwitch = runtime.killSwitch
    BY <1>3 DEF ReadSwitch, TypeOK, Runtimes
  <2> QED
    BY <2>1, <2>2 DEF StillSo
<1>4. CASE /\ ReadOrder(r) /\ Goto(r, "write") /\ UNCHANGED seen
           /\ Valid(Kind(r), orders[OrderAt(r)].status, seen[r].killSwitch)
  <2>1. /\ Kind(r)' = Kind(r) /\ OrderAt(r)' = OrderAt(r) /\ step'[r] = "write"
        /\ runtime' = runtime /\ orders' = orders /\ step[r] = "order"
    BY <1>4 DEF ReadOrder, Goto, Kind, OrderAt, TypeOK, orderVars
  <2>2. Kind(r) \in OrderKinds /\ Kind(r) \notin RuntimeKinds
    BY <2>1 DEF Knows, OrderKinds, Halting, RuntimeKinds, SwitchKinds
  <2> QED
    BY <1>4, <2>1, <2>2 DEF StillSo, Valid
<1>5. CASE ReadRuntime(r) /\ Goto(r, "write")
  <2>1. Kind(r)' = Kind(r) /\ step'[r] = "write" /\ step[r] = "runtime"
    BY <1>5 DEF ReadRuntime, Goto, Kind, TypeOK
  <2>2. Kind(r) \notin OrderKinds /\ Kind(r) \notin Halting
    BY <2>1 DEF Knows, OrderKinds, Halting, RuntimeKinds, SwitchKinds
  <2> QED
    BY <2>1, <2>2 DEF StillSo
<1>6. CASE step'[r] \in {"publish", "respond"}
  BY <1>6 DEF StillSo
<1>7. CASE WriteUnanswered(r) /\ UNCHANGED <<step, seen>>
  <2>1. Kind(r)' = Kind(r) /\ OrderAt(r)' = OrderAt(r) /\ step[r] = "write" /\ Upsert(r)
    BY <1>7 DEF WriteUnanswered, Kind, OrderAt
  <2>2. CASE Kind(r) \in OrderKinds
    <3>1. OrderAt(r) \in Orders /\ Kind(r) \notin RuntimeKinds
      BY <2>1, <2>2, AskResult DEF OrderKinds, Halting, RuntimeKinds, SwitchKinds
    <3>2. orders'[OrderAt(r)].status = TargetOf(Kind(r)) /\ runtime' = runtime
      BY <2>1, <2>2, <3>1 DEF Upsert, TypeOK
    <3> QED
      BY <1>7, <2>1, <3>1, <3>2 DEF StillSo
  <2>3. CASE Kind(r) \notin OrderKinds
    BY <1>7, <2>1, <2>3 DEF StillSo, OrderKinds
  <2> QED
    BY <2>2, <2>3
<1>8. CASE Answer(r, "unavailable") \/ Answer(r, "notFound") \/ Answer(r, "conflict")
           \/ Answer(r, "success") \/ Finish(r)
  <2>1. step'[r] = "done"
    BY <1>8 DEF Answer, Finish, Goto, TypeOK
  <2> QED
    BY <1>2, <2>1
<1>9. CASE Write(r)
  BY <1>6, <1>9 DEF Write, Goto, TypeOK
<1>10. CASE Publish(r)
  BY <1>6, <1>10 DEF Publish, Goto, TypeOK
<1> QED
  <2>1. CASE ReadFails(r) \/ WriteFails(r) \/ Respond(r) \/ Crash(r)
    BY <1>8, <2>1 DEF ReadFails, WriteFails, Respond, Crash
  <2>2. CASE ReadOrder(r)
    BY <1>4, <1>8, <2>2 DEF ReadOrder
  <2>3. CASE ReadRuntime(r)
    BY <1>5, <1>8, <2>3 DEF ReadRuntime
  <2>4. CASE WriteUnanswered(r)
    BY <1>7, <1>8, <2>4 DEF WriteUnanswered
  <2> QED
    BY <1>1, <1>3, <1>9, <1>10, <2>1, <2>2, <2>3, <2>4 DEF StepOf

\* The part of SwitchInStep that is about the handler of r.
InStep(r) ==
  /\ step[r] = "write" /\ Kind(r) \in RuntimeKinds => seen[r].killSwitch = runtime.killSwitch
  /\ Unannounced(r) => runtime.killSwitch = (Kind(r) = "enable")
  /\ ~Unannounced(r) /\ switchEvents # <<>> =>
       runtime.killSwitch = switchEvents[Len(switchEvents)]

(* When nobody else is at work, that part is all.                          *)
LEMMA OnlyOneInStep ==
  ASSUME NEW r \in Requests, \A q \in Requests : q # r => ~InFlight(q)
  PROVE  SwitchInStep <=> InStep(r)
  BY DEF SwitchInStep, InStep, InFlight, Unannounced

LEMMA OnlyOneInStepNext ==
  ASSUME NEW r \in Requests, \A q \in Requests : q # r => ~InFlight(q)'
  PROVE  SwitchInStep' <=> InStep(r)'
  BY DEF SwitchInStep, InStep, InFlight, Unannounced

(* The step of the only handler keeps the kill switch and its events in    *)
(* step.                                                                   *)
LEMMA InStepStep ==
  ASSUME SafeInv, NEW r \in Requests, StepOf(r), InStep(r), mishaps' = {}
  PROVE  InStep(r)'
<1> USE DEF SafeInv
<1>1. CASE step'[r] \notin {"write", "publish"} /\ step[r] # "publish"
           /\ UNCHANGED <<runtime, switchEvents>>
  BY <1>1 DEF InStep, Unannounced
<1>2. CASE Receive(r)
  <2>1. step'[r] \in {"switch", "order", "runtime"} /\ step[r] = "unsent"
    BY <1>2 DEF Receive, Goto, FirstStep, TypeOK
  <2> QED
    BY <1>1, <1>2, <2>1 DEF Receive, eventVars
<1>3. CASE /\ step[r] \in {"switch", "order", "runtime", "write", "respond"}
           /\ Finish(r) /\ UNCHANGED <<runtime, switchEvents>>
  <2>1. step'[r] = "done"
    BY <1>3 DEF Finish, Goto, TypeOK
  <2> QED
    BY <1>1, <1>3, <2>1
<1>4. CASE ReadSwitch(r)
  <2>1. step'[r] = "order"
    BY <1>4 DEF ReadSwitch, Goto, TypeOK
  <2> QED
    BY <1>1, <1>4, <2>1 DEF ReadSwitch, eventVars
<1>5. CASE ReadOrder(r) /\ Goto(r, "write")
  <2>1. /\ Kind(r)' = Kind(r) /\ step'[r] = "write" /\ step[r] = "order"
        /\ runtime' = runtime /\ switchEvents' = switchEvents
    BY <1>5 DEF ReadOrder, Goto, Kind, TypeOK, eventVars
  <2>2. Kind(r) \notin RuntimeKinds
    BY <2>1 DEF Knows, OrderKinds, Halting, RuntimeKinds, SwitchKinds
  <2> QED
    BY <2>1, <2>2 DEF InStep, Unannounced
<1>6. CASE ReadRuntime(r) /\ Goto(r, "write") /\ seen' = [seen EXCEPT ![r] = runtime]
  <2>1. /\ Kind(r)' = Kind(r) /\ step'[r] = "write" /\ step[r] = "runtime"
        /\ runtime' = runtime /\ switchEvents' = switchEvents /\ seen'[r] = runtime
    BY <1>6 DEF ReadRuntime, Goto, Kind, TypeOK, eventVars
  <2> QED
    BY <2>1 DEF InStep, Unannounced
<1>7. CASE Write(r)
  <2>1. /\ Kind(r)' = Kind(r) /\ step[r] = "write" /\ switchEvents' = switchEvents
        /\ step'[r] = IF Kind(r) \in {"start", "stop"} THEN "respond" ELSE "publish"
    BY <1>7 DEF Write, Goto, Kind, TypeOK, eventVars
  <2>2. CASE Kind(r) \in OrderKinds
    <3>1. runtime' = runtime /\ Kind(r) \notin SwitchKinds /\ Kind(r) \notin {"start", "stop"}
      BY <1>7, <2>2 DEF Write, Upsert, OrderKinds, Halting, SwitchKinds
    <3> QED
      BY <2>1, <3>1 DEF InStep, Unannounced
  <2>3. CASE Kind(r) \notin OrderKinds
    <3>1. Kind(r) \in RuntimeKinds
      BY <1>7, <2>3, AskResult DEF Write
    <3>2. runtime' = Updated(Kind(r), seen[r]) /\ seen[r] \in Runtimes
      BY <1>7, <2>3 DEF Write, Upsert, TypeOK
    <3>3. CASE Kind(r) \in {"start", "stop"}
      <4>1. runtime'.killSwitch = runtime.killSwitch
        BY <2>1, <3>1, <3>2, <3>3, UpdatedResult DEF InStep
      <4> QED
        BY <2>1, <3>3, <4>1 DEF InStep, Unannounced
    <3>4. CASE Kind(r) \in SwitchKinds
      <4>1. runtime'.killSwitch = (Kind(r) = "enable")
        BY <3>1, <3>2, <3>4, UpdatedResult DEF SwitchKinds
      <4>2. step'[r] = "publish"
        BY <2>1, <3>4 DEF SwitchKinds
      <4> QED
        BY <2>1, <3>4, <4>1, <4>2 DEF InStep, Unannounced
    <3> QED
      BY <3>1, <3>3, <3>4 DEF RuntimeKinds
  <2> QED
    BY <2>2, <2>3
<1>8. CASE Publish(r)
  <2>1. ~Mishap("publishLost")
    BY DEF Mishap, Mishaps
  <2>2. /\ Kind(r)' = Kind(r) /\ step[r] = "publish" /\ step'[r] = "respond"
        /\ runtime' = runtime /\ Announce(r)
    BY <1>8, <2>1 DEF Publish, Goto, Kind, TypeOK
  <2>3. CASE Kind(r) \in OrderKinds
    BY <2>2, <2>3
    DEF Announce, InStep, Unannounced, OrderKinds, Halting, SwitchKinds
  <2>4. CASE Kind(r) \notin OrderKinds
    <3>1. Unannounced(r)
      BY <2>2, <2>4 DEF Knows, Unannounced
    <3>2. PICK on \in BOOLEAN : on = (Kind(r) = "enable")
      OBVIOUS
    <3>3. switchEvents' = Append(switchEvents, on) /\ switchEvents \in Seq(BOOLEAN)
      BY <2>2, <2>4, <3>2 DEF Announce, TypeOK
    <3>4. switchEvents'[Len(switchEvents')] = on
      BY <3>2, <3>3
    <3>5. runtime'.killSwitch = on
      BY <2>2, <3>1, <3>2 DEF InStep
    <3> QED
      BY <2>2, <3>4, <3>5 DEF InStep, Unannounced
  <2> QED
    BY <2>3, <2>4
<1> QED
  <2>1. CASE ReadFails(r) \/ WriteFails(r) \/ Respond(r)
    BY <1>3, <2>1 DEF ReadFails, WriteFails, Respond, Answer, eventVars
  <2>2. CASE ReadOrder(r)
    BY <1>3, <1>5, <2>2 DEF ReadOrder, Answer, eventVars
  <2>3. CASE ReadRuntime(r)
    BY <1>3, <1>6, <2>3 DEF ReadRuntime, Answer, eventVars
  <2>4. ~WriteUnanswered(r) /\ ~Crash(r)
    BY DEF WriteUnanswered, Crash, Mishap, Mishaps
  <2> QED
    BY <1>2, <1>4, <1>7, <1>8, <2>1, <2>2, <2>3, <2>4 DEF StepOf

LEMMA TurnStep == TurnInv /\ [Next]_vars => TurnInv'
<1>1. ASSUME TurnInv, Next PROVE TurnInv'
  <2>1. PICK r \in Requests : StepOf(r)
    BY <1>1 DEF Next, StepOf
  <2>2. SafeInv /\ SafeInv' /\ TypeOK'
    BY <1>1, StepSafe DEF TurnInv, SafeInv
  <2>3. mishaps \subseteq mishaps'
    BY <2>1 DEF StepOf, Receive, ReadFails, ReadSwitch, ReadOrder, ReadRuntime, Write,
                WriteFails, WriteUnanswered, Publish, Respond, Crash, Mishap, NoMishap
  <2>4. ASSUME TakeTurns' PROVE Alone' /\ \A q \in Requests : StillSo(q)'
    <3>1. TakeTurns /\ \A q \in Requests : q # r => ~InFlight(q) /\ ~InFlight(q)'
      BY <1>1, <2>1, <2>4, AloneStep DEF TurnInv
    <3>2. StillSo(r)'
      BY <1>1, <2>1, <2>2, <3>1, StillSoStep DEF TurnInv
    <3> QED
      BY <3>1, <3>2 DEF Alone, StillSo, InFlight
  <2>5. ASSUME mishaps' = {} PROVE SwitchInStep'
    <3>1. mishaps = {} /\ TakeTurns'
      BY <2>3, <2>5 DEF TakeTurns
    <3>2. \A q \in Requests : q # r => ~InFlight(q) /\ ~InFlight(q)'
      BY <1>1, <2>1, <3>1, AloneStep DEF TurnInv
    <3>3. InStep(r)
      BY <1>1, <3>1, <3>2, OnlyOneInStep DEF TurnInv
    <3>4. InStep(r)'
      BY <2>1, <2>2, <2>5, <3>3, InStepStep
    <3> QED
      BY <3>2, <3>4, OnlyOneInStepNext
  <2> QED
    BY <2>2, <2>4, <2>5 DEF TurnInv
<1>2. ASSUME TurnInv, UNCHANGED vars PROVE TurnInv'
  <2>1. SafeInv'
    BY <1>2, StepSafe DEF TurnInv
  <2>2. UNCHANGED <<step, asked, seen, orders, runtime, switchEvents, mishaps>>
    BY <1>2 DEF vars, handlerVars, orderVars, eventVars
  <2> QED
    BY <1>2, <2>1, <2>2
    DEF TurnInv, TakeTurns, Alone, InFlight, StillSo, SwitchInStep, Unannounced, Kind, OrderAt
<1> QED
  BY <1>1, <1>2

LEMMA AlwaysTurns == Spec => []TurnInv
<1>1. Init => TurnInv
  BY InitSafe
  DEF Init, TurnInv, Alone, InFlight, StillSo, SwitchInStep, Unannounced
<1> QED
  BY <1>1, TurnStep, PTL DEF Spec

(* While operators take turns and nothing fails, the kill switch is at     *)
(* rest what the last event said of it.                                    *)
THEOREM PipelineHearsTheSwitch == Spec => []SwitchAsAnnounced
<1>1. TurnInv => SwitchAsAnnounced
  BY DEF TurnInv, SwitchAsAnnounced, SwitchInStep, Unannounced, InFlight
<1> QED
  BY <1>1, AlwaysTurns, PTL

(* While operators take turns, whatever fails, an order only takes the     *)
(* transitions of the design's table, and none that the kill switch stops. *)
LEMMA DesignStep ==
  ASSUME TurnInv, Next, TakeTurns, NEW o \in Orders, orders'[o].status # orders[o].status
  PROVE  /\ <<orders[o].status, orders'[o].status>> \in LegalTransitions
         /\ orders'[o].status # "REJECTED" => ~runtime.killSwitch
<1>1. PICK r \in Requests : StepOf(r)
  BY DEF Next, StepOf
<1>2. step[r] = "write" /\ Upsert(r)
  BY <1>1 DEF StepOf, Receive, ReadFails, ReadSwitch, ReadOrder, ReadRuntime, Write,
              WriteFails, WriteUnanswered, Publish, Respond, Crash, orderVars
<1>3. Kind(r) \in OrderKinds
  BY <1>2 DEF Upsert, orderVars
<1>4. orders' = [orders EXCEPT ![OrderAt(r)] =
                   [status |-> TargetOf(Kind(r)), readable |-> FALSE]]
  BY <1>2, <1>3 DEF Upsert
<1>5. o = OrderAt(r) /\ orders'[o].status = TargetOf(Kind(r))
  BY <1>4 DEF TurnInv, SafeInv, TypeOK
<1>6. StillSo(r)
  BY DEF TurnInv
<1>7. orders[o].status = SourceOf(Kind(r))
  BY <1>2, <1>3, <1>5, <1>6 DEF StillSo
<1>8. TargetOf(Kind(r)) # "REJECTED" => Kind(r) \in Halting
  BY <1>3, TargetResult
<1> QED
  BY <1>2, <1>3, <1>5, <1>6, <1>7, <1>8, TargetResult DEF StillSo

(* The transitions of an order are those of the design's table.            *)
THEOREM DesignIsFollowed == Spec => StatusFollowsDesign
<1>1. TurnInv /\ [Next]_vars =>
        [\A o \in Orders :
           /\ "overlap" \notin mishaps
           /\ orders'[o].status # orders[o].status
           => /\ <<orders[o].status, orders'[o].status>> \in LegalTransitions
              /\ orders'[o].status # "REJECTED" => ~runtime.killSwitch]_vars
  BY DesignStep DEF TakeTurns
<1> QED
  BY <1>1, AlwaysTurns, PTL DEF Spec, StatusFollowsDesign

=================================================================================
