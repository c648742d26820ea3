-------------------------- MODULE RiskAssessmentProofs --------------------------
(***************************************************************************)
(* Theorems about RiskAssessment, for any number of messages, commands,    *)
(* orders, handlers and deliveries and any faults; the last one says that  *)
(* it implements RiskContract.                                             *)
(***************************************************************************)
EXTENDS RiskAssessment, TLAPS

---------------------------------------------------------------------------------
(* The first inductive invariant: what a handler works on at each step,    *)
(* and what the operator has been told.                                    *)

\* What holds of the handler w at each of its steps.
FlowOK(w) ==
  /\ step[w] \in {"load", "assess", "persist", "publish"} => request[w] \in OrderRequests
  /\ step[w] = "sync" => request[w] \in KillSwitchMessages
  /\ step[w] \in {"idle", "respondInvalid"} <=> request[w] \notin WellFormed
  /\ step[w] \in {"persist", "publish"} =>
       /\ assessment[w].status \in Decisions
       /\ settings[w].killSwitch => assessment[w].status = "REJECTED"
  /\ step[w] \in {"key", "assess", "persist", "publish"} /\ request[w] \in Commands
       /\ asked[request[w]] = "reject" => settings[w].killSwitch

\* The command that a handler works on has been made.
CommandMade(w) ==
  request[w] \in Commands => reply[request[w]] # "unsent" /\ asked[request[w]] # "none"

OperatorOK ==
  /\ \A c \in Commands : reply[c] = "unsent" => asked[c] = "none"
  /\ \A w \in Workers : CommandMade(w)

FlowInv == TypeOK /\ OperatorOK /\ \A w \in Workers : FlowOK(w)

---------------------------------------------------------------------------------
(* The subscription keeps its types.                                       *)

LEMMA PushType ==
  ASSUME DeliveryTypeOK, NEW w \in Workers, NEW m \in Messages, Push(w, m)
  PROVE  /\ DeliveryTypeOK'
         /\ held' = [held EXCEPT ![w] = m]
  BY DeliveryAssumption DEF DeliveryTypeOK, Push

LEMMA AnswerType ==
  ASSUME DeliveryTypeOK, NEW w \in Workers, held[w] \in Messages, Ack(w) \/ Nack(w)
  PROVE  /\ DeliveryTypeOK'
         /\ held' = [held EXCEPT ![w] = NoMessage]
<1>1. /\ sub'[held[w]] \in {sub[held[w]], "acked", Requeued(held[w])}
      /\ sub' = [sub EXCEPT ![held[w]] = sub'[held[w]]]
      /\ UNCHANGED deliveries
  BY DEF Ack, Nack, Release, DeliveryTypeOK
<1>2. Requeued(held[w]) = "queued" => deliveries[held[w]] < MaxDeliveries
  BY DEF Requeued
<1>3. Requeued(held[w]) \in {"queued", "dead"}
  BY DEF Requeued
<1>4. /\ held' = [held EXCEPT ![w] = NoMessage]
      /\ lease' = [lease EXCEPT ![w] = 0]
  BY DEF Ack, Nack, Release
<1> QED
  BY <1>1, <1>2, <1>3, <1>4, DeliveryAssumption DEF DeliveryTypeOK

LEMMA SubscriptionType ==
  ASSUME DeliveryTypeOK, NEW m \in Messages, Expire(m) \/ Redeliver(m)
  PROVE  DeliveryTypeOK' /\ held' = held
  BY DEF DeliveryTypeOK, Expire, Redeliver, Requeued

---------------------------------------------------------------------------------
(* The screening policy.                                                   *)

(* An order is approved only under an open switch, with room in the limits *)
(* and no rule against it.                                                 *)
LEMMA ScreenResult ==
  ASSUME NEW s \in Settings
  PROVE  /\ Screen(s) \in Documents
         /\ Screen(s).status \in Decisions
         /\ Screen(s).status = "APPROVED" =>
              ~s.killSwitch /\ s.limits /\ s.barred = NoReason
  BY DEF Screen, Settings, Documents, Rejected, Approved, Decisions, ReasonCodes

(* A handler screens by what it loaded, or by the zero limits of the       *)
(* placeholder, which reject every order.                                  *)
LEMMA ScreenedByResult ==
  ASSUME TypeOK, NEW w \in Workers, NEW s \in ScreenedBy(w)
  PROVE  /\ s \in Settings
         /\ s = settings[w] \/ ~s.limits
<1>1. PlaceholderSettings \in Settings /\ ~PlaceholderSettings.limits
  BY DEF PlaceholderSettings, Settings
<1> QED
  BY <1>1 DEF ScreenedBy, TypeOK

---------------------------------------------------------------------------------
(* A step of one handler leaves the others as they are.                    *)

SameHandler(v) ==
  /\ step'[v] = step[v]
  /\ request'[v] = request[v]
  /\ settings'[v] = settings[v]
  /\ assessment'[v] = assessment[v]

\* What the operator asked for stays, once it was asked for.
AskedStays ==
  \A c \in Commands : reply[c] # "unsent" => reply'[c] # "unsent" /\ asked'[c] = asked[c]

LEMMA FlowStable ==
  ASSUME NEW v \in Workers, SameHandler(v), AskedStays, FlowOK(v), CommandMade(v)
  PROVE  FlowOK(v)' /\ CommandMade(v)'
  BY DEF FlowOK, CommandMade, SameHandler, AskedStays

\* A step of the handler w leaves the handlers of the others alone.
OnlyHandler(w) == \A v \in Workers : v # w => SameHandler(v)

LEMMA GotoOnly ==
  ASSUME TypeOK, NEW w \in Workers, NEW s, Goto(w, s), UNCHANGED request,
         \A v \in Workers : v # w => settings'[v] = settings[v] /\ assessment'[v] = assessment[v]
  PROVE  OnlyHandler(w) /\ step' = [step EXCEPT ![w] = s]
  BY DEF TypeOK, Goto, OnlyHandler, SameHandler

(* What FlowInv asks of a step of the handler w.                           *)
LEMMA FlowByHandler ==
  ASSUME FlowInv, TypeOK', NEW w \in Workers, OnlyHandler(w), AskedStays,
         \A c \in Commands : reply'[c] = "unsent" => asked'[c] = "none",
         FlowOK(w)', CommandMade(w)'
  PROVE  FlowInv'
  BY FlowStable DEF FlowInv, OperatorOK, OnlyHandler

\* The histories have their types.
HistoryOK == unguarded \subseteq Assessments /\ untold \subseteq Assessments
               /\ unscreened \subseteq Assessments

LEMMA OrderIdentifier ==
  ASSUME NEW w \in Workers, request[w] \in OrderRequests
  PROVE  Identifier(w) \in Assessments
  BY RiskAssumption DEF Identifier

LEMMA HistoryType ==
  ASSUME TypeOK, NEW w \in Workers,
         UNCHANGED historyVars \/ (request[w] \in OrderRequests /\ Unguard(w))
  PROVE  HistoryOK'
  BY OrderIdentifier DEF TypeOK, HistoryOK, historyVars, Unguard

---------------------------------------------------------------------------------
(* Each action preserves the invariant.                                    *)

LEMMA InitFlow == ASSUME Init PROVE FlowInv
<1>1. DeliveryTypeOK
  BY DeliveryAssumption DEF Init, DeliveryInit, DeliveryTypeOK
<1>2. NoSettings \in Settings /\ NoAssessment \in Documents
  BY DEF Settings, NoSettings, Documents, NoAssessment
<1>3. published \in [Assessments -> [Decisions -> Nat]]
  BY DEF Init
<1>4. TypeOK
  BY <1>1, <1>2, <1>3, RiskAssumption DEF Init, TypeOK, Steps, Replies, Requests
<1> QED
  BY <1>4, RiskAssumption DEF Init, FlowInv, FlowOK, OperatorOK, CommandMade, Requests

LEMMA ReceiveMessageFlow ==
  ASSUME FlowInv, NEW w \in Workers, NEW m \in Messages, ReceiveMessage(w, m)
  PROVE  FlowInv'
<1>1. DeliveryTypeOK' /\ held' = [held EXCEPT ![w] = m]
  BY PushType DEF FlowInv, TypeOK, ReceiveMessage
<1>2. /\ step' = [step EXCEPT ![w] = FirstStep(m)]
      /\ request' = [request EXCEPT ![w] = m]
      /\ UNCHANGED <<settings, assessment, store, keys, published, controlVars, operatorVars,
                     historyVars>>
  BY DEF ReceiveMessage, Goto
<1>3. FirstStep(m) \in Steps \ {"idle"} /\ m # NoRequest /\ m \in Requests /\ m \notin Commands
  BY RiskAssumption DEF FirstStep, Steps, Requests
<1>4. TypeOK'
  BY <1>1, <1>2, <1>3 DEF FlowInv, TypeOK, DeliveryTypeOK, controlVars, operatorVars,
         historyVars
<1>5. OnlyHandler(w) /\ step'[w] = FirstStep(m) /\ request'[w] = m
  BY <1>2 DEF FlowInv, TypeOK, OnlyHandler, SameHandler
<1>6. FlowOK(w)' /\ CommandMade(w)'
  BY <1>3, <1>5 DEF FlowOK, CommandMade, FirstStep, OrderRequests
<1> QED
  BY <1>2, <1>4, <1>5, <1>6, FlowByHandler DEF AskedStays, operatorVars, FlowInv, OperatorOK

LEMMA ReceiveCommandFlow ==
  ASSUME FlowInv, NEW w \in Workers, NEW c \in Commands, ReceiveCommand(w, c)
  PROVE  FlowInv'
<1>1. PICK kind \in {"approve", "reject"} : asked' = [asked EXCEPT ![c] = kind]
  BY DEF ReceiveCommand
<1>2. /\ step' = [step EXCEPT ![w] = FirstStep(c)]
      /\ request' = [request EXCEPT ![w] = c]
      /\ reply[c] = "unsent"
      /\ reply' = [reply EXCEPT ![c] = "pending"]
      /\ UNCHANGED <<deliveryVars, settings, assessment, store, keys, published, controlVars,
                     historyVars>>
  BY DEF ReceiveCommand, Goto
<1>3. /\ FirstStep(c) \in Steps \ {"idle"} /\ c # NoRequest /\ c \in Requests
      /\ c \notin Messages /\ c \notin KillSwitchMessages
  BY RiskAssumption DEF FirstStep, Steps, Requests
<1>4. TypeOK'
  BY <1>1, <1>2, <1>3
     DEF FlowInv, TypeOK, DeliveryTypeOK, controlVars, deliveryVars, historyVars, Replies
<1>5. OnlyHandler(w) /\ step'[w] = FirstStep(c) /\ request'[w] = c
  BY <1>2 DEF FlowInv, TypeOK, OnlyHandler, SameHandler
<1>6. FlowOK(w)'
  BY <1>3, <1>5 DEF FlowOK, FirstStep, OrderRequests
<1>7. CommandMade(w)'
  BY <1>1, <1>2, <1>5 DEF CommandMade, FlowInv, TypeOK
<1>8. AskedStays /\ \A d \in Commands : reply'[d] = "unsent" => asked'[d] = "none"
  BY <1>1, <1>2 DEF AskedStays, FlowInv, OperatorOK, TypeOK
<1> QED
  BY <1>4, <1>5, <1>6, <1>7, <1>8, FlowByHandler

LEMMA LoadSettingsFlow ==
  ASSUME FlowInv, NEW w \in Workers, LoadSettings(w)
  PROVE  FlowInv'
<1>1. PICK switch \in LoadedKillSwitch, limits \in LoadedLimits, rule \in LoadedBarred(request[w]) :
        /\ settings' = [settings EXCEPT ![w] =
             [killSwitch |-> EffectiveSwitch(request[w], switch),
              limits |-> limits, barred |-> rule]]
        /\ unscreened' = unscreened \cup Unread(w, rule)
  BY DEF LoadSettings
<1> DEFINE loaded ==
      [killSwitch |-> EffectiveSwitch(request[w], switch), limits |-> limits, barred |-> rule]
<1>2. /\ step[w] = "load" /\ Goto(w, "key")
      /\ UNCHANGED <<deliveryVars, request, assessment, store, keys, published,
                     controlVars, operatorVars, unguarded, untold>>
  BY DEF LoadSettings
<1>3. request[w] \in OrderRequests
  BY <1>2 DEF FlowInv, FlowOK
<1>4. loaded \in Settings
  <2>1. IdentifierOf[request[w]] \in Assessments
    BY <1>3, RiskAssumption
  <2>2. rule \in ComplianceCodes \cup {NoReason}
    BY <2>1 DEF LoadedBarred, FlowInv, TypeOK
  <2>3. EffectiveSwitch(request[w], switch) \in BOOLEAN
    BY DEF EffectiveSwitch, LoadedKillSwitch, FlowInv, TypeOK
  <2> QED
    BY <2>2, <2>3 DEF Settings, LoadedLimits
<1>5. settings' = [settings EXCEPT ![w] = loaded] /\ HistoryOK'
  <2>1. Unread(w, rule) \subseteq Assessments
    BY <1>3, OrderIdentifier DEF Unread
  <2> QED
    BY <1>1, <1>2, <2>1 DEF HistoryOK, FlowInv, TypeOK
<1>6. loaded.killSwitch = EffectiveSwitch(request[w], switch)
  OBVIOUS
<1> HIDE DEF loaded
<1>7. OnlyHandler(w) /\ step'[w] = "key" /\ settings'[w] = loaded
  BY <1>2, <1>5, GotoOnly DEF FlowInv, TypeOK
<1>8. TypeOK'
  BY <1>2, <1>4, <1>5 DEF FlowInv, TypeOK, Goto, Steps, DeliveryTypeOK, deliveryVars,
                          controlVars, operatorVars, HistoryOK
<1>9. FlowOK(w)' /\ CommandMade(w)'
  <2>1. request[w] \in Commands /\ asked[request[w]] = "reject" => loaded.killSwitch
    BY <1>6 DEF EffectiveSwitch
  <2> QED
    BY <1>2, <1>7, <2>1 DEF FlowInv, FlowOK, OperatorOK, CommandMade, operatorVars
<1> QED
  BY <1>2, <1>7, <1>8, <1>9, FlowByHandler DEF AskedStays, operatorVars, FlowInv, OperatorOK

LEMMA FindKeyFlow ==
  ASSUME FlowInv, NEW w \in Workers, FindKey(w)
  PROVE  FlowInv'
<1>1. PICK s \in {"respondDuplicate", "sync", "assess"} :
        /\ Goto(w, s)
        /\ s = "sync" => request[w] \in KillSwitchMessages
        /\ s = "assess" => request[w] \notin KillSwitchMessages
        /\ UNCHANGED historyVars \/ (s = "assess" /\ Unguard(w))
  BY DEF FindKey
<1>2. /\ step[w] = "key"
      /\ UNCHANGED <<deliveryVars, request, settings, assessment, store, keys, published,
                     controlVars, operatorVars>>
  BY DEF FindKey
<1>3. request[w] \in WellFormed /\ request[w] \in Requests
  BY <1>2, RiskAssumption DEF FlowInv, FlowOK
<1>4. OnlyHandler(w) /\ step'[w] = s
  BY <1>1, <1>2, GotoOnly DEF FlowInv, TypeOK
<1>5. TypeOK'
  <2>1. HistoryOK'
    BY <1>1, <1>3, HistoryType DEF FlowInv, OrderRequests
  <2> QED
    BY <1>1, <1>2, <1>3, <2>1, RiskAssumption
       DEF FlowInv, TypeOK, Goto, Steps, DeliveryTypeOK, deliveryVars, controlVars, operatorVars,
           HistoryOK
<1>6. FlowOK(w)' /\ CommandMade(w)'
  BY <1>1, <1>2, <1>3, <1>4
     DEF FlowInv, FlowOK, OperatorOK, CommandMade, operatorVars, OrderRequests
<1> QED
  BY <1>2, <1>4, <1>5, <1>6, FlowByHandler DEF AskedStays, operatorVars, FlowInv, OperatorOK

LEMMA AssessOrderFlow ==
  ASSUME FlowInv, NEW w \in Workers, AssessOrder(w)
  PROVE  FlowInv'
<1>1. PICK s \in ScreenedBy(w) : assessment' = [assessment EXCEPT ![w] = Screen(s)]
  BY DEF AssessOrder
<1>2. /\ step[w] = "assess" /\ Goto(w, "persist")
      /\ UNCHANGED <<deliveryVars, request, settings, store, keys, published,
                     controlVars, operatorVars, historyVars>>
  BY DEF AssessOrder
<1>3. s \in Settings /\ (s = settings[w] \/ ~s.limits)
  BY ScreenedByResult DEF FlowInv
<1>4. /\ Screen(s) \in Documents /\ Screen(s).status \in Decisions
      /\ settings[w].killSwitch => Screen(s).status = "REJECTED"
  BY <1>3, ScreenResult DEF Decisions
<1>5. OnlyHandler(w) /\ step'[w] = "persist" /\ assessment'[w] = Screen(s)
  BY <1>1, <1>2, GotoOnly DEF FlowInv, TypeOK
<1>6. TypeOK'
  BY <1>1, <1>2, <1>4
     DEF FlowInv, TypeOK, Goto, Steps, DeliveryTypeOK, deliveryVars, controlVars, operatorVars,
         historyVars
<1>7. FlowOK(w)' /\ CommandMade(w)'
  BY <1>2, <1>4, <1>5 DEF FlowInv, FlowOK, OperatorOK, CommandMade, operatorVars
<1> QED
  BY <1>2, <1>5, <1>6, <1>7, FlowByHandler DEF AskedStays, operatorVars, FlowInv, OperatorOK

LEMMA PersistFlow ==
  ASSUME FlowInv, NEW w \in Workers, PersistAssessment(w)
  PROVE  FlowInv'
<1>1. /\ step[w] = "persist" /\ Goto(w, "publish")
      /\ store' = [store EXCEPT ![Identifier(w)] = assessment[w]] \/ store' = store
      /\ UNCHANGED historyVars \/ Unguard(w)
      /\ UNCHANGED <<deliveryVars, request, settings, assessment, keys, published,
                     controlVars, operatorVars>>
  BY DEF PersistAssessment
<1>2. OnlyHandler(w) /\ step'[w] = "publish"
  BY <1>1, GotoOnly DEF FlowInv, TypeOK
<1>3. TypeOK'
  <2>1. HistoryOK'
    BY <1>1, HistoryType DEF FlowInv, FlowOK
  <2> QED
    BY <1>1, <2>1
       DEF FlowInv, TypeOK, Goto, Steps, DeliveryTypeOK, deliveryVars, controlVars, operatorVars,
           HistoryOK
<1>4. FlowOK(w)' /\ CommandMade(w)'
  BY <1>1, <1>2 DEF FlowInv, FlowOK, OperatorOK, CommandMade, operatorVars
<1> QED
  BY <1>1, <1>2, <1>3, <1>4, FlowByHandler DEF AskedStays, operatorVars, FlowInv, OperatorOK

\* What a publication leaves.
PublishedBy(w) ==
  \A a \in Assessments : \A d \in Decisions :
    published'[a][d] = IF a = Identifier(w) /\ d = assessment[w].status
                       THEN published[a][d] + 1 ELSE published[a][d]

(* An event adds one to the announcements of its order and its decision.   *)
LEMMA PublishResult ==
  ASSUME FlowInv, NEW w \in Workers, step[w] = "publish",
         published' = [published EXCEPT ![Identifier(w)][assessment[w].status] = @ + 1]
  PROVE  /\ Identifier(w) \in Assessments /\ assessment[w].status \in Decisions
         /\ published' \in [Assessments -> [Decisions -> Nat]]
         /\ PublishedBy(w)
<1> DEFINE a == Identifier(w)
           d == assessment[w].status
<1>1. a \in Assessments /\ d \in Decisions
  BY RiskAssumption DEF FlowInv, FlowOK, Identifier
<1>2. published \in [Assessments -> [Decisions -> Nat]]
  BY DEF FlowInv, TypeOK
<1>3. published' = [published EXCEPT ![a] = [published[a] EXCEPT ![d] = published[a][d] + 1]]
  OBVIOUS
<1> HIDE DEF a, d
<1>4. published[a] \in [Decisions -> Nat]
  BY <1>1, <1>2
<1>5. [published[a] EXCEPT ![d] = published[a][d] + 1] \in [Decisions -> Nat]
  BY <1>1, <1>4
<1>6. published' \in [Assessments -> [Decisions -> Nat]]
  BY <1>2, <1>3, <1>5
<1> QED
  BY <1>1, <1>2, <1>3, <1>4, <1>6 DEF PublishedBy, a, d

LEMMA PublishFlow ==
  ASSUME FlowInv, NEW w \in Workers, PublishDecision(w)
  PROVE  FlowInv'
<1>1. /\ step[w] = "publish" /\ Goto(w, "record")
      /\ UNCHANGED <<deliveryVars, request, settings, assessment, store, keys,
                     controlVars, operatorVars, unguarded, unscreened>>
  BY DEF PublishDecision
<1>2. published' \in [Assessments -> [Decisions -> Nat]] /\ HistoryOK'
  <2>1. Identifier(w) \in Assessments
    BY <1>1, OrderIdentifier DEF FlowInv, FlowOK
  <2> QED
    BY <1>1, <2>1, PublishResult DEF PublishDecision, FlowInv, TypeOK, HistoryOK
<1>3. OnlyHandler(w) /\ step'[w] = "record"
  BY <1>1, GotoOnly DEF FlowInv, TypeOK
<1>4. TypeOK'
  BY <1>1, <1>2
     DEF FlowInv, TypeOK, Goto, Steps, DeliveryTypeOK, deliveryVars, controlVars, operatorVars,
         HistoryOK
<1>5. FlowOK(w)' /\ CommandMade(w)'
  BY <1>1, <1>3 DEF FlowInv, FlowOK, OperatorOK, CommandMade, operatorVars
<1> QED
  BY <1>1, <1>3, <1>4, <1>5, FlowByHandler DEF AskedStays, operatorVars, FlowInv, OperatorOK

LEMMA RecordKeyFlow ==
  ASSUME FlowInv, NEW w \in Workers, RecordKey(w)
  PROVE  FlowInv'
<1>1. /\ step[w] = "record" /\ Goto(w, "respondDone")
      /\ keys' = keys \cup {Identifier(w)} \/ keys' = keys
      /\ UNCHANGED historyVars \/ (Deciding(w) /\ Unguard(w))
      /\ UNCHANGED <<deliveryVars, request, settings, assessment, store, published,
                     controlVars, operatorVars>>
  BY DEF RecordKey
<1>2. Identifier(w) \in Identifiers
  BY <1>1, RiskAssumption DEF FlowInv, FlowOK, Identifier
<1>3. OnlyHandler(w) /\ step'[w] = "respondDone"
  BY <1>1, GotoOnly DEF FlowInv, TypeOK
<1>4. TypeOK'
  <2>1. HistoryOK'
    BY <1>1, HistoryType DEF FlowInv, Deciding
  <2> QED
    BY <1>1, <1>2, <2>1
       DEF FlowInv, TypeOK, Goto, Steps, DeliveryTypeOK, deliveryVars, controlVars, operatorVars,
           HistoryOK
<1>5. FlowOK(w)' /\ CommandMade(w)'
  BY <1>1, <1>3 DEF FlowInv, FlowOK, OperatorOK, CommandMade, operatorVars
<1> QED
  BY <1>1, <1>3, <1>4, <1>5, FlowByHandler DEF AskedStays, operatorVars, FlowInv, OperatorOK

LEMMA SyncFlow ==
  ASSUME FlowInv, NEW w \in Workers, SyncKillSwitch(w)
  PROVE  /\ FlowInv'
         /\ \A a \in Assessments : store'[a].status = store[a].status
<1>1. /\ step[w] = "sync" /\ Goto(w, "record")
      /\ UNCHANGED <<deliveryVars, request, settings, assessment, keys, published,
                     controlVars, operatorVars, historyVars>>
  BY DEF SyncKillSwitch
<1>2. /\ store' \in [Assessments -> Documents]
      /\ \A a \in Assessments : store'[a].status = store[a].status
  BY DEF SyncKillSwitch, FlowInv, TypeOK, Documents
<1>3. OnlyHandler(w) /\ step'[w] = "record"
  BY <1>1, GotoOnly DEF FlowInv, TypeOK
<1>4. TypeOK'
  BY <1>1, <1>2
     DEF FlowInv, TypeOK, Goto, Steps, DeliveryTypeOK, deliveryVars, controlVars, operatorVars,
         historyVars
<1>5. FlowOK(w)' /\ CommandMade(w)'
  BY <1>1, <1>3 DEF FlowInv, FlowOK, OperatorOK, CommandMade, operatorVars
<1> QED
  BY <1>1, <1>2, <1>3, <1>4, <1>5, FlowByHandler
     DEF AskedStays, operatorVars, FlowInv, OperatorOK

(* A handler that ends is idle and holds nothing.                          *)
LEMMA ResetResult ==
  ASSUME TypeOK, NEW w \in Workers, ResetHandler(w)
  PROVE  /\ OnlyHandler(w)
         /\ step' \in [Workers -> Steps] /\ request' \in [Workers -> Requests \cup {NoRequest}]
         /\ step'[w] = "idle" /\ request'[w] = NoRequest
         /\ settings' \in [Workers -> Settings]
         /\ assessment' \in [Workers -> Documents]
         /\ FlowOK(w)' /\ CommandMade(w)'
<1>1. NoSettings \in Settings /\ NoAssessment \in Documents
  BY DEF NoSettings, Settings, NoAssessment, Documents
<1>2. NoRequest \notin WellFormed /\ NoRequest \notin Commands
  BY RiskAssumption DEF Requests
<1>3. OnlyHandler(w) /\ step'[w] = "idle" /\ request'[w] = NoRequest
  BY DEF TypeOK, ResetHandler, Goto, OnlyHandler, SameHandler
<1> QED
  BY <1>1, <1>2, <1>3 DEF TypeOK, ResetHandler, Goto, Steps, FlowOK, CommandMade

LEMMA AnswerMessageFlow ==
  ASSUME FlowInv, NEW w \in Workers, AnswerMessage(w)
  PROVE  FlowInv'
<1>1. /\ request[w] \in Messages /\ Ack(w) /\ ResetHandler(w)
      /\ UNCHANGED <<store, keys, published, controlVars, operatorVars, historyVars>>
  BY DEF AnswerMessage
<1>2. held[w] = request[w] /\ held[w] \in Messages
  BY <1>1 DEF FlowInv, TypeOK
<1>3. DeliveryTypeOK' /\ held' = [held EXCEPT ![w] = NoMessage]
  BY <1>1, <1>2, AnswerType DEF FlowInv, TypeOK
<1>4. TypeOK'
  <2>1. NoRequest \notin Messages /\ held \in [Workers -> Messages \cup {NoMessage}]
    BY RiskAssumption DEF Requests, FlowInv, TypeOK, DeliveryTypeOK
  <2>2. \A v \in Workers : request'[v] \in Messages => held'[v] = request'[v]
    BY <1>1, <1>3, <2>1, ResetResult DEF FlowInv, TypeOK, OnlyHandler, SameHandler
  <2>3. \A v \in Workers : (step'[v] = "idle") = (request'[v] = NoRequest)
    BY <1>1, ResetResult DEF FlowInv, TypeOK, OnlyHandler, SameHandler
  <2> QED
    BY <1>1, <1>3, <2>2, <2>3, ResetResult
       DEF FlowInv, TypeOK, controlVars, operatorVars, historyVars
<1> QED
  BY <1>1, <1>4, ResetResult, FlowByHandler DEF AskedStays, operatorVars, FlowInv, OperatorOK

LEMMA AnswerCommandFlow ==
  ASSUME FlowInv, NEW w \in Workers, AnswerCommand(w)
  PROVE  FlowInv'
<1> PICK s \in {<<"respondDone", "success">>, <<"respondDuplicate", "conflict">>,
               <<"respondInvalid", "invalid">>} :
      step[w] = s[1] /\ reply' = [reply EXCEPT ![request[w]] = s[2]]
  BY DEF AnswerCommand
<1>1. /\ request[w] \in Commands /\ ResetHandler(w)
      /\ UNCHANGED <<deliveryVars, store, keys, published, controlVars, asked, historyVars>>
      /\ \E a \in Replies \ {"unsent"} : reply' = [reply EXCEPT ![request[w]] = a]
  <2>1. s[2] \in Replies \ {"unsent"}
    BY DEF Replies
  <2> QED
    BY <2>1 DEF AnswerCommand
<1>2. TypeOK'
  <2>1. NoRequest \notin Messages
    BY RiskAssumption DEF Requests
  <2>2. \A v \in Workers : request'[v] \in Messages => held'[v] = request'[v]
    BY <1>1, <2>1, ResetResult DEF FlowInv, TypeOK, OnlyHandler, SameHandler, deliveryVars
  <2>3. \A v \in Workers : (step'[v] = "idle") = (request'[v] = NoRequest)
    BY <1>1, ResetResult DEF FlowInv, TypeOK, OnlyHandler, SameHandler
  <2> QED
    BY <1>1, <2>2, <2>3, ResetResult
       DEF FlowInv, TypeOK, DeliveryTypeOK, deliveryVars, controlVars, historyVars
<1>3. AskedStays /\ \A c \in Commands : reply'[c] = "unsent" => asked'[c] = "none"
  BY <1>1 DEF AskedStays, FlowInv, OperatorOK, TypeOK
<1> QED
  BY <1>1, <1>2, <1>3, ResetResult, FlowByHandler DEF FlowInv

LEMMA CrashFlow ==
  ASSUME FlowInv, NEW w \in Workers, Crash(w)
  PROVE  FlowInv'
<1>1. /\ ResetHandler(w)
      /\ IF request[w] \in Messages THEN Nack(w) ELSE UNCHANGED deliveryVars
      /\ UNCHANGED historyVars \/ (Deciding(w) /\ Unguard(w))
      /\ UNCHANGED <<store, keys, published, controlVars, operatorVars>>
  BY DEF Crash
<1>2. DeliveryTypeOK' /\ (held' = held \/ held' = [held EXCEPT ![w] = NoMessage])
  <2>1. CASE request[w] \in Messages
    BY <1>1, <2>1, AnswerType DEF FlowInv, TypeOK
  <2>2. CASE request[w] \notin Messages
    BY <1>1, <2>2 DEF FlowInv, TypeOK, DeliveryTypeOK, deliveryVars
  <2> QED
    BY <2>1, <2>2
<1>3. TypeOK'
  <2>1. NoRequest \notin Messages /\ held \in [Workers -> Messages \cup {NoMessage}]
    BY RiskAssumption DEF Requests, FlowInv, TypeOK, DeliveryTypeOK
  <2>2. \A v \in Workers : request'[v] \in Messages => held'[v] = request'[v]
    BY <1>1, <1>2, <2>1, ResetResult DEF FlowInv, TypeOK, OnlyHandler, SameHandler
  <2>3. \A v \in Workers : (step'[v] = "idle") = (request'[v] = NoRequest)
    BY <1>1, ResetResult DEF FlowInv, TypeOK, OnlyHandler, SameHandler
  <2>4. HistoryOK'
    BY <1>1, HistoryType DEF FlowInv, Deciding
  <2> QED
    BY <1>1, <1>2, <2>2, <2>3, <2>4, ResetResult
       DEF FlowInv, TypeOK, controlVars, operatorVars, HistoryOK
<1> QED
  BY <1>1, <1>3, ResetResult, FlowByHandler DEF AskedStays, operatorVars, FlowInv, OperatorOK

(* The steps of the environment leave the handlers and the operator alone. *)
LEMMA EnvironmentFlow ==
  ASSUME FlowInv, ToggleKillSwitch \/ Subscription \/ UNCHANGED vars
  PROVE  FlowInv'
<1>1. UNCHANGED <<handlerVars, store, keys, published, barred, operatorVars, historyVars>>
  BY DEF ToggleKillSwitch, Subscription, vars, controlVars
<1>2. DeliveryTypeOK' /\ held' = held
  <2>1. CASE Subscription
    BY <2>1, SubscriptionType DEF Subscription, FlowInv, TypeOK
  <2>2. CASE UNCHANGED deliveryVars
    BY <2>2 DEF deliveryVars, FlowInv, TypeOK, DeliveryTypeOK
  <2> QED
    BY <2>1, <2>2 DEF ToggleKillSwitch, vars
<1>3. killSwitch' \in BOOLEAN /\ toggles' \in 0..MaxToggles
  <2>1. CASE ToggleKillSwitch
    BY <2>1, RiskAssumption DEF ToggleKillSwitch, FlowInv, TypeOK
  <2>2. CASE UNCHANGED controlVars
    BY <2>2 DEF controlVars, FlowInv, TypeOK
  <2> QED
    BY <2>1, <2>2 DEF Subscription, vars
<1>4. TypeOK'
  BY <1>1, <1>2, <1>3 DEF FlowInv, TypeOK, handlerVars, operatorVars, historyVars
<1>5. \A v \in Workers : SameHandler(v)
  BY <1>1 DEF SameHandler, handlerVars
<1> QED
  BY <1>1, <1>4, <1>5, FlowStable DEF FlowInv, AskedStays, OperatorOK, operatorVars

LEMMA HandleFlow ==
  ASSUME FlowInv, NEW w \in Workers, Handle(w)
  PROVE  FlowInv'
  BY LoadSettingsFlow, FindKeyFlow, AssessOrderFlow, PersistFlow, PublishFlow, RecordKeyFlow,
     SyncFlow, AnswerMessageFlow, AnswerCommandFlow DEF Handle

LEMMA StepFlow == FlowInv /\ [Next]_vars => FlowInv'
<1> SUFFICES ASSUME FlowInv, [Next]_vars PROVE FlowInv'
  OBVIOUS
<1>1. CASE \E w \in Workers, m \in Messages : ReceiveMessage(w, m)
  BY <1>1, ReceiveMessageFlow
<1>2. CASE \E w \in Workers, c \in Commands : ReceiveCommand(w, c)
  BY <1>2, ReceiveCommandFlow
<1>3. CASE \E w \in Workers : Handle(w) \/ Crash(w)
  BY <1>3, HandleFlow, CrashFlow
<1>4. CASE ToggleKillSwitch \/ Subscription \/ UNCHANGED vars
  BY <1>4, EnvironmentFlow
<1> QED
  BY <1>1, <1>2, <1>3, <1>4 DEF Next

LEMMA AlwaysFlow == Spec => []FlowInv
<1>1. Init => FlowInv
  BY InitFlow
<1> QED
  BY <1>1, StepFlow, PTL DEF Spec

(* Every variable keeps its type, for any number of orders, messages,      *)
(* commands and handlers and any faults.                                   *)
THEOREM TypeCorrect == Spec => []TypeOK
<1>1. FlowInv => TypeOK
  BY DEF FlowInv
<1> QED
  BY <1>1, AlwaysFlow, PTL

---------------------------------------------------------------------------------
(* The kill switch.                                                        *)

(* Only the publication of an approval approves an order, and a handler    *)
(* that has seen the kill switch on has none to publish.                   *)
LEMMA HaltStep ==
  ASSUME FlowInv, Halted, Next, NEW a \in Assessments
  PROVE  published'[a]["APPROVED"] = published[a]["APPROVED"]
<1>1. CASE UNCHANGED published
  BY <1>1
<1>2. CASE \E w \in Workers : PublishDecision(w) /\ ~UNCHANGED published
  <2>1. PICK w \in Workers : PublishDecision(w) /\ ~UNCHANGED published
    BY <1>2
  <2>2. step[w] = "publish" /\ settings[w].killSwitch
    BY <2>1 DEF PublishDecision, Halted
  <2>3. assessment[w].status = "REJECTED"
    BY <2>2 DEF FlowInv, FlowOK
  <2>4. PublishedBy(w)
    BY <2>1, <2>2, PublishResult DEF PublishDecision
  <2> QED
    BY <2>3, <2>4 DEF PublishedBy, Decisions
<1> QED
  BY <1>1, <1>2
  DEF Next, ReceiveMessage, ReceiveCommand, Handle, Crash, ToggleKillSwitch, Subscription,
      LoadSettings, FindKey, AssessOrder, PersistAssessment, PublishDecision, RecordKey,
      SyncKillSwitch, AnswerMessage, AnswerCommand

(* With the kill switch on and seen by every handler in flight, no order   *)
(* is approved by any step, whatever documents and keys are there.         *)
THEOREM KillSwitchHolds == Spec => KillSwitchHalts
<1>1. FlowInv /\ [Next]_vars =>
        [Halted => \A a \in Assessments :
           published'[a]["APPROVED"] = published[a]["APPROVED"]]_vars
  BY HaltStep
<1> QED
  BY <1>1, AlwaysFlow, PTL DEF Spec, KillSwitchHalts

---------------------------------------------------------------------------------
(* What is true of every step of a handler.                                *)

\* The step of the handler w.
StepOf(w) ==
  \/ \E m \in Messages : ReceiveMessage(w, m)
  \/ \E c \in Commands : ReceiveCommand(w, c)
  \/ Handle(w)
  \/ Crash(w)

\* Announcements are never taken back.
PublishedGrows ==
  /\ \A a \in Assessments : \A d \in Decisions : published[a][d] > 0 => published'[a][d] > 0
  /\ untold \subseteq untold'

(* No history forgets anything.                                            *)
LEMMA HistoriesGrow ==
  ASSUME NEW w \in Workers, StepOf(w)
  PROVE  /\ untold \subseteq untold'
         /\ unscreened \subseteq unscreened'
<1>1. CASE UNCHANGED historyVars \/ Unguard(w)
  BY <1>1 DEF historyVars, Unguard
<1>2. CASE LoadSettings(w) \/ PublishDecision(w)
  BY <1>2 DEF LoadSettings, PublishDecision
<1> QED
  BY <1>1, <1>2
  DEF StepOf, Handle, ReceiveMessage, ReceiveCommand, Crash, FindKey, AssessOrder,
      PersistAssessment, RecordKey, SyncKillSwitch, AnswerMessage, AnswerCommand

LEMMA StepOnly ==
  ASSUME FlowInv, NEW w \in Workers, StepOf(w)
  PROVE  OnlyHandler(w)
<1> USE DEF FlowInv
<1>1. CASE Crash(w) \/ AnswerMessage(w) \/ AnswerCommand(w)
  BY <1>1, ResetResult DEF Crash, AnswerMessage, AnswerCommand
<1>2. CASE \E m \in Messages : ReceiveMessage(w, m)
  BY <1>2 DEF ReceiveMessage, Goto, TypeOK, OnlyHandler, SameHandler
<1>3. CASE \E c \in Commands : ReceiveCommand(w, c)
  BY <1>3 DEF ReceiveCommand, Goto, TypeOK, OnlyHandler, SameHandler
<1>4. CASE LoadSettings(w)
  BY <1>4 DEF LoadSettings, Goto, TypeOK, OnlyHandler, SameHandler
<1>5. CASE FindKey(w)
  BY <1>5 DEF FindKey, Goto, TypeOK, OnlyHandler, SameHandler
<1>6. CASE AssessOrder(w)
  BY <1>6 DEF AssessOrder, Goto, TypeOK, OnlyHandler, SameHandler
<1>7. CASE PersistAssessment(w) \/ PublishDecision(w)
  BY <1>7 DEF PersistAssessment, PublishDecision, Goto, TypeOK, OnlyHandler, SameHandler
<1>8. CASE RecordKey(w) \/ SyncKillSwitch(w)
  BY <1>8 DEF RecordKey, SyncKillSwitch, Goto, TypeOK, OnlyHandler, SameHandler
<1> QED
  BY <1>1, <1>2, <1>3, <1>4, <1>5, <1>6, <1>7, <1>8 DEF StepOf, Handle

LEMMA StepAsked ==
  ASSUME FlowInv, NEW w \in Workers, StepOf(w)
  PROVE  AskedStays
<1>1. CASE UNCHANGED operatorVars
  BY <1>1 DEF operatorVars, AskedStays
<1>2. CASE \E c \in Commands : ReceiveCommand(w, c)
  BY <1>2 DEF ReceiveCommand, AskedStays, FlowInv, TypeOK
<1>3. CASE AnswerCommand(w)
  BY <1>3 DEF AnswerCommand, AskedStays, FlowInv, TypeOK
<1> QED
  BY <1>1, <1>2, <1>3
  DEF StepOf, Handle, ReceiveMessage, Crash, LoadSettings, FindKey, AssessOrder,
      PersistAssessment, PublishDecision, RecordKey, SyncKillSwitch, AnswerMessage

LEMMA StepPublished ==
  ASSUME FlowInv, NEW w \in Workers, StepOf(w)
  PROVE  PublishedGrows
<1>1. CASE UNCHANGED published
  BY <1>1, HistoriesGrow DEF PublishedGrows, FlowInv, TypeOK
<1>2. CASE PublishDecision(w) /\ ~UNCHANGED published
  <2>1. PublishedBy(w)
    BY <1>2, PublishResult DEF PublishDecision
  <2> QED
    BY <2>1, HistoriesGrow DEF PublishedBy, PublishedGrows, FlowInv, TypeOK
<1> QED
  BY <1>1, <1>2
  DEF StepOf, Handle, ReceiveMessage, ReceiveCommand, Crash, LoadSettings, FindKey, AssessOrder,
      PersistAssessment, RecordKey, SyncKillSwitch, AnswerMessage, AnswerCommand

(* A step is that of a handler or of the environment.                      *)
LEMMA StepCases ==
  ASSUME [Next]_vars
  PROVE  \/ \E w \in Workers : StepOf(w)
         \/ ToggleKillSwitch \/ Subscription \/ UNCHANGED vars
  BY DEF Next, StepOf

---------------------------------------------------------------------------------
(* What is told is announced, or its publication was lost.                 *)

\* What may be told of the order a.
Told(a) == Announced(a) \/ a \in untold
ToldRejected(a) == published[a]["REJECTED"] > 0 \/ a \in untold

\* What a handler may tell has been announced.
TellsOK(w) ==
  /\ step[w] \in {"record", "respondDone", "respondDuplicate"} /\ request[w] \in OrderRequests =>
       Told(Identifier(w))
  /\ step[w] \in {"record", "respondDone"} /\ request[w] \in Commands
       /\ asked[request[w]] = "reject" => ToldRejected(Identifier(w))

KeysAnnounced == \A a \in keys \cap Assessments : Told(a)

ToldInv ==
  /\ FlowInv
  /\ KeysAnnounced
  /\ \A w \in Workers : TellsOK(w)
  /\ AnsweredIsAnnounced
  /\ RejectSucceedsOnlyIfRejected

LEMMA AnnouncedStable ==
  ASSUME FlowInv, PublishedGrows, NEW a \in Assessments
  PROVE  /\ Told(a) => Told(a)'
         /\ ToldRejected(a) => ToldRejected(a)'
  BY DEF PublishedGrows, Told, ToldRejected, Announced, Decisions

LEMMA TellsStable ==
  ASSUME FlowInv, PublishedGrows, AskedStays, NEW v \in Workers, SameHandler(v), TellsOK(v)
  PROVE  TellsOK(v)'
<1>1. Identifier(v)' = Identifier(v)
  BY DEF Identifier, SameHandler
<1>2. request[v] \in OrderRequests => Identifier(v) \in Assessments
  BY RiskAssumption DEF Identifier
<1>3. request[v] \in Commands => request[v] \in OrderRequests
  BY RiskAssumption DEF OrderRequests, Requests
<1>4. request[v] \in Commands => asked'[request[v]] = asked[request[v]]
  BY DEF FlowInv, OperatorOK, CommandMade, AskedStays
<1> QED
  BY <1>1, <1>2, <1>3, <1>4, AnnouncedStable DEF TellsOK, SameHandler

(* Every handler only tells of an order what was announced.                *)
LEMMA TellsStep ==
  ASSUME ToldInv, NEW w \in Workers, StepOf(w)
  PROVE  TellsOK(w)'
<1> USE DEF ToldInv, FlowInv
<1>1. PublishedGrows /\ AskedStays
  BY StepPublished, StepAsked
<1>2. CASE step'[w] \notin {"record", "respondDone", "respondDuplicate"}
  BY <1>2 DEF TellsOK
<1>3. CASE \E r \in Requests : Goto(w, FirstStep(r))
  <2>1. step'[w] \in {"respondInvalid", "key", "load"}
    BY <1>3 DEF FirstStep, Goto, TypeOK
  <2> QED
    BY <1>2, <2>1
<1>4. CASE ResetHandler(w)
  BY <1>2, <1>4, ResetResult
<1>5. CASE LoadSettings(w) \/ AssessOrder(w) \/ PersistAssessment(w)
  <2>1. step'[w] \in {"key", "persist", "publish"}
    BY <1>5 DEF LoadSettings, AssessOrder, PersistAssessment, Goto, TypeOK
  <2> QED
    BY <1>2, <2>1
<1>6. CASE FindKey(w)
  <2>1. CASE step'[w] \in {"sync", "assess"}
    BY <1>2, <2>1
  <2>2. CASE Identifier(w) \in keys /\ step'[w] = "respondDuplicate" /\ request' = request
    <3>1. request[w] \in OrderRequests =>
            Identifier(w) \in Assessments /\ Told(Identifier(w))
      BY <2>2, OrderIdentifier DEF KeysAnnounced
    <3>2. Identifier(w)' = Identifier(w)
      BY <2>2 DEF Identifier
    <3> QED
      BY <1>1, <2>2, <3>1, <3>2, AnnouncedStable DEF TellsOK
  <2> QED
    BY <1>6, <2>1, <2>2 DEF FindKey, KeyFound, Goto, TypeOK
<1>7. CASE PublishDecision(w)
  <2>1. step[w] = "publish" /\ Goto(w, "record") /\ UNCHANGED <<request, asked>>
    BY <1>7 DEF PublishDecision, operatorVars
  <2>2. Identifier(w) \in Assessments
    BY <2>1, OrderIdentifier DEF FlowOK
  <2>3. Identifier(w)' = Identifier(w) /\ step'[w] = "record"
    BY <2>1 DEF Identifier, Goto, TypeOK
  <2>4. request[w] \in Commands /\ asked[request[w]] = "reject" =>
          assessment[w].status = "REJECTED"
    BY <2>1 DEF FlowOK
  <2>5. CASE untold' = untold \cup {Identifier(w)}
    BY <2>3, <2>5 DEF TellsOK, Told, ToldRejected
  <2>6. CASE published' = [published EXCEPT ![Identifier(w)][assessment[w].status] = @ + 1]
    <3>1. assessment[w].status \in Decisions /\ PublishedBy(w)
      BY <2>1, <2>6, PublishResult
    <3>2. published[Identifier(w)][assessment[w].status] \in Nat
      BY <2>2, <3>1 DEF TypeOK
    <3>3. published'[Identifier(w)][assessment[w].status]
            = published[Identifier(w)][assessment[w].status] + 1
      BY <2>2, <3>1 DEF PublishedBy
    <3>4. published'[Identifier(w)][assessment[w].status] > 0
      BY <3>2, <3>3
    <3> QED
      BY <2>1, <2>3, <2>4, <3>1, <3>4 DEF TellsOK, Told, ToldRejected, Announced
  <2> QED
    BY <1>7, <2>5, <2>6 DEF PublishDecision
<1>8. CASE RecordKey(w)
  <2>1. step[w] = "record" /\ step'[w] = "respondDone" /\ UNCHANGED <<request, asked>>
    BY <1>8 DEF RecordKey, Goto, TypeOK, operatorVars
  <2>2. Identifier(w)' = Identifier(w)
    BY <2>1 DEF Identifier
  <2>3. request[w] \in OrderRequests => Identifier(w) \in Assessments
    BY OrderIdentifier
  <2>4. request[w] \in Commands => request[w] \in OrderRequests
    BY RiskAssumption DEF OrderRequests, Requests
  <2> QED
    BY <1>1, <2>1, <2>2, <2>3, <2>4, AnnouncedStable DEF TellsOK
<1>9. CASE SyncKillSwitch(w)
  <2>1. step[w] = "sync" /\ UNCHANGED request
    BY <1>9 DEF SyncKillSwitch
  <2>2. request[w] \notin OrderRequests /\ request[w] \notin Commands
    BY <2>1, RiskAssumption DEF FlowOK, OrderRequests
  <2> QED
    BY <2>1, <2>2 DEF TellsOK
<1> QED
  BY <1>3, <1>4, <1>5, <1>6, <1>7, <1>8, <1>9
  DEF StepOf, Handle, ReceiveMessage, ReceiveCommand, Crash, AnswerMessage, AnswerCommand, Requests

(* A key is written after the announcement.                                *)
LEMMA KeysStep ==
  ASSUME ToldInv, NEW w \in Workers, StepOf(w)
  PROVE  KeysAnnounced'
<1> USE DEF ToldInv, FlowInv
<1>1. PublishedGrows
  BY StepPublished
<1>2. ASSUME NEW a \in keys' \cap Assessments PROVE a \in keys \/ Told(a)
  <2>1. CASE keys' = keys
    BY <2>1
  <2>2. CASE RecordKey(w) /\ keys' = keys \cup {Identifier(w)} /\ a = Identifier(w)
    <3>1. step[w] = "record" /\ request[w] \in WellFormed /\ request[w] \in Requests
      BY <2>2, RiskAssumption DEF RecordKey, FlowOK
    <3>2. request[w] \in OrderRequests
      BY <2>2, <3>1, RiskAssumption DEF OrderRequests, Identifier
    <3> QED
      BY <2>2, <3>1, <3>2 DEF TellsOK
  <2> QED
    BY <2>1, <2>2
    DEF StepOf, Handle, ReceiveMessage, ReceiveCommand, Crash, LoadSettings, FindKey,
        AssessOrder, PersistAssessment, PublishDecision, RecordKey, SyncKillSwitch,
        AnswerMessage, AnswerCommand
<1> QED
  BY <1>1, <1>2, AnnouncedStable DEF KeysAnnounced

(* An answer is given after the announcement.                              *)
LEMMA AnsweredStep ==
  ASSUME ToldInv, NEW w \in Workers, StepOf(w)
  PROVE  AnsweredIsAnnounced' /\ RejectSucceedsOnlyIfRejected'
<1> USE DEF ToldInv, FlowInv
<1>1. PublishedGrows /\ AskedStays
  BY StepPublished, StepAsked
<1>2. ASSUME NEW m \in WellFormed \cap (Messages \ KillSwitchMessages), sub'[m] = "acked"
      PROVE  Told(IdentifierOf[m])
  <2>1. m \in OrderRequests /\ IdentifierOf[m] \in Assessments
    BY RiskAssumption DEF OrderRequests, Requests
  <2>2. CASE sub[m] = "acked"
    BY <2>2 DEF AnsweredIsAnnounced, Told
  <2>3. CASE AnswerMessage(w) /\ m = request[w]
    BY <2>1, <2>3 DEF AnswerMessage, FlowOK, TellsOK, Identifier
  <2>4. CASE AnswerMessage(w) /\ m # request[w]
    BY <2>2, <2>4, <1>2 DEF AnswerMessage, Ack, TypeOK, DeliveryTypeOK
  <2>5. CASE \E n \in Messages : ReceiveMessage(w, n)
    BY <2>2, <2>5, <1>2 DEF ReceiveMessage, Push, TypeOK, DeliveryTypeOK
  <2>6. CASE Crash(w)
    BY <2>2, <2>6, <1>2 DEF Crash, Nack, Requeued, TypeOK, DeliveryTypeOK, deliveryVars
  <2>7. CASE UNCHANGED sub
    BY <2>2, <2>7, <1>2
  <2> QED
    BY <2>3, <2>4, <2>5, <2>6, <2>7
    DEF StepOf, Handle, ReceiveCommand, LoadSettings, FindKey, AssessOrder, PersistAssessment,
        PublishDecision, RecordKey, SyncKillSwitch, AnswerCommand, deliveryVars
<1>3. ASSUME NEW c \in Commands, reply'[c] \in {"success", "conflict"}
      PROVE  /\ IdentifierOf[c] \in Assessments
             /\ Told(IdentifierOf[c])
             /\ asked'[c] = "reject" /\ reply'[c] = "success" =>
                  ToldRejected(IdentifierOf[c])
  <2>1. c \in OrderRequests /\ IdentifierOf[c] \in Assessments
    BY RiskAssumption DEF OrderRequests, Requests
  <2>2. CASE reply'[c] = reply[c] /\ asked'[c] = asked[c]
    BY <1>3, <2>1, <2>2
       DEF AnsweredIsAnnounced, RejectSucceedsOnlyIfRejected, Told, ToldRejected
  <2>3. CASE AnswerCommand(w) /\ c = request[w]
    <3>1. PICK s \in {<<"respondDone", "success">>, <<"respondDuplicate", "conflict">>,
                      <<"respondInvalid", "invalid">>} :
            step[w] = s[1] /\ reply' = [reply EXCEPT ![request[w]] = s[2]]
      BY <2>3 DEF AnswerCommand
    <3>2. reply'[c] = s[2] /\ asked' = asked
      BY <2>3, <3>1 DEF AnswerCommand, TypeOK
    <3>3. \/ step[w] = "respondDone" /\ reply'[c] = "success"
          \/ step[w] = "respondDuplicate" /\ reply'[c] = "conflict"
      BY <1>3, <3>1, <3>2
    <3> QED
      BY <2>1, <2>3, <3>2, <3>3 DEF TellsOK, Identifier
  <2>4. CASE AnswerCommand(w) /\ c # request[w]
    BY <2>2, <2>4 DEF AnswerCommand, TypeOK
  <2>5. CASE \E d \in Commands : ReceiveCommand(w, d)
    <3>1. PICK d \in Commands : ReceiveCommand(w, d)
      BY <2>5
    <3>2. reply' = [reply EXCEPT ![d] = "pending"]
      BY <3>1 DEF ReceiveCommand
    <3>3. c # d
      BY <1>3, <3>2 DEF TypeOK
    <3>4. asked'[c] = asked[c]
      BY <3>1, <3>3 DEF ReceiveCommand, TypeOK
    <3> QED
      BY <2>2, <3>2, <3>3, <3>4 DEF TypeOK
  <2>6. CASE UNCHANGED operatorVars
    BY <2>2, <2>6 DEF operatorVars
  <2> QED
    BY <2>3, <2>4, <2>5, <2>6
    DEF StepOf, Handle, ReceiveMessage, Crash, LoadSettings, FindKey, AssessOrder,
        PersistAssessment, PublishDecision, RecordKey, SyncKillSwitch, AnswerMessage
<1>4. ASSUME NEW m \in WellFormed \cap (Messages \ KillSwitchMessages), sub'[m] = "acked"
      PROVE  Told(IdentifierOf[m])'
  <2>1. IdentifierOf[m] \in Assessments
    BY RiskAssumption DEF OrderRequests, Requests
  <2> QED
    BY <1>1, <1>2, <1>4, <2>1, AnnouncedStable
<1>5. ASSUME NEW c \in Commands, reply'[c] \in {"success", "conflict"}
      PROVE  Told(IdentifierOf[c])'
  BY <1>1, <1>3, <1>5, AnnouncedStable
<1>6. ASSUME NEW c \in Commands, asked'[c] = "reject", reply'[c] = "success"
      PROVE  ToldRejected(IdentifierOf[c])'
  BY <1>1, <1>3, <1>6, AnnouncedStable
<1> QED
  BY <1>4, <1>5, <1>6 DEF AnsweredIsAnnounced, RejectSucceedsOnlyIfRejected, Told, ToldRejected

(* The environment acknowledges nothing, and tells nobody anything.        *)
LEMMA EnvironmentTold ==
  ASSUME ToldInv, ToggleKillSwitch \/ Subscription \/ UNCHANGED vars
  PROVE  ToldInv'
<1>1. UNCHANGED <<step, request, keys, published, asked, reply, untold>>
  BY DEF ToggleKillSwitch, Subscription, vars, handlerVars, operatorVars, historyVars
<1>2. \A m \in Messages : sub'[m] = "acked" => sub[m] = "acked"
  BY DEF ToldInv, FlowInv, TypeOK, DeliveryTypeOK, ToggleKillSwitch, Subscription, vars,
         deliveryVars, Expire, Redeliver, Requeued
<1>3. FlowInv'
  BY EnvironmentFlow DEF ToldInv
<1> QED
  BY <1>1, <1>2, <1>3
  DEF ToldInv, KeysAnnounced, TellsOK, Told, ToldRejected, Identifier, Announced,
      AnsweredIsAnnounced, RejectSucceedsOnlyIfRejected

LEMMA StepTold == ToldInv /\ [Next]_vars => ToldInv'
<1> SUFFICES ASSUME ToldInv, [Next]_vars PROVE ToldInv'
  OBVIOUS
<1>1. CASE \E w \in Workers : StepOf(w)
  <2>1. PICK w \in Workers : StepOf(w)
    BY <1>1
  <2>2. FlowInv'
    BY StepFlow DEF ToldInv
  <2>3. PublishedGrows /\ AskedStays /\ OnlyHandler(w)
    BY <2>1, StepPublished, StepAsked, StepOnly DEF ToldInv
  <2>4. \A v \in Workers : TellsOK(v)'
    BY <2>1, <2>3, TellsStep, TellsStable DEF ToldInv, OnlyHandler
  <2> QED
    BY <2>1, <2>2, <2>4, KeysStep, AnsweredStep DEF ToldInv
<1>2. CASE ToggleKillSwitch \/ Subscription \/ UNCHANGED vars
  BY <1>2, EnvironmentTold
<1> QED
  BY <1>1, <1>2, StepCases

LEMMA AlwaysTold == Spec => []ToldInv
<1>1. Init => ToldInv
  BY InitFlow
  DEF Init, DeliveryInit, ToldInv, KeysAnnounced, TellsOK, AnsweredIsAnnounced,
      RejectSucceedsOnlyIfRejected
<1>2. ToldInv /\ [Next]_vars => ToldInv'
  BY StepTold
<1> QED
  BY <1>1, <1>2, PTL DEF Spec

(* Whatever fails: nobody is told that an order was dealt with before its  *)
(* decision was announced, but for an order a publication of which failed. *)
THEOREM ToldOnlyWhatIsAnnounced == Spec => []AnsweredIsAnnounced
<1>1. ToldInv => AnsweredIsAnnounced
  BY DEF ToldInv
<1> QED
  BY <1>1, AlwaysTold, PTL

(* Whatever fails: a rejection that succeeded was announced as a rejection,*)
(* but for an order a publication of which failed.                         *)
THEOREM RejectionCanBeReliedOn == Spec => []RejectSucceedsOnlyIfRejected
<1>1. ToldInv => RejectSucceedsOnlyIfRejected
  BY DEF ToldInv
<1> QED
  BY <1>1, AlwaysTold, PTL

(* Both at once: no answer says more than has been announced, or was in a  *)
(* publication that failed.                                                *)
THEOREM AnswersCanBeReliedOn == Spec => []AnswersAreTrue
<1>1. ToldInv => AnswersAreTrue
  BY DEF ToldInv, AnswersAreTrue
<1> QED
  BY <1>1, AlwaysTold, PTL

---------------------------------------------------------------------------------
(* What a compliance rule bars, of the orders whose rule was always read.  *)

\* A handler of a barred order is about to reject it.
BarsOK(w) ==
  request[w] \in OrderRequests /\ Barred(Identifier(w)) =>
    /\ step[w] \in {"key", "assess", "persist", "publish"} =>
         settings[w].killSwitch \/ settings[w].barred # NoReason
    /\ step[w] \in {"persist", "publish"} => assessment[w].status # "APPROVED"

BarredInv ==
  /\ FlowInv
  /\ \A w \in Workers : BarsOK(w)
  /\ BarredNeverApproved

(* A rule stays, and so does an approval by hand.                          *)
LEMMA BarredStable ==
  ASSUME FlowInv, AskedStays, UNCHANGED barred, unscreened \subseteq unscreened',
         NEW a \in Assessments
  PROVE  Barred(a)' => Barred(a)
<1>1. \A c \in Commands : asked[c] = "approve" => asked'[c] = "approve"
  BY DEF FlowInv, OperatorOK, AskedStays
<1> QED
  BY <1>1 DEF Barred, ApprovedByHand

LEMMA BarsStable ==
  ASSUME FlowInv, AskedStays, UNCHANGED barred, unscreened \subseteq unscreened',
         NEW v \in Workers, SameHandler(v), BarsOK(v)
  PROVE  BarsOK(v)'
<1>1. Identifier(v)' = Identifier(v)
  BY DEF Identifier, SameHandler
<1>2. request[v] \in OrderRequests => (Barred(Identifier(v))' => Barred(Identifier(v)))
  <2> SUFFICES ASSUME request[v] \in OrderRequests
               PROVE  Barred(Identifier(v))' => Barred(Identifier(v))
    OBVIOUS
  <2>1. PICK a \in Assessments : a = Identifier(v)
    BY RiskAssumption DEF Identifier
  <2>2. Barred(a)' => Barred(a)
    BY BarredStable
  <2> QED
    BY <1>1, <2>1, <2>2
<1> QED
  BY <1>1, <1>2 DEF BarsOK, SameHandler

LEMMA StepBarred ==
  ASSUME NEW w \in Workers, StepOf(w)
  PROVE  UNCHANGED barred /\ unscreened \subseteq unscreened'
  BY HistoriesGrow
     DEF StepOf, Handle, ReceiveMessage, ReceiveCommand, Crash, LoadSettings, FindKey, AssessOrder,
         PersistAssessment, PublishDecision, RecordKey, SyncKillSwitch, AnswerMessage,
         AnswerCommand, controlVars

(* Every handler of a barred order comes to reject it.                     *)
LEMMA BarsStep ==
  ASSUME BarredInv, NEW w \in Workers, StepOf(w)
  PROVE  BarsOK(w)'
<1> USE DEF BarredInv, FlowInv
<1>1. AskedStays /\ UNCHANGED barred /\ unscreened \subseteq unscreened'
  BY StepAsked, StepBarred
<1>2. CASE step'[w] \notin {"key", "assess", "persist", "publish"}
  BY <1>2 DEF BarsOK
<1>3. CASE \E m \in Messages : ReceiveMessage(w, m)
  <2>1. PICK m \in Messages : ReceiveMessage(w, m)
    BY <1>3
  <2>2. step'[w] = FirstStep(m) /\ request'[w] = m
    BY <2>1 DEF ReceiveMessage, Goto, TypeOK
  <2> QED
    BY <2>2 DEF FirstStep, BarsOK, OrderRequests
<1>4. CASE \E c \in Commands : ReceiveCommand(w, c)
  <2>1. PICK c \in Commands : ReceiveCommand(w, c)
    BY <1>4
  <2>2. step'[w] = FirstStep(c) /\ request'[w] = c
    BY <2>1 DEF ReceiveCommand, Goto, TypeOK
  <2> QED
    BY <2>2 DEF FirstStep, BarsOK, OrderRequests
<1>5. CASE ResetHandler(w)
  BY <1>2, <1>5, ResetResult
<1>6. CASE request' = request /\ step[w] \in {"load", "key", "assess", "persist"}
  <2> SUFFICES ASSUME request[w] \in OrderRequests, Barred(Identifier(w))',
                      step'[w] \in {"key", "assess", "persist", "publish"}
               PROVE  /\ settings'[w].killSwitch \/ settings'[w].barred # NoReason
                      /\ step'[w] \in {"persist", "publish"} => assessment'[w].status # "APPROVED"
    BY <1>6 DEF BarsOK
  <2>1. PICK a \in Assessments : a = Identifier(w) /\ a = IdentifierOf[request[w]]
    BY RiskAssumption DEF Identifier
  <2>2. Identifier(w)' = a
    BY <1>6, <2>1 DEF Identifier
  <2>3. Barred(a)'
    BY <2>2
  <2>4. Barred(a)
    BY <1>1, <2>3, BarredStable
  <2>5. CASE LoadSettings(w)
    <3>1. PICK switch \in LoadedKillSwitch, limits \in LoadedLimits,
               rule \in LoadedBarred(request[w]) :
            /\ settings' = [settings EXCEPT ![w] =
                 [killSwitch |-> EffectiveSwitch(request[w], switch),
                  limits |-> limits, barred |-> rule]]
            /\ unscreened' = unscreened \cup Unread(w, rule)
      BY <2>5 DEF LoadSettings
    <3>2. step'[w] = "key"
      BY <2>5 DEF LoadSettings, Goto, TypeOK
    <3>3. /\ settings'[w].killSwitch = EffectiveSwitch(request[w], switch)
          /\ settings'[w].barred = rule
      BY <3>1 DEF TypeOK
    <3>4. CASE request[w] \in Commands
      <4>1. asked[request[w]] = "reject"
        BY <2>1, <2>4, <3>4 DEF Barred, ApprovedByHand, OperatorOK, CommandMade, TypeOK
      <4> QED
        BY <3>2, <3>3, <3>4, <4>1 DEF EffectiveSwitch
    <3>5. CASE request[w] \notin Commands
      <4>1. a \notin Unread(w, rule)
        BY <2>3, <3>1 DEF Barred
      <4>2. request[w] \in Messages
        BY <3>5 DEF OrderRequests, Requests
      <4>3. rule = barred[a]
        BY <2>1, <4>1, <4>2 DEF Unread
      <4> QED
        BY <2>4, <3>2, <3>3, <4>3 DEF Barred
    <3> QED
      BY <3>4, <3>5
  <2>6. CASE FindKey(w)
    <3>1. step'[w] \in {"respondDuplicate", "sync", "assess"} /\ settings' = settings
      BY <2>6 DEF FindKey, Goto, TypeOK
    <3>2. step[w] = "key"
      BY <2>6 DEF FindKey
    <3> QED
      BY <2>1, <2>4, <3>1, <3>2 DEF BarsOK
  <2>7. CASE AssessOrder(w)
    <3>1. PICK s \in ScreenedBy(w) : assessment' = [assessment EXCEPT ![w] = Screen(s)]
      BY <2>7 DEF AssessOrder
    <3>2. step[w] = "assess" /\ settings' = settings /\ assessment'[w] = Screen(s)
      BY <2>7, <3>1 DEF AssessOrder, TypeOK
    <3>3. settings[w].killSwitch \/ settings[w].barred # NoReason
      BY <2>1, <2>4, <3>2 DEF BarsOK
    <3>4. Screen(s).status # "APPROVED"
      BY <3>3, ScreenResult, ScreenedByResult
    <3> QED
      BY <3>2, <3>3, <3>4
  <2>8. CASE PersistAssessment(w)
    <3>1. step[w] = "persist" /\ settings' = settings /\ assessment' = assessment
      BY <2>8 DEF PersistAssessment
    <3> QED
      BY <2>1, <2>4, <3>1 DEF BarsOK
  <2>9. ~Crash(w) /\ ~AnswerMessage(w) /\ ~AnswerCommand(w)
    BY ResetResult DEF Crash, AnswerMessage, AnswerCommand
  <2> QED
    BY <1>6, <2>5, <2>6, <2>7, <2>8, <2>9
    DEF StepOf, Handle, ReceiveMessage, ReceiveCommand, PublishDecision, RecordKey, SyncKillSwitch
<1>7. CASE PublishDecision(w) \/ RecordKey(w) \/ SyncKillSwitch(w)
  <2>1. step'[w] \in {"record", "respondDone"}
    BY <1>7 DEF PublishDecision, RecordKey, SyncKillSwitch, Goto, TypeOK
  <2> QED
    BY <1>2, <2>1
<1> QED
  BY <1>3, <1>4, <1>5, <1>6, <1>7
  DEF StepOf, Handle, Crash, LoadSettings, FindKey, AssessOrder, PersistAssessment,
      AnswerMessage, AnswerCommand

(* A barred order is not approved by any step.                             *)
LEMMA BarredStep ==
  ASSUME BarredInv, NEW w \in Workers, StepOf(w)
  PROVE  BarredNeverApproved'
<1> USE DEF BarredInv, FlowInv
<1>1. AskedStays /\ UNCHANGED barred /\ unscreened \subseteq unscreened'
  BY StepAsked, StepBarred
<1>2. ASSUME NEW a \in Assessments, Barred(a)
      PROVE  store'[a].status # "APPROVED" /\ published'[a]["APPROVED"] = 0
  <2>1. store[a].status # "APPROVED" /\ published[a]["APPROVED"] = 0
    BY <1>2 DEF BarredNeverApproved, Barred
  <2>2. CASE UNCHANGED <<store, published>>
    BY <2>1, <2>2
  <2>3. CASE PersistAssessment(w)
    <3>1. /\ store' = [store EXCEPT ![Identifier(w)] = assessment[w]] \/ store' = store
          /\ step[w] = "persist" /\ published' = published
      BY <2>3 DEF PersistAssessment
    <3>2. a = Identifier(w) => assessment[w].status # "APPROVED"
      BY <1>2, <3>1 DEF BarsOK, FlowOK
    <3> QED
      BY <2>1, <3>1, <3>2 DEF TypeOK
  <2>4. CASE PublishDecision(w) /\ ~UNCHANGED published
    <3>1. step[w] = "publish" /\ store' = store /\ PublishedBy(w)
      BY <2>4, PublishResult DEF PublishDecision
    <3>2. a = Identifier(w) => assessment[w].status # "APPROVED"
      BY <1>2, <3>1 DEF BarsOK, FlowOK
    <3> QED
      BY <2>1, <3>1, <3>2 DEF PublishedBy, Decisions
  <2>5. CASE SyncKillSwitch(w)
    BY <2>1, <2>5, SyncFlow DEF SyncKillSwitch
  <2> QED
    BY <2>2, <2>3, <2>4, <2>5
    DEF StepOf, Handle, ReceiveMessage, ReceiveCommand, Crash, LoadSettings, FindKey,
        AssessOrder, PublishDecision, RecordKey, AnswerMessage, AnswerCommand
<1> QED
  BY <1>1, <1>2, BarredStable DEF BarredNeverApproved, Barred

LEMMA EnvironmentBarred ==
  ASSUME BarredInv, ToggleKillSwitch \/ Subscription \/ UNCHANGED vars
  PROVE  BarredInv'
<1>1. UNCHANGED <<handlerVars, store, published, barred, asked, unscreened>>
  BY DEF ToggleKillSwitch, Subscription, vars, operatorVars, controlVars, historyVars
<1>2. FlowInv'
  BY EnvironmentFlow DEF BarredInv
<1> QED
  BY <1>1, <1>2
  DEF BarredInv, BarsOK, Barred, Identifier, ApprovedByHand, BarredNeverApproved, handlerVars

LEMMA StepBarredInv == BarredInv /\ [Next]_vars => BarredInv'
<1> SUFFICES ASSUME BarredInv, [Next]_vars PROVE BarredInv'
  OBVIOUS
<1>1. CASE \E w \in Workers : StepOf(w)
  <2>1. PICK w \in Workers : StepOf(w)
    BY <1>1
  <2>2. FlowInv'
    BY StepFlow DEF BarredInv
  <2>3. AskedStays /\ OnlyHandler(w) /\ UNCHANGED barred /\ unscreened \subseteq unscreened'
    BY <2>1, StepAsked, StepOnly, StepBarred DEF BarredInv
  <2>4. \A v \in Workers : BarsOK(v)'
    BY <2>1, <2>3, BarsStep, BarsStable DEF BarredInv, OnlyHandler
  <2> QED
    BY <2>1, <2>2, <2>4, BarredStep DEF BarredInv
<1>2. CASE ToggleKillSwitch \/ Subscription \/ UNCHANGED vars
  BY <1>2, EnvironmentBarred
<1> QED
  BY <1>1, <1>2, StepCases

(* Whatever fails: an order that a rule bars, that every handler of its    *)
(* message could read, and that nobody approves by hand is never approved, *)
(* recorded or announced.                                                  *)
THEOREM BarredStaysBarred == Spec => []BarredNeverApproved
<1>1. Init => BarredInv
  BY InitFlow
  DEF Init, BarredInv, BarsOK, BarredNeverApproved, NoAssessment, Decisions
<1>2. BarredInv /\ [Next]_vars => BarredInv'
  BY StepBarredInv
<1>3. BarredInv => BarredNeverApproved
  BY DEF BarredInv
<1> QED
  BY <1>1, <1>2, <1>3, PTL DEF Spec

---------------------------------------------------------------------------------
(***************************************************************************)
(* The second part.  Of the orders that nothing has unguarded, the         *)
(* documents and the publications implement RiskContract.                  *)
(***************************************************************************)

(* The inductive invariant, order by order.  One handler at most decides   *)
(* an order; the order is untouched until that handler has saved its       *)
(* decision, and unannounced until it has published it; and without such a *)
(* handler an order that has no key is untouched.                          *)

Decides(w, a) == Deciding(w) /\ Identifier(w) = a

OneDecides(a) == \A v, w \in Workers : Decides(v, a) /\ Decides(w, a) => v = w

Unannounced(a) == \A d \in Decisions : published[a][d] = 0

Untouched(a) == store[a].status = "NONE" /\ Unannounced(a)

KeyOK(a) == a \in keys \/ (\E w \in Workers : Decides(w, a)) \/ Untouched(a)

\* What the handler that decides an order knows of it.
WorkOK(w, a) ==
  /\ step[w] \in {"assess", "persist"} => Untouched(a)
  /\ step[w] = "publish" => store[a].status = assessment[w].status /\ Unannounced(a)

OrderInv(a) ==
  /\ OneDecides(a)
  /\ KeyOK(a)
  /\ \A w \in Workers : Decides(w, a) => WorkOK(w, a)

GuardInv == FlowInv /\ \A a \in Assessments \ unguarded : OrderInv(a)

---------------------------------------------------------------------------------
(* A step of one handler.                                                  *)

(* An order that the handler does not decide, before or after its step, and*)
(* whose document and events it leaves alone, is none of its business.     *)
LEMMA OrderKept ==
  ASSUME GuardInv, NEW w \in Workers, OnlyHandler(w), keys \subseteq keys',
         unguarded \subseteq unguarded', NEW a \in Assessments \ unguarded',
         ~Decides(w, a), ~Decides(w, a)',
         store'[a].status = store[a].status, published'[a] = published[a]
  PROVE  OrderInv(a)'
<1>1. OrderInv(a)
  BY DEF GuardInv
<1>2. Untouched(a)' = Untouched(a) /\ Unannounced(a)' = Unannounced(a)
  BY DEF Untouched, Unannounced
<1>3. ASSUME NEW v \in Workers, v # w
      PROVE  SameHandler(v) /\ (Decides(v, a)' <=> Decides(v, a))
  BY <1>3 DEF OnlyHandler, SameHandler, Decides, Deciding, Identifier
<1>4. \A v \in Workers : Decides(v, a)' <=> Decides(v, a)
  BY <1>3
<1>5. OneDecides(a)'
  BY <1>1, <1>4 DEF OrderInv, OneDecides
<1>6. KeyOK(a)'
  BY <1>1, <1>2, <1>4 DEF OrderInv, KeyOK
<1>7. ASSUME NEW v \in Workers, Decides(v, a)' PROVE WorkOK(v, a)'
  <2>1. v # w /\ Decides(v, a)
    BY <1>4, <1>7
  <2> QED
    BY <1>1, <1>2, <1>3, <2>1 DEF OrderInv, WorkOK, SameHandler
<1> QED
  BY <1>5, <1>6, <1>7 DEF OrderInv

(* A handler that decides no order, before or after its step, disturbs     *)
(* none.                                                                   *)
LEMMA Undisturbed ==
  ASSUME GuardInv, FlowInv', NEW w \in Workers, OnlyHandler(w), ~Deciding(w), ~Deciding(w)',
         keys \subseteq keys', UNCHANGED unguarded, UNCHANGED published,
         \A a \in Assessments : store'[a].status = store[a].status
  PROVE  GuardInv'
<1>1. ASSUME NEW a \in Assessments \ unguarded' PROVE OrderInv(a)'
  <2>1. ~Decides(w, a) /\ ~Decides(w, a)'
    BY DEF Decides
  <2> QED
    BY <2>1, OrderKept
<1> QED
  BY <1>1 DEF GuardInv

(* A handler that decides the order a touches no other.                    *)
LEMMA OthersKept ==
  ASSUME GuardInv, FlowInv', NEW w \in Workers, OnlyHandler(w), NEW a \in Assessments,
         Identifier(w) = a, Deciding(w)' => Identifier(w)' = a,
         keys \subseteq keys', unguarded \subseteq unguarded',
         \A b \in Assessments \ {a} :
           store'[b].status = store[b].status /\ published'[b] = published[b],
         a \notin unguarded' => OrderInv(a)'
  PROVE  GuardInv'
<1>1. ASSUME NEW b \in Assessments \ unguarded', b # a PROVE OrderInv(b)'
  <2>1. ~Decides(w, b) /\ ~Decides(w, b)'
    BY <1>1 DEF Decides
  <2> QED
    BY <1>1, <2>1, OrderKept
<1> QED
  BY <1>1 DEF GuardInv

(* The handler that goes on deciding the order a is still the only one.    *)
LEMMA OwnKept ==
  ASSUME GuardInv, NEW w \in Workers, OnlyHandler(w), NEW a \in Assessments \ unguarded,
         Decides(w, a), Decides(w, a)', WorkOK(w, a)'
  PROVE  OrderInv(a)'
<1>1. \A v \in Workers \ {w} : ~Decides(v, a)
  BY DEF GuardInv, OrderInv, OneDecides
<1>2. \A v \in Workers \ {w} : ~Decides(v, a)'
  BY <1>1 DEF OnlyHandler, SameHandler, Decides, Deciding, Identifier
<1> QED
  BY <1>2 DEF OrderInv, OneDecides, KeyOK

---------------------------------------------------------------------------------
(* What it takes to be a step of the contract.                             *)

Decision == [a \in Assessments |-> store[a].status]

StepContract == [Contract!Next]_<<Decision, published, unguarded>>

(* A step that leaves the contract's variables alone.                      *)
LEMMA StutterContract ==
  ASSUME \A a \in Assessments : store'[a].status = store[a].status,
         UNCHANGED <<published, unguarded>>
  PROVE  StepContract
  BY DEF StepContract, Decision

(* One more announcement of a, or none.                                    *)
OneMore(a) ==
  \/ UNCHANGED published
  \/ \E d \in Decisions : published' = [published EXCEPT ![a][d] = @ + 1]

(* An unguarded order may be decided anew and announced anew.              *)
LEMMA StrayContract ==
  ASSUME FlowInv, NEW a \in Assessments, unguarded' = unguarded \cup {a},
         \A b \in Assessments \ {a} : store'[b].status = store[b].status,
         store'[a].status \in Decisions \cup {store[a].status},
         OneMore(a)
  PROVE  StepContract
<1>1. \E d \in Contract!Decisions \cup {Decision[a]} : Decision' = [Decision EXCEPT ![a] = d]
  <2>1. Decision' = [Decision EXCEPT ![a] = store'[a].status]
    BY DEF Decision
  <2>2. store'[a].status \in Contract!Decisions \cup {Decision[a]}
    BY DEF Decision, Decisions, Contract!Decisions
  <2> QED
    BY <2>1, <2>2
<1>2. \E d \in Contract!Decisions, n \in {0, 1} : published' = [published EXCEPT ![a][d] = @ + n]
  <2>1. CASE UNCHANGED published
    <3>1. published \in [Assessments -> [Decisions -> Nat]]
      BY DEF FlowInv, TypeOK
    <3>2. published[a] \in [Decisions -> Nat] /\ "APPROVED" \in Decisions
      BY <3>1 DEF Decisions
    <3>3. published[a] = [published[a] EXCEPT !["APPROVED"] = published[a]["APPROVED"] + 0]
      BY <3>2
    <3>4. published = [published EXCEPT ![a] = published[a]]
      BY <3>1
    <3>5. published' = [published EXCEPT ![a]["APPROVED"] = @ + 0]
      BY <2>1, <3>3, <3>4
    <3> QED
      BY <3>5 DEF Contract!Decisions
  <2>2. CASE \E d \in Decisions : published' = [published EXCEPT ![a][d] = @ + 1]
    BY <2>2 DEF Decisions, Contract!Decisions
  <2> QED
    BY <2>1, <2>2 DEF OneMore
<1>3. Contract!Stray(a)
  BY <1>1, <1>2 DEF Contract!Stray, Decision
<1> QED
  BY <1>3 DEF StepContract, Contract!Next

(* A step that at most unguards an order.                                  *)
LEMMA UnguardContract ==
  ASSUME FlowInv, NEW w \in Workers, request[w] \in OrderRequests,
         UNCHANGED <<store, published>>,
         UNCHANGED unguarded \/ Unguard(w)
  PROVE  StepContract
<1>1. PICK a \in Assessments : a = Identifier(w)
  BY OrderIdentifier
<1>2. CASE UNCHANGED unguarded
  BY <1>2, StutterContract
<1>3. CASE Unguard(w)
  <2>1. unguarded' = unguarded \cup {a}
    BY <1>1, <1>3 DEF Unguard
  <2> QED
    BY <2>1, StrayContract DEF OneMore
<1> QED
  BY <1>2, <1>3

---------------------------------------------------------------------------------
(* Each action preserves the invariant and maps to a step of the contract. *)

LEMMA InitGuard == Init => GuardInv /\ Contract!Init
<1> SUFFICES ASSUME Init PROVE GuardInv /\ Contract!Init
  OBVIOUS
<1>1. ASSUME NEW a \in Assessments PROVE OrderInv(a)
  <2>1. \A w \in Workers : ~Decides(w, a)
    BY DEF Init, Decides, Deciding
  <2>2. Untouched(a)
    BY DEF Init, Untouched, Unannounced, NoAssessment
  <2> QED
    BY <2>1, <2>2 DEF OrderInv, OneDecides, KeyOK
<1>2. Contract!Init
  BY DEF Init, Contract!Init, Contract!Decisions, Decisions, NoAssessment
<1> QED
  BY <1>1, <1>2, InitFlow DEF GuardInv

LEMMA ReceiveGuard ==
  ASSUME GuardInv, NEW w \in Workers,
         \/ \E m \in Messages : ReceiveMessage(w, m)
         \/ \E c \in Commands : ReceiveCommand(w, c)
  PROVE  GuardInv' /\ StepContract
<1>1. /\ step[w] = "idle" /\ UNCHANGED <<store, keys, published, unguarded>>
      /\ \E r \in Requests : Goto(w, FirstStep(r))
  BY DEF ReceiveMessage, ReceiveCommand, Requests, historyVars
<1>2. step'[w] \notin {"assess", "persist", "publish", "record"}
  BY <1>1 DEF Goto, FirstStep, GuardInv, FlowInv, TypeOK
<1>3. OnlyHandler(w) /\ FlowInv'
  BY StepOnly, ReceiveMessageFlow, ReceiveCommandFlow DEF StepOf, GuardInv
<1>4. ~Deciding(w) /\ ~Deciding(w)'
  BY <1>1, <1>2 DEF Deciding
<1> QED
  BY <1>1, <1>3, <1>4, Undisturbed, StutterContract

LEMMA AnswerGuard ==
  ASSUME GuardInv, NEW w \in Workers, AnswerMessage(w) \/ AnswerCommand(w)
  PROVE  GuardInv' /\ StepContract
<1>1. /\ step[w] \in {"respondDone", "respondDuplicate", "respondInvalid"}
      /\ ResetHandler(w) /\ UNCHANGED <<store, keys, published, unguarded>>
  <2>1. CASE AnswerMessage(w)
    BY <2>1 DEF AnswerMessage, historyVars
  <2>2. CASE AnswerCommand(w)
    <3>1. PICK s \in {<<"respondDone", "success">>, <<"respondDuplicate", "conflict">>,
                      <<"respondInvalid", "invalid">>} : step[w] = s[1]
      BY <2>2 DEF AnswerCommand
    <3> QED
      BY <2>2, <3>1 DEF AnswerCommand, historyVars
  <2> QED
    BY <2>1, <2>2
<1>2. step'[w] = "idle" /\ OnlyHandler(w)
  BY <1>1, ResetResult DEF GuardInv, FlowInv
<1>3. FlowInv'
  BY AnswerMessageFlow, AnswerCommandFlow DEF GuardInv
<1>4. ~Deciding(w) /\ ~Deciding(w)'
  BY <1>1, <1>2 DEF Deciding
<1> QED
  BY <1>1, <1>2, <1>3, <1>4, Undisturbed, StutterContract

LEMMA LoadGuard ==
  ASSUME GuardInv, NEW w \in Workers, LoadSettings(w)
  PROVE  GuardInv' /\ StepContract
<1>1. /\ step[w] = "load" /\ step'[w] = "key"
      /\ UNCHANGED <<store, keys, published, unguarded>>
  BY DEF LoadSettings, Goto, GuardInv, FlowInv, TypeOK
<1>2. OnlyHandler(w) /\ FlowInv'
  BY StepOnly, LoadSettingsFlow DEF StepOf, Handle, GuardInv
<1>3. ~Deciding(w) /\ ~Deciding(w)'
  BY <1>1 DEF Deciding
<1> QED
  BY <1>1, <1>2, <1>3, Undisturbed, StutterContract

LEMMA SyncGuard ==
  ASSUME GuardInv, NEW w \in Workers, SyncKillSwitch(w)
  PROVE  GuardInv' /\ StepContract
<1>1. step[w] = "sync" /\ UNCHANGED <<request, keys, published, unguarded>>
  BY DEF SyncKillSwitch, historyVars
<1>2. OnlyHandler(w) /\ FlowInv'
  BY StepOnly, SyncFlow DEF StepOf, Handle, GuardInv
<1>3. \A a \in Assessments : store'[a].status = store[a].status
  BY SyncFlow DEF GuardInv
<1>4. ~Deciding(w) /\ ~Deciding(w)'
  BY <1>1 DEF Deciding, OrderRequests, GuardInv, FlowInv, FlowOK
<1> QED
  BY <1>1, <1>2, <1>3, <1>4, Undisturbed, StutterContract

(* Without a key, and without another handler that decides it, an order is *)
(* untouched.                                                              *)
LEMMA FindKeyGuard ==
  ASSUME GuardInv, NEW w \in Workers, FindKey(w)
  PROVE  GuardInv' /\ StepContract
<1> USE DEF GuardInv
<1>1. step[w] = "key" /\ UNCHANGED <<request, assessment, store, keys, published>>
  BY DEF FindKey
<1>2. OnlyHandler(w) /\ FlowInv'
  BY StepOnly, FindKeyFlow DEF StepOf, Handle
<1>3. CASE step'[w] \in {"respondDuplicate", "sync"} /\ UNCHANGED historyVars
  <2>1. ~Deciding(w) /\ ~Deciding(w)'
    BY <1>1, <1>3 DEF Deciding
  <2> QED
    BY <1>1, <1>2, <1>3, <2>1, Undisturbed, StutterContract DEF historyVars
<1>4. CASE /\ step'[w] = "assess" /\ request[w] \notin KillSwitchMessages
           /\ IF Contested(w) \/ Identifier(w) \in keys
              THEN Unguard(w) ELSE UNCHANGED historyVars
  <2>1. request[w] \in OrderRequests
    BY <1>1, <1>4, RiskAssumption DEF FlowInv, FlowOK, OrderRequests
  <2>2. PICK a \in Assessments : a = Identifier(w)
    BY <2>1, OrderIdentifier
  <2>3. unguarded' \in {unguarded, unguarded \cup {a}}
    BY <1>4, <2>2 DEF Unguard, historyVars
  <2>4. Identifier(w)' = a
    BY <1>1, <2>2 DEF Identifier
  <2>5. ASSUME a \notin unguarded' PROVE OrderInv(a)'
    <3>1. a \notin unguarded /\ OrderInv(a)
      BY <2>3, <2>5
    <3>2. ~Contested(w) /\ a \notin keys
      BY <1>4, <2>2, <2>5 DEF Unguard
    <3>3. \A v \in Workers \ {w} : ~Decides(v, a)
      BY <2>2, <3>2 DEF Contested, Decides
    <3>4. ~Decides(w, a)
      BY <1>1 DEF Decides, Deciding
    <3>5. Untouched(a)
      BY <3>1, <3>2, <3>3, <3>4 DEF OrderInv, KeyOK
    <3>6. \A v \in Workers \ {w} : ~Decides(v, a)'
      BY <1>2, <3>3 DEF OnlyHandler, SameHandler, Decides, Deciding, Identifier
    <3>7. Untouched(a)'
      BY <1>1, <3>5 DEF Untouched, Unannounced
    <3>8. WorkOK(w, a)'
      BY <1>4, <3>7 DEF WorkOK
    <3> QED
      BY <3>6, <3>7, <3>8 DEF OrderInv, OneDecides, KeyOK
  <2>6. GuardInv'
    BY <1>1, <1>2, <2>2, <2>3, <2>4, <2>5, OthersKept
  <2>7. UNCHANGED unguarded \/ Unguard(w)
    BY <1>4 DEF historyVars
  <2> QED
    BY <1>1, <2>1, <2>6, <2>7, UnguardContract
<1> QED
  BY <1>3, <1>4 DEF FindKey, Goto, FlowInv, TypeOK

(* What the steps of the handler that decides an order have in common.     *)
LEMMA DecidingWork ==
  ASSUME GuardInv, NEW w \in Workers, step[w] \in {"assess", "persist", "publish"}
  PROVE  /\ Deciding(w) /\ request[w] \in OrderRequests /\ Identifier(w) \in Assessments
         /\ Decides(w, Identifier(w))
         /\ Identifier(w) \notin unguarded => WorkOK(w, Identifier(w))
<1>1. request[w] \in OrderRequests
  BY DEF GuardInv, FlowInv, FlowOK
<1>2. Identifier(w) \in Assessments
  BY <1>1, OrderIdentifier
<1> QED
  BY <1>1, <1>2 DEF Deciding, Decides, GuardInv, OrderInv

LEMMA AssessGuard ==
  ASSUME GuardInv, NEW w \in Workers, AssessOrder(w)
  PROVE  GuardInv' /\ StepContract
<1>1. /\ step[w] = "assess" /\ step'[w] = "persist"
      /\ UNCHANGED <<request, store, keys, published, unguarded>>
  BY DEF AssessOrder, Goto, GuardInv, FlowInv, TypeOK, historyVars
<1>2. OnlyHandler(w) /\ FlowInv'
  BY StepOnly, AssessOrderFlow DEF StepOf, Handle, GuardInv
<1>3. PICK a \in Assessments : a = Identifier(w)
  BY <1>1, DecidingWork
<1>4. Decides(w, a) /\ Decides(w, a)' /\ Identifier(w)' = a
  BY <1>1, <1>3, DecidingWork DEF Decides, Deciding, Identifier
<1>5. ASSUME a \notin unguarded' PROVE OrderInv(a)'
  <2>1. WorkOK(w, a)
    BY <1>1, <1>3, <1>5, DecidingWork
  <2>2. WorkOK(w, a)'
    BY <1>1, <2>1 DEF WorkOK, Untouched, Unannounced
  <2> QED
    BY <1>1, <1>2, <1>4, <1>5, <2>2, OwnKept
<1> QED
  BY <1>1, <1>2, <1>3, <1>4, <1>5, OthersKept, StutterContract

(* The decision is saved on an untouched order: the contract decides.      *)
LEMMA PersistGuard ==
  ASSUME GuardInv, NEW w \in Workers, PersistAssessment(w)
  PROVE  GuardInv' /\ StepContract
<1>1. /\ step[w] = "persist" /\ step'[w] = "publish"
      /\ UNCHANGED <<request, assessment, keys, published>>
      /\ \/ store' = [store EXCEPT ![Identifier(w)] = assessment[w]] /\ UNCHANGED historyVars
         \/ Unguard(w) /\ UNCHANGED store
  BY DEF PersistAssessment, Goto, GuardInv, FlowInv, TypeOK
<1>2. OnlyHandler(w) /\ FlowInv'
  BY StepOnly, PersistFlow DEF StepOf, Handle, GuardInv
<1>3. PICK a \in Assessments : a = Identifier(w)
  BY <1>1, DecidingWork
<1>4. /\ Decides(w, a) /\ Decides(w, a)' /\ Identifier(w)' = a
      /\ request[w] \in OrderRequests
  BY <1>1, <1>3, DecidingWork DEF Decides, Deciding, Identifier
<1>5. assessment[w].status \in Decisions
  BY <1>1 DEF GuardInv, FlowInv, FlowOK
<1>6. CASE store' = [store EXCEPT ![a] = assessment[w]] /\ UNCHANGED historyVars
  <2>1. /\ store'[a].status = assessment[w].status
        /\ \A b \in Assessments \ {a} : store'[b].status = store[b].status
        /\ UNCHANGED unguarded
    BY <1>6 DEF GuardInv, FlowInv, TypeOK, historyVars
  <2>2. CASE a \in unguarded
    <3>1. unguarded' = unguarded \cup {a}
      BY <2>1, <2>2
    <3>2. StepContract
      BY <1>1, <1>5, <2>1, <3>1, StrayContract DEF OneMore, GuardInv
    <3> QED
      BY <1>1, <1>2, <1>3, <1>4, <2>1, <2>2, <3>2, OthersKept
  <2>3. CASE a \notin unguarded
    <3>1. Untouched(a)
      BY <1>1, <1>3, <2>3, DecidingWork DEF WorkOK
    <3>2. WorkOK(w, a)'
      BY <1>1, <2>1, <3>1 DEF WorkOK, Untouched, Unannounced
    <3>3. OrderInv(a)'
      BY <1>2, <1>4, <2>3, <3>2, OwnKept
    <3>4. Decision[a] = "NONE" /\ Decision' = [Decision EXCEPT ![a] = assessment[w].status]
      BY <2>1, <3>1 DEF Decision, Untouched
    <3>5. Contract!Decide(a)
      BY <1>1, <1>5, <2>1, <3>4 DEF Contract!Decide, Contract!Decisions, Decisions, Decision
    <3>6. StepContract
      BY <3>5 DEF StepContract, Contract!Next
    <3> QED
      BY <1>1, <1>2, <1>3, <1>4, <2>1, <3>3, <3>6, OthersKept
  <2> QED
    BY <2>2, <2>3
<1>7. CASE Unguard(w) /\ UNCHANGED store
  <2>1. unguarded' = unguarded \cup {a}
    BY <1>3, <1>7 DEF Unguard
  <2>2. StepContract
    BY <1>1, <1>4, <1>7, UnguardContract DEF GuardInv
  <2> QED
    BY <1>1, <1>2, <1>3, <1>4, <1>7, <2>1, <2>2, OthersKept
<1> QED
  BY <1>1, <1>3, <1>6, <1>7

(* The decision is published as it was saved: the contract announces it.   *)
LEMMA PublishGuard ==
  ASSUME GuardInv, NEW w \in Workers, PublishDecision(w)
  PROVE  GuardInv' /\ StepContract
<1>1. /\ step[w] = "publish" /\ step'[w] = "record"
      /\ UNCHANGED <<request, assessment, keys, store, unguarded>>
  BY DEF PublishDecision, Goto, GuardInv, FlowInv, TypeOK
<1>2. OnlyHandler(w) /\ FlowInv'
  BY StepOnly, PublishFlow DEF StepOf, Handle, GuardInv
<1>3. PICK a \in Assessments : a = Identifier(w)
  BY <1>1, DecidingWork
<1>4. Decides(w, a) /\ Decides(w, a)' /\ Identifier(w)' = a
  BY <1>1, <1>3, DecidingWork DEF Decides, Deciding, Identifier
<1>5. PICK d \in Decisions : d = assessment[w].status
  BY <1>1 DEF GuardInv, FlowInv, FlowOK
<1>6. published \in [Assessments -> [Decisions -> Nat]]
  BY DEF GuardInv, FlowInv, TypeOK
<1>7. /\ OneMore(a)
      /\ \A b \in Assessments \ {a} : published'[b] = published[b]
  BY <1>3, <1>5, <1>6 DEF PublishDecision, OneMore
<1>8. ASSUME a \notin unguarded' PROVE OrderInv(a)'
  <2>1. WorkOK(w, a)'
    BY <1>1 DEF WorkOK
  <2> QED
    BY <1>1, <1>2, <1>4, <1>8, <2>1, OwnKept
<1>9. GuardInv'
  BY <1>1, <1>2, <1>3, <1>4, <1>7, <1>8, OthersKept
<1>10. StepContract
  <2>1. CASE UNCHANGED published
    BY <1>1, <2>1, StutterContract
  <2>2. CASE a \in unguarded
    <3>1. unguarded' = unguarded \cup {a}
      BY <1>1, <2>2
    <3> QED
      BY <1>1, <1>7, <3>1, StrayContract DEF GuardInv
  <2>3. CASE a \notin unguarded /\ published' = [published EXCEPT ![a][d] = @ + 1]
    <3>1. store[a].status = d /\ Unannounced(a)
      BY <1>1, <1>3, <1>5, <2>3, DecidingWork DEF WorkOK
    <3>2. published[a][d] + 1 = 1
      BY <3>1 DEF Unannounced
    <3>3. published' = [published EXCEPT ![a] = [published[a] EXCEPT ![d] = 1]]
      BY <2>3, <3>2
    <3>4. Decision[a] = d /\ d # "NONE" /\ Decision' = Decision
      BY <1>1, <3>1 DEF Decision, Decisions
    <3>5. published' = [published EXCEPT ![a][Decision[a]] = 1]
      BY <3>3, <3>4
    <3>6. \A e \in Contract!Decisions : published[a][e] = 0
      BY <3>1 DEF Unannounced, Contract!Decisions, Decisions
    <3>7. Contract!Announce(a)
      BY <1>1, <3>4, <3>5, <3>6 DEF Contract!Announce, Decision
    <3> QED
      BY <3>7 DEF StepContract, Contract!Next
  <2> QED
    BY <1>3, <1>5, <2>1, <2>2, <2>3 DEF PublishDecision
<1> QED
  BY <1>9, <1>10

(* The key is written, or is not and the order unguarded.                  *)
LEMMA RecordGuard ==
  ASSUME GuardInv, NEW w \in Workers, RecordKey(w)
  PROVE  GuardInv' /\ StepContract
<1>1. /\ step[w] = "record" /\ step'[w] = "respondDone"
      /\ UNCHANGED <<request, store, published>>
      /\ \/ keys' = keys \cup {Identifier(w)} /\ UNCHANGED historyVars
         \/ /\ UNCHANGED keys
            /\ IF Deciding(w) THEN Unguard(w) ELSE UNCHANGED historyVars
  BY DEF RecordKey, Goto, GuardInv, FlowInv, TypeOK
<1>2. OnlyHandler(w) /\ FlowInv'
  BY StepOnly, RecordKeyFlow DEF StepOf, Handle, GuardInv
<1>3. ~Deciding(w)'
  BY <1>1 DEF Deciding
<1>4. CASE ~Deciding(w)
  BY <1>1, <1>2, <1>3, <1>4, Undisturbed, StutterContract DEF historyVars
<1>5. CASE Deciding(w)
  <2>1. PICK a \in Assessments : a = Identifier(w)
    BY <1>5, OrderIdentifier DEF Deciding
  <2>2. unguarded' \in {unguarded, unguarded \cup {a}}
    BY <1>1, <2>1 DEF Unguard, historyVars
  <2>3. ASSUME a \notin unguarded' PROVE OrderInv(a)'
    <3>1. OrderInv(a) /\ a \in keys'
      BY <1>1, <1>5, <2>1, <2>2, <2>3 DEF GuardInv, Unguard
    <3>2. \A v \in Workers \ {w} : ~Decides(v, a)
      BY <1>5, <2>1, <3>1 DEF OrderInv, OneDecides, Decides
    <3>3. \A v \in Workers : ~Decides(v, a)'
      BY <1>2, <1>3, <3>2 DEF OnlyHandler, SameHandler, Decides, Deciding, Identifier
    <3> QED
      BY <3>1, <3>3 DEF OrderInv, OneDecides, KeyOK
  <2>4. GuardInv'
    BY <1>1, <1>2, <1>3, <2>1, <2>2, <2>3, OthersKept
  <2>5. StepContract
    BY <1>1, <1>5, UnguardContract DEF GuardInv, Deciding, historyVars
  <2> QED
    BY <2>4, <2>5
<1> QED
  BY <1>4, <1>5

(* A handler that dies leaves an untouched order, or unguards it.          *)
LEMMA CrashGuard ==
  ASSUME GuardInv, NEW w \in Workers, Crash(w)
  PROVE  GuardInv' /\ StepContract
<1>1. /\ ResetHandler(w) /\ UNCHANGED <<store, keys, published>>
      /\ IF Deciding(w) /\ step[w] \in {"publish", "record"}
         THEN Unguard(w) ELSE UNCHANGED historyVars
  BY DEF Crash
<1>2. OnlyHandler(w) /\ step'[w] = "idle" /\ FlowInv'
  BY <1>1, ResetResult, CrashFlow DEF GuardInv, FlowInv
<1>3. ~Deciding(w)'
  BY <1>2 DEF Deciding
<1>4. CASE ~Deciding(w)
  BY <1>1, <1>2, <1>3, <1>4, Undisturbed, StutterContract DEF historyVars
<1>5. CASE Deciding(w)
  <2>1. PICK a \in Assessments : a = Identifier(w)
    BY <1>5, OrderIdentifier DEF Deciding
  <2>2. unguarded' \in {unguarded, unguarded \cup {a}}
    BY <1>1, <2>1 DEF Unguard, historyVars
  <2>3. ASSUME a \notin unguarded' PROVE OrderInv(a)'
    <3>1. OrderInv(a) /\ step[w] \in {"assess", "persist"}
      BY <1>1, <1>5, <2>1, <2>2, <2>3 DEF GuardInv, Unguard, Deciding
    <3>2. \A v \in Workers \ {w} : ~Decides(v, a)
      BY <1>5, <2>1, <3>1 DEF OrderInv, OneDecides, Decides
    <3>3. \A v \in Workers : ~Decides(v, a)'
      BY <1>2, <1>3, <3>2 DEF OnlyHandler, SameHandler, Decides, Deciding, Identifier
    <3>4. Untouched(a)'
      BY <1>1, <1>5, <2>1, <3>1 DEF OrderInv, WorkOK, Decides, Untouched, Unannounced
    <3> QED
      BY <3>3, <3>4 DEF OrderInv, OneDecides, KeyOK
  <2>4. GuardInv'
    BY <1>1, <1>2, <1>3, <2>1, <2>2, <2>3, OthersKept
  <2>5. StepContract
    BY <1>1, <1>5, UnguardContract DEF GuardInv, Deciding, historyVars
  <2> QED
    BY <2>4, <2>5
<1> QED
  BY <1>4, <1>5

LEMMA EnvironmentGuard ==
  ASSUME GuardInv, ToggleKillSwitch \/ Subscription \/ UNCHANGED vars
  PROVE  GuardInv' /\ StepContract
<1>1. UNCHANGED <<step, request, assessment, store, keys, published, unguarded>>
  BY DEF ToggleKillSwitch, Subscription, vars, handlerVars, historyVars
<1>2. ASSUME NEW a \in Assessments, OrderInv(a) PROVE OrderInv(a)'
  <2>1. \A w \in Workers : Decides(w, a)' <=> Decides(w, a)
    BY <1>1 DEF Decides, Deciding, Identifier
  <2>2. \A w \in Workers : WorkOK(w, a)' <=> WorkOK(w, a)
    BY <1>1 DEF WorkOK, Untouched, Unannounced
  <2>3. Untouched(a)' <=> Untouched(a)
    BY <1>1 DEF Untouched, Unannounced
  <2> QED
    BY <1>1, <1>2, <2>1, <2>2, <2>3 DEF OrderInv, OneDecides, KeyOK
<1> QED
  BY <1>1, <1>2, EnvironmentFlow, StutterContract DEF GuardInv

LEMMA NextGuard ==
  ASSUME GuardInv, [Next]_vars
  PROVE  GuardInv' /\ StepContract
<1>1. ASSUME NEW w \in Workers, StepOf(w) PROVE GuardInv' /\ StepContract
  BY <1>1, ReceiveGuard, AnswerGuard, LoadGuard, FindKeyGuard, AssessGuard, PersistGuard,
     PublishGuard, RecordGuard, SyncGuard, CrashGuard
  DEF StepOf, Handle
<1> QED
  BY <1>1, StepCases, EnvironmentGuard

(* Whatever fails: at most one handler decides an order that nothing has   *)
(* unguarded, on an order that is untouched until it saves its decision.   *)
THEOREM GuardInvariant == Spec => []GuardInv
<1>1. Init => GuardInv
  BY InitGuard
<1>2. GuardInv /\ [Next]_vars => GuardInv'
  BY NextGuard
<1> QED
  BY <1>1, <1>2, PTL DEF Spec

(* Whatever fails: an order is decided once, the decision stands, and it   *)
(* is announced at most once, as it was decided; an order that strays from *)
(* that has been decided by two handlers at a time, or its key was not     *)
(* read, or its document or key was not written.                           *)
THEOREM ImplementsContract == Spec => ContractSpec
<1>1. Init => Contract!Init
  BY InitGuard
<1>2. GuardInv /\ [Next]_vars =>
        [Contract!Next]_<<[a \in Assessments |-> store[a].status], published, unguarded>>
  BY NextGuard DEF StepContract, Decision
<1> QED
  BY <1>1, <1>2, GuardInvariant, PTL DEF Spec, ContractSpec, Contract!Spec

---------------------------------------------------------------------------------
(***************************************************************************)
(* The third part.  Where no fault of four kinds happens, and one request  *)
(* at most is made about an order, nothing is ever unguarded: the history  *)
(* names nothing but what a fault or a second request has done.            *)
(***************************************************************************)

Calm ==
  /\ Faults \cap {"crash", "overlap", "readError", "persistLost"} = {}
  /\ \A r, s \in OrderRequests \cap WellFormed : IdentifierOf[r] = IdentifierOf[s] => r = s

\* No two handlers work on one request, and nobody has answered it.
HandlersApart ==
  /\ \A w \in Workers : request[w] \in Messages => sub[request[w]] = "outstanding"
  /\ \A w \in Workers : request[w] \in Commands => reply[request[w]] = "pending"
  /\ \A v, w \in Workers : request[v] = request[w] /\ request[w] # NoRequest => v = w

CalmInv == FlowInv /\ HandlersApart /\ unguarded = {}

(* Nobody else decides the order, whose key has been looked up.            *)
LEMMA Uncontested ==
  ASSUME Calm, CalmInv, NEW w \in Workers, step[w] = "key", request[w] \notin KillSwitchMessages
  PROVE  ~Contested(w)
<1>1. request[w] \in OrderRequests \cap WellFormed
  BY DEF CalmInv, FlowInv, FlowOK, TypeOK, OrderRequests
<1>2. ASSUME NEW v \in Workers \ {w}, Deciding(v), Identifier(v) = Identifier(w) PROVE FALSE
  <2>1. request[v] \in OrderRequests \cap WellFormed
    BY <1>2 DEF CalmInv, FlowInv, FlowOK, Deciding
  <2>2. request[v] = request[w] /\ request[w] # NoRequest
    BY <1>1, <1>2, <2>1, RiskAssumption DEF Calm, Identifier, OrderRequests, Requests
  <2> QED
    BY <1>2, <2>2 DEF CalmInv, HandlersApart
<1> QED
  BY <1>2 DEF Contested

(* A step that neither takes up nor answers a request.                     *)
LEMMA ApartWithin ==
  ASSUME HandlersApart, UNCHANGED <<request, sub, reply>>
  PROVE  HandlersApart'
  BY DEF HandlersApart

(* A handler that has answered leaves the others apart.                    *)
LEMMA ApartWhenReset ==
  ASSUME TypeOK, HandlersApart, NEW w \in Workers, ResetHandler(w),
         \A m \in Messages : m # request[w] => sub'[m] = sub[m],
         \A c \in Commands : c # request[w] => reply'[c] = reply[c]
  PROVE  HandlersApart'
<1>1. /\ request'[w] = NoRequest
      /\ \A v \in Workers \ {w} : request'[v] = request[v]
  BY DEF TypeOK, ResetHandler
<1>2. NoRequest \notin Messages /\ NoRequest \notin Commands
  BY RiskAssumption DEF Requests
<1>3. ASSUME NEW v \in Workers, request'[v] # NoRequest
      PROVE  v # w /\ request'[v] = request[v] /\ request[v] # request[w]
  BY <1>1, <1>3 DEF HandlersApart
<1>4. ASSUME NEW v \in Workers, request'[v] \in Messages
      PROVE  sub'[request'[v]] = "outstanding"
  BY <1>2, <1>3, <1>4 DEF HandlersApart
<1>5. ASSUME NEW v \in Workers, request'[v] \in Commands
      PROVE  reply'[request'[v]] = "pending"
  BY <1>2, <1>3, <1>5 DEF HandlersApart
<1>6. ASSUME NEW u \in Workers, NEW v \in Workers,
             request'[u] = request'[v], request'[v] # NoRequest
      PROVE  u = v
  BY <1>3, <1>6 DEF HandlersApart
<1> QED
  BY <1>4, <1>5, <1>6 DEF HandlersApart

LEMMA CalmByHandler ==
  ASSUME Calm, CalmInv, FlowInv', NEW w \in Workers, StepOf(w)
  PROVE  CalmInv'
<1> USE DEF CalmInv, FlowInv
<1>1. ASSUME NEW m \in Messages, ReceiveMessage(w, m) PROVE CalmInv'
  <2>1. /\ sub[m] = "queued" /\ sub' = [sub EXCEPT ![m] = "outstanding"]
        /\ request' = [request EXCEPT ![w] = m]
        /\ UNCHANGED <<reply, historyVars>>
    BY <1>1 DEF ReceiveMessage, Push, operatorVars
  <2>2. HandlersApart'
    BY <2>1, RiskAssumption DEF HandlersApart, TypeOK, DeliveryTypeOK, Requests
  <2> QED
    BY <2>1, <2>2 DEF historyVars
<1>2. ASSUME NEW c \in Commands, ReceiveCommand(w, c) PROVE CalmInv'
  <2>1. /\ reply[c] = "unsent" /\ reply' = [reply EXCEPT ![c] = "pending"]
        /\ request' = [request EXCEPT ![w] = c]
        /\ UNCHANGED <<sub, historyVars>>
    BY <1>2 DEF ReceiveCommand, deliveryVars
  <2>2. HandlersApart'
    BY <2>1, RiskAssumption DEF HandlersApart, TypeOK, Requests
  <2> QED
    BY <2>1, <2>2 DEF historyVars
<1>3. ASSUME FindKey(w) PROVE CalmInv'
  <2>1. PICK found \in KeyFound(w) :
          \/ UNCHANGED historyVars
          \/ /\ ~found /\ request[w] \notin KillSwitchMessages
             /\ Contested(w) \/ Identifier(w) \in keys
    BY <1>3 DEF FindKey
  <2>2. found = (Identifier(w) \in keys)
    BY DEF KeyFound, ReadFails, Calm
  <2>3. UNCHANGED <<historyVars, request, sub, reply>>
    BY <1>3, <2>1, <2>2, Uncontested DEF FindKey, deliveryVars, operatorVars
  <2> QED
    BY <2>3, ApartWithin DEF historyVars
<1>4. ASSUME LoadSettings(w) \/ AssessOrder(w) \/ PersistAssessment(w) \/ PublishDecision(w)
             \/ RecordKey(w) \/ SyncKillSwitch(w)
      PROVE  CalmInv'
  <2>1. UNCHANGED <<request, sub, reply, unguarded>>
    BY <1>4 DEF LoadSettings, AssessOrder, PersistAssessment, PublishDecision, RecordKey,
       SyncKillSwitch, Calm, WriteFails, deliveryVars, operatorVars, historyVars
  <2> QED
    BY <2>1, ApartWithin
<1>5. ASSUME AnswerMessage(w) PROVE CalmInv'
  <2>1. /\ held[w] = request[w]
        /\ sub' = [sub EXCEPT ![held[w]] = IF Current(w) THEN "acked" ELSE @]
        /\ ResetHandler(w)
        /\ UNCHANGED <<reply, historyVars>>
    BY <1>5 DEF AnswerMessage, Ack, operatorVars, TypeOK
  <2>2. HandlersApart'
    BY <2>1, ApartWhenReset DEF TypeOK, DeliveryTypeOK
  <2> QED
    BY <2>1, <2>2 DEF historyVars
<1>6. ASSUME AnswerCommand(w) PROVE CalmInv'
  <2>1. /\ \A c \in Commands : c # request[w] => reply'[c] = reply[c]
        /\ ResetHandler(w)
        /\ UNCHANGED <<sub, historyVars>>
    BY <1>6 DEF AnswerCommand, deliveryVars, TypeOK
  <2>2. HandlersApart'
    BY <2>1, ApartWhenReset
  <2> QED
    BY <2>1, <2>2 DEF historyVars
<1>7. ~Crash(w)
  BY DEF Crash, Calm
<1> QED
  BY <1>1, <1>2, <1>3, <1>4, <1>5, <1>6, <1>7 DEF StepOf, Handle

LEMMA CalmStep ==
  ASSUME Calm, CalmInv, [Next]_vars
  PROVE  CalmInv'
<1>1. FlowInv'
  BY StepFlow DEF CalmInv
<1>2. CASE ToggleKillSwitch \/ UNCHANGED vars
  <2>1. UNCHANGED <<request, sub, reply, unguarded>>
    BY <1>2 DEF ToggleKillSwitch, vars, deliveryVars, handlerVars, operatorVars, historyVars
  <2> QED
    BY <1>1, <2>1, ApartWithin DEF CalmInv
<1>3. CASE Subscription
  <2>1. PICK m \in Messages : Redeliver(m)
    BY <1>3 DEF Subscription, Expire, Calm
  <2>2. /\ sub[m] = "acked" /\ sub' = [sub EXCEPT ![m] = "queued"]
        /\ UNCHANGED <<request, reply, unguarded>>
    BY <1>3, <2>1 DEF Redeliver, Subscription, handlerVars, operatorVars, historyVars
  <2>3. HandlersApart'
    BY <2>2 DEF CalmInv, FlowInv, HandlersApart, TypeOK, DeliveryTypeOK
  <2> QED
    BY <1>1, <2>2, <2>3 DEF CalmInv
<1> QED
  BY <1>1, <1>2, <1>3, StepCases, CalmByHandler

(* Redeliveries, lost publications, kill switch changes and rules that     *)
(* cannot be read never have a decision made again (INV-RG-002): what the  *)
(* design asks of every order then holds of every order.                   *)
THEOREM DecisionIsFinalWhenCalm ==
  ASSUME Calm
  PROVE  Spec => DecisionIsFinal
<1>1. Init => CalmInv
  BY InitFlow, RiskAssumption DEF Init, DeliveryInit, CalmInv, HandlersApart, Requests
<1>2. CalmInv /\ [Next]_vars => CalmInv'
  BY CalmStep
<1>3. ASSUME GuardInv, CalmInv, CalmInv', [Next]_vars
      PROVE  [\A a \in Assessments : store[a].status \in Decisions =>
                store'[a].status = store[a].status]_vars
  <2>1. StepContract
    BY <1>3, NextGuard
  <2>2. ASSUME NEW a \in Assessments, store[a].status \in Decisions
        PROVE  store'[a].status = store[a].status
    <3>1. Decision[a] \in Decisions /\ "NONE" \notin Decisions
      BY <2>2 DEF Decision, Decisions
    <3>2. ASSUME NEW o \in Assessments, Contract!Stray(o) PROVE FALSE
      BY <1>3, <3>2 DEF CalmInv, Contract!Stray
    <3>3. Decision'[a] = Decision[a]
      BY <2>1, <2>2, <3>1, <3>2
      DEF StepContract, Contract!Next, Contract!Decide, Contract!Announce, Decision
    <3> QED
      BY <3>3 DEF Decision
  <2> QED
    BY <2>2
<1> QED
  BY <1>1, <1>2, <1>3, GuardInvariant, PTL DEF Spec, DecisionIsFinal

=================================================================================
