----------------------------- MODULE RiskAssessment -----------------------------
(***************************************************************************)
(* The risk-guard service: the push handlers of orders.proposed and        *)
(* operation.kill_switch.changed and the internal approve and reject       *)
(* commands (UseCase/CheckOrderRisk.hs, UseCase/SyncKillSwitch.hs,         *)
(* Presentation/Api.hs), one action per input/output step.                 *)
(*                                                                         *)
(* A handler of an order walks through                                     *)
(*   load -> key -> assess -> persist -> publish -> record -> respond      *)
(* and a handler of the kill switch through  key -> sync -> record ->      *)
(* respond.  No outcome of either is retryable, so every push is answered  *)
(* 200.  The settings documents, written by the BFF, are external.         *)
(***************************************************************************)
EXTENDS PushDelivery

CONSTANTS
  Identifiers,  \* event and order identifiers
  Assessments,  \* those of orders.proposed events, which identify assessments
  Commands,     \* the approve and reject requests an operator makes
  KillSwitchMessages,  \* the messages that announce a kill switch change
  WellFormed,   \* the messages and commands whose request can be decoded
  IdentifierOf, \* IdentifierOf[r]: the assessment, or event, r is about
  ComplianceCodes, \* the compliance rules that may be in force
  MaxToggles,   \* how often the operator changes the kill switch
  NoReason,     \* no reason code
  NoRequest     \* what an idle handler works on

Requests == Messages \cup Commands

\* The requests that are about an order.
OrderRequests == Requests \ KillSwitchMessages

ReasonCodes == {"KILL_SWITCH_ENABLED", "RISK_LIMIT_EXCEEDED"} \cup ComplianceCodes

ASSUME RiskAssumption ==
  /\ Messages \cap Commands = {}
  /\ NoRequest \notin Requests
  /\ KillSwitchMessages \subseteq Messages
  /\ WellFormed \subseteq Requests
  /\ Assessments \subseteq Identifiers
  /\ IdentifierOf \in [Requests -> Identifiers]
  /\ \A r \in OrderRequests : IdentifierOf[r] \in Assessments
  /\ \A m \in KillSwitchMessages : IdentifierOf[m] \notin Assessments
  /\ ComplianceCodes \subseteq {"COMPLIANCE_RESTRICTED_SYMBOL", "COMPLIANCE_BLACKOUT_ACTIVE"}
  /\ MaxToggles \in Nat
  /\ NoReason \notin ReasonCodes

VARIABLES
  step,        \* step[w]: where the handler w is
  request,     \* request[w]: the message or command it handles
  settings,    \* settings[w]: the settings it loaded
  assessment,  \* assessment[w]: the OrderRiskAssessment it evaluated
  store,       \* store[a]: the risk_assessments document of a
  keys,        \* the identifiers with a processed idempotency key
  published,   \* published[a][d]: how often decision d on a was published
  killSwitch,  \* operations/runtime, killSwitchEnabled (external)
  toggles,     \* how often it was changed
  barred,      \* barred[a]: the rule of compliance_controls/trading, if any,
               \* against the order (external)
  asked,       \* asked[c]: what the operator asks for, approve or reject
  reply,       \* reply[c]: what the operator was answered
  unguarded,   \* history: assessments whose key may not tell that they are decided
  untold,      \* history: assessments of which a publication was lost
  unscreened   \* history: assessments whose compliance rule was not read

handlerVars == <<step, request, settings, assessment>>
controlVars == <<killSwitch, toggles, barred>>
operatorVars == <<asked, reply>>
historyVars == <<unguarded, untold, unscreened>>
vars ==
  <<deliveryVars, handlerVars, store, keys, published, controlVars, operatorVars, historyVars>>

---------------------------------------------------------------------------------
(* The aggregate, its document and the screening policy.                   *)

\* No document, and what an idle handler holds.
NoAssessment == [status |-> "NONE", reasonCode |-> NoReason]

(* What a handler screens an order by: the kill switch, whether the limits *)
(* leave room for an order (the exposure loaded is always zero), and the   *)
(* compliance rule that applies.                                           *)
NoSettings == [killSwitch |-> TRUE, limits |-> FALSE, barred |-> NoReason]

\* Mutant: the placeholder leaves room for an order.
PlaceholderWithRoom == [killSwitch |-> FALSE, limits |-> TRUE, barred |-> NoReason]

(* documentToAssessment: only the identifiers survive in the document; the *)
(* aggregate is PROPOSED again, under an open switch and zero limits.      *)
PlaceholderSettings == [killSwitch |-> FALSE, limits |-> FALSE, barred |-> NoReason]

Rejected(code) == [status |-> "REJECTED", reasonCode |-> code]
Approved == [status |-> "APPROVED", reasonCode |-> NoReason]

\* Mutant: the compliance rules are not consulted.
ScreenNoCompliance(s) ==
  IF s.killSwitch THEN Rejected("KILL_SWITCH_ENABLED")
  ELSE IF ~s.limits THEN Rejected("RISK_LIMIT_EXCEEDED")
  ELSE Approved

\* evaluateOrderRisk of a PROPOSED aggregate, by the rules of screenOrder.
Screen(s) ==
  IF s.killSwitch THEN Rejected("KILL_SWITCH_ENABLED")
  ELSE IF ~s.limits THEN Rejected("RISK_LIMIT_EXCEEDED")
  ELSE IF s.barred # NoReason THEN Rejected(s.barred)
  ELSE Approved

Decisions == {"APPROVED", "REJECTED"}

Documents ==
  [status : {"NONE", "PROPOSED"} \cup Decisions, reasonCode : ReasonCodes \cup {NoReason}]

Settings ==
  [killSwitch : BOOLEAN, limits : BOOLEAN, barred : ComplianceCodes \cup {NoReason}]

Steps ==
  {"idle", "load", "key", "assess", "sync", "persist", "publish", "record",
   "respondDone", "respondDuplicate", "respondInvalid"}

Replies == {"unsent", "pending", "success", "conflict", "invalid"}

\* Every variable has its type.
TypeOK ==
  /\ DeliveryTypeOK
  /\ step \in [Workers -> Steps]
  /\ request \in [Workers -> Requests \cup {NoRequest}]
  /\ \A w \in Workers : (step[w] = "idle") = (request[w] = NoRequest)
  /\ \A w \in Workers : request[w] \in Messages => held[w] = request[w]
  /\ settings \in [Workers -> Settings]
  /\ assessment \in [Workers -> Documents]
  /\ store \in [Assessments -> Documents]
  /\ keys \subseteq Identifiers
  /\ published \in [Assessments -> [Decisions -> Nat]]
  /\ killSwitch \in BOOLEAN
  /\ toggles \in 0..MaxToggles
  /\ barred \in [Assessments -> ComplianceCodes \cup {NoReason}]
  /\ asked \in [Commands -> {"none", "approve", "reject"}]
  /\ reply \in [Commands -> Replies]
  /\ unguarded \subseteq Assessments
  /\ untold \subseteq Assessments
  /\ unscreened \subseteq Assessments

---------------------------------------------------------------------------------
Init ==
  /\ DeliveryInit
  /\ step = [w \in Workers |-> "idle"]
  /\ request = [w \in Workers |-> NoRequest]
  /\ settings = [w \in Workers |-> NoSettings]
  /\ assessment = [w \in Workers |-> NoAssessment]
  /\ store = [a \in Assessments |-> NoAssessment]
  /\ keys = {}
  /\ published = [a \in Assessments |-> [d \in Decisions |-> 0]]
  /\ killSwitch \in BOOLEAN
  /\ toggles = 0
  /\ barred \in [Assessments -> ComplianceCodes \cup {NoReason}]
  /\ asked = [c \in Commands |-> "none"]
  /\ reply = [c \in Commands |-> "unsent"]
  /\ unguarded = {}
  /\ untold = {}
  /\ unscreened = {}

\* What the handler w works on.
Identifier(w) == IdentifierOf[request[w]]

Goto(w, s) == step' = [step EXCEPT ![w] = s]

ResetHandler(w) ==
  /\ Goto(w, "idle")
  /\ request' = [request EXCEPT ![w] = NoRequest]
  /\ settings' = [settings EXCEPT ![w] = NoSettings]
  /\ assessment' = [assessment EXCEPT ![w] = NoAssessment]

---------------------------------------------------------------------------------
(* The histories.  Only what keeps the key of an order from telling that   *)
(* it is decided unguards it: two handlers that both go on to decide, a    *)
(* key that was not read, a lost write, an instance that dies between the  *)
(* document and the key.                                                   *)

Unguard(w) ==
  /\ unguarded' = unguarded \cup {Identifier(w)}
  /\ UNCHANGED <<untold, unscreened>>

\* The handler is about to decide, or has not told by the key that it did.
Deciding(w) ==
  request[w] \in OrderRequests /\ step[w] \in {"assess", "persist", "publish", "record"}

\* Another handler decides the order that w is about to decide.
Contested(w) ==
  \E v \in Workers \ {w} : Deciding(v) /\ Identifier(v) = Identifier(w)

---------------------------------------------------------------------------------
(* The handlers.                                                           *)

\* The first step of a request: one that cannot be decoded has no other.
FirstStep(r) ==
  IF r \notin WellFormed THEN "respondInvalid"
  ELSE IF r \in KillSwitchMessages THEN "key" ELSE "load"

ReceiveMessage(w, m) ==
  /\ step[w] = "idle"
  /\ Push(w, m)
  /\ request' = [request EXCEPT ![w] = m]
  /\ Goto(w, FirstStep(m))
  /\ UNCHANGED <<settings, assessment, store, keys, published, controlVars, operatorVars,
                 historyVars>>

\* POST /internal/orders/{identifier}/approve or reject.
ReceiveCommand(w, c) ==
  /\ step[w] = "idle"
  /\ reply[c] = "unsent"
  /\ reply' = [reply EXCEPT ![c] = "pending"]
  /\ \E kind \in {"approve", "reject"} : asked' = [asked EXCEPT ![c] = kind]
  /\ request' = [request EXCEPT ![w] = c]
  /\ Goto(w, FirstStep(c))
  /\ UNCHANGED <<deliveryVars, settings, assessment, store, keys, published, controlVars,
                 historyVars>>

ReadFails == "readError" \in Faults

\* loadKillSwitchState: a failing read counts as enabled.
LoadedKillSwitch == {killSwitch} \cup (IF ReadFails THEN {TRUE} ELSE {})

(* loadRiskLimits, loadRiskExposure: the exposure is always zero, so only  *)
(* limits of zero, the operator's or those of a failing read, leave no     *)
(* room for an order.                                                      *)
LoadedLimits == BOOLEAN

(* loadCompliancePolicy: a failing read counts as an empty policy.  An     *)
(* operator's command carries no symbol, so no rule applies to it.         *)
LoadedBarred(r) ==
  IF r \in Commands THEN {NoReason}
  ELSE {barred[IdentifierOf[r]]}
         \cup (IF "complianceError" \in Faults THEN {NoReason} ELSE {})

\* Mutant: a reject command does not force the kill switch.
EffectiveSwitchIgnored(r, loaded) == loaded

\* rejectHandler passes an enabled kill switch to force a rejection.
EffectiveSwitch(r, loaded) ==
  loaded \/ (r \in Commands /\ asked[r] = "reject")

\* The order whose rule w was to load and did not.
Unread(w, rule) ==
  IF request[w] \in Messages /\ rule # barred[Identifier(w)] THEN {Identifier(w)} ELSE {}

LoadSettings(w) ==
  /\ step[w] = "load"
  /\ \E switch \in LoadedKillSwitch, limits \in LoadedLimits,
        rule \in LoadedBarred(request[w]) :
       /\ settings' = [settings EXCEPT ![w] =
            [killSwitch |-> EffectiveSwitch(request[w], switch),
             limits |-> limits, barred |-> rule]]
       /\ unscreened' = unscreened \cup Unread(w, rule)
  /\ Goto(w, "key")
  /\ UNCHANGED <<deliveryVars, request, assessment, store, keys, published, controlVars,
                 operatorVars, unguarded, untold>>

\* The idempotency key is looked up: a failing read looks like no key.
KeyFound(w) ==
  {Identifier(w) \in keys} \cup (IF ReadFails THEN {FALSE} ELSE {})

\* Mutant: the key is not looked up.
FindKeyNever(w) ==
  /\ step[w] = "key"
  /\ Goto(w, IF request[w] \in KillSwitchMessages THEN "sync" ELSE "assess")
  /\ IF request[w] \in OrderRequests /\ Contested(w)
     THEN Unguard(w) ELSE UNCHANGED historyVars
  /\ UNCHANGED <<deliveryVars, request, settings, assessment, store, keys, published,
                 controlVars, operatorVars>>

FindKey(w) ==
  /\ step[w] = "key"
  /\ \E found \in KeyFound(w) :
       \/ found /\ Goto(w, "respondDuplicate") /\ UNCHANGED historyVars
       \/ /\ ~found /\ request[w] \in KillSwitchMessages
          /\ Goto(w, "sync") /\ UNCHANGED historyVars
       \/ /\ ~found /\ request[w] \notin KillSwitchMessages
          /\ Goto(w, "assess")
          /\ IF Contested(w) \/ Identifier(w) \in keys
             THEN Unguard(w) ELSE UNCHANGED historyVars
  /\ UNCHANGED <<deliveryVars, request, settings, assessment, store, keys, published,
                 controlVars, operatorVars>>

(* resolveAssessment: a document that is found replaces the fresh          *)
(* aggregate, and with it the settings just loaded.                        *)
ScreenedBy(w) ==
  (IF store[Identifier(w)].status = "NONE" THEN {settings[w]} ELSE {PlaceholderSettings})
    \cup (IF ReadFails THEN {settings[w]} ELSE {})

AssessOrder(w) ==
  /\ step[w] = "assess"
  /\ \E s \in ScreenedBy(w) : assessment' = [assessment EXCEPT ![w] = Screen(s)]
  /\ Goto(w, "persist")
  /\ UNCHANGED <<deliveryVars, request, settings, store, keys, published, controlVars,
                 operatorVars, historyVars>>

WriteFails == "persistLost" \in Faults

\* Mutant: the key is written with the assessment, before the publication.
PersistWithKey(w) ==
  /\ step[w] = "persist"
  /\ store' = [store EXCEPT ![Identifier(w)] = assessment[w]]
  /\ keys' = keys \cup {Identifier(w)}
  /\ Goto(w, "publish")
  /\ UNCHANGED <<deliveryVars, request, settings, assessment, published, controlVars,
                 operatorVars, historyVars>>

\* persist: the whole document is overwritten, an error is dropped.
PersistAssessment(w) ==
  /\ step[w] = "persist"
  /\ \/ store' = [store EXCEPT ![Identifier(w)] = assessment[w]] /\ UNCHANGED historyVars
     \/ WriteFails /\ Unguard(w) /\ UNCHANGED store
  /\ Goto(w, "publish")
  /\ UNCHANGED <<deliveryVars, request, settings, assessment, keys, published, controlVars, operatorVars>>

\* Mutant: only an approval is published.
PublishApproval(w) ==
  /\ step[w] = "publish"
  /\ published' = IF assessment[w].status = "APPROVED"
                  THEN [published EXCEPT ![Identifier(w)]["APPROVED"] = @ + 1]
                  ELSE published
  /\ Goto(w, "record")
  /\ UNCHANGED <<deliveryVars, request, settings, assessment, store, keys, controlVars,
                 operatorVars, historyVars>>

\* publishDecision: an error is dropped.
PublishDecision(w) ==
  /\ step[w] = "publish"
  /\ \/ /\ published' = [published EXCEPT ![Identifier(w)][assessment[w].status] = @ + 1]
        /\ UNCHANGED untold
     \/ /\ "publishLost" \in Faults
        /\ untold' = untold \cup {Identifier(w)}
        /\ UNCHANGED published
  /\ Goto(w, "record")
  /\ UNCHANGED <<deliveryVars, request, settings, assessment, store, keys, controlVars,
                 operatorVars, unguarded, unscreened>>

\* The idempotency key is written, an error is dropped.
RecordKey(w) ==
  /\ step[w] = "record"
  /\ \/ keys' = keys \cup {Identifier(w)} /\ UNCHANGED historyVars
     \/ /\ WriteFails /\ UNCHANGED keys
        /\ IF Deciding(w) THEN Unguard(w) ELSE UNCHANGED historyVars
  /\ Goto(w, "respondDone")
  /\ UNCHANGED <<deliveryVars, request, settings, assessment, store, published, controlVars, operatorVars>>

(* syncKillSwitch: every document without a decision is written again.     *)
(* The kill switch is no field of the document.                            *)
SyncKillSwitch(w) ==
  /\ step[w] = "sync"
  /\ \/ store' = [a \in Assessments |->
           IF store[a].status = "PROPOSED"
           THEN [status |-> "PROPOSED", reasonCode |-> NoReason] ELSE store[a]]
     \/ WriteFails /\ UNCHANGED store
  /\ Goto(w, "record")
  /\ UNCHANGED <<deliveryVars, request, settings, assessment, keys, published, controlVars,
                 operatorVars, historyVars>>

\* A push is answered 200 whatever the outcome.
AnswerMessage(w) ==
  /\ request[w] \in Messages
  /\ step[w] \in {"respondDone", "respondDuplicate", "respondInvalid"}
  /\ Ack(w)
  /\ ResetHandler(w)
  /\ UNCHANGED <<store, keys, published, controlVars, operatorVars, historyVars>>

\* A command is answered 200, 409 for a duplicate, 400 for a bad request.
AnswerCommand(w) ==
  /\ request[w] \in Commands
  /\ \E s \in {<<"respondDone", "success">>, <<"respondDuplicate", "conflict">>,
               <<"respondInvalid", "invalid">>} :
       /\ step[w] = s[1]
       /\ reply' = [reply EXCEPT ![request[w]] = s[2]]
  /\ ResetHandler(w)
  /\ UNCHANGED <<deliveryVars, store, keys, published, controlVars, asked, historyVars>>

\* The instance dies: a push is redelivered, a command is never answered.
Crash(w) ==
  /\ "crash" \in Faults
  /\ step[w] # "idle"
  /\ IF request[w] \in Messages THEN Nack(w) ELSE UNCHANGED deliveryVars
  /\ ResetHandler(w)
  /\ IF Deciding(w) /\ step[w] \in {"publish", "record"}
     THEN Unguard(w) ELSE UNCHANGED historyVars
  /\ UNCHANGED <<store, keys, published, controlVars, operatorVars>>

\* The operator changes the kill switch through the BFF.
ToggleKillSwitch ==
  /\ toggles < MaxToggles
  /\ toggles' = toggles + 1
  /\ killSwitch' = ~killSwitch
  /\ UNCHANGED <<deliveryVars, handlerVars, store, keys, published, barred, operatorVars,
                 historyVars>>

Subscription ==
  /\ \E m \in Messages : Expire(m) \/ Redeliver(m)
  /\ UNCHANGED <<handlerVars, store, keys, published, controlVars, operatorVars, historyVars>>

Handle(w) ==
  \/ LoadSettings(w)
  \/ FindKey(w)
  \/ AssessOrder(w)
  \/ PersistAssessment(w)
  \/ PublishDecision(w)
  \/ RecordKey(w)
  \/ SyncKillSwitch(w)
  \/ AnswerMessage(w)
  \/ AnswerCommand(w)

Next ==
  \/ \E w \in Workers, m \in Messages : ReceiveMessage(w, m)
  \/ \E w \in Workers, c \in Commands : ReceiveCommand(w, c)
  \/ \E w \in Workers : Handle(w) \/ Crash(w)
  \/ ToggleKillSwitch
  \/ Subscription

\* Cloud Run runs a started handler on; a queued message keeps being pushed.
Fairness ==
  /\ \A w \in Workers : WF_vars(Handle(w))
  /\ \A m \in Messages : WF_vars(\E w \in Workers : ReceiveMessage(w, m))

Spec == Init /\ [][Next]_vars

FairSpec == Spec /\ Fairness

---------------------------------------------------------------------------------
(* Properties.                                                             *)

Announced(a) == \E d \in Decisions : published[a][d] > 0

(* Once the kill switch is on and every handler in flight has seen it on,  *)
(* no order is approved until it is off again: no document left by a       *)
(* handler that died, no late command and no duplicate gets an approval    *)
(* past the switch (RULE-RG-002, INV-RG-004, resolveAssessment).           *)
Halted ==
  /\ killSwitch
  /\ \A w \in Workers :
       step[w] \in {"key", "assess", "persist", "publish"} => settings[w].killSwitch

KillSwitchHalts ==
  [][Halted => \A a \in Assessments : published'[a]["APPROVED"] = published[a]["APPROVED"]]_vars

(* An order that a compliance rule bars is never approved, recorded or     *)
(* announced, if every handler of its message could read the compliance    *)
(* document and no operator approves it by hand (RULE-RG-004, RULE-RG-005, *)
(* INV-RG-005).                                                            *)
ApprovedByHand(a) == \E c \in Commands : asked[c] = "approve" /\ IdentifierOf[c] = a

\* Nobody but a rule has a say in the order.
Barred(a) == barred[a] # NoReason /\ a \notin unscreened /\ ~ApprovedByHand(a)

BarredNeverApproved ==
  \A a \in Assessments : Barred(a) =>
    store[a].status # "APPROVED" /\ published[a]["APPROVED"] = 0

(* Nobody is told that an order was dealt with before its decision was     *)
(* announced: neither the subscription, by an acknowledgement, nor the     *)
(* operator, by a success or a conflict (checkOrderRisk: publish, then the *)
(* idempotency key, then the answer).  Only a publication that was lost    *)
(* excuses it.                                                             *)
AnsweredIsAnnounced ==
  /\ \A m \in WellFormed \cap (Messages \ KillSwitchMessages) :
       sub[m] = "acked" => Announced(IdentifierOf[m]) \/ IdentifierOf[m] \in untold
  /\ \A c \in Commands : reply[c] \in {"success", "conflict"} =>
       Announced(IdentifierOf[c]) \/ IdentifierOf[c] \in untold

(* An operator who is told that a rejection succeeded can rely on it: the  *)
(* order was announced as rejected, whatever the settings said and         *)
(* whatever document was there already (rejectHandler, resolveAssessment). *)
RejectSucceedsOnlyIfRejected ==
  \A c \in Commands : asked[c] = "reject" /\ reply[c] = "success" =>
    published[IdentifierOf[c]]["REJECTED"] > 0 \/ IdentifierOf[c] \in untold

(* No answer, of the subscriber or of a command, says more than has been   *)
(* announced, or was to be in a publication that was lost.                 *)
AnswersAreTrue == AnsweredIsAnnounced /\ RejectSucceedsOnlyIfRejected

(* Every proposed order is decided, and its decision announced, in the end *)
(* (UC-RG-01, UC-RG-02), unless the publication is lost, or no delivery of *)
(* the proposal is handled to its end.                                     *)
EventuallyAnnounced ==
  \A m \in WellFormed \cap (Messages \ KillSwitchMessages) :
    <>(Announced(IdentifierOf[m]) \/ IdentifierOf[m] \in untold \/ sub[m] = "dead")

Contract == INSTANCE RiskContract
              WITH Orders <- Assessments, Undecided <- "NONE",
                   decision <- [a \in Assessments |-> store[a].status],
                   announced <- published

(* The documents and the publications together behave as the contract      *)
(* says, whatever fails: an order is decided once, the decision stands and *)
(* is announced at most once, as it was made, and an order that strays     *)
(* from that is an unguarded one.                                          *)
ContractSpec == Contract!Spec

---------------------------------------------------------------------------------
(* What the design documents say and the code does not do.                 *)

(* INV-RG-002: a decision that has been made is not made again.            *)
DecisionIsFinal ==
  [][\A a \in Assessments : store[a].status \in Decisions =>
        store'[a].status = store[a].status]_vars

=================================================================================
