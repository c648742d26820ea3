---------------------------- MODULE SignalGeneration ----------------------------
(***************************************************************************)
(* The signal-generator service: the push handler of features.generated    *)
(* (presentation/subscriber.py, usecase/signal_generation_service.py), one *)
(* action per request to Firestore, Cloud Storage, MLflow or Pub/Sub.      *)
(*                                                                         *)
(* One document of idempotency_keys is both the key of an event and the    *)
(* record of its dispatch.  The handler that creates it (acquire) goes     *)
(*   resolve -> infer -> writeSignals -> saveRun -> findDispatch ->        *)
(*   publishGenerated -> saveDispatch                                      *)
(* or, when the input or a request fails on the way,                       *)
(*   saveFailed -> findFailed -> publishFailed -> saveFailedDispatch ->    *)
(*   terminate                                                             *)
(* which deletes the document for a retry, unless that is of no use.  A    *)
(* handler that finds the document there acknowledges the event            *)
(* (duplicate), and at most confirms its dispatch.                         *)
(***************************************************************************)
EXTENDS PushDelivery, Integers

CONSTANTS
  Identifiers,  \* the identifiers of events
  IdentifierOf, \* IdentifierOf[m]: the event that m carries
  MaxRetries    \* retries of a publication within a request (3 in retry.py)

ASSUME SignalAssumption ==
  /\ IdentifierOf \in [Messages -> Identifiers]
  /\ MaxRetries \in Nat

VARIABLES
  step,       \* step[w]: where the handler w is
  reason,     \* reason[w]: why the work of w failed
  tries,      \* tries[w]: the retries of the publication w is at
  payload,    \* payload[i]: what the event is like (external)
  keys,       \* keys[i]: the idempotency_keys document, with its dispatch
  runs,       \* runs[i]: the status in the signal_runs document
  signals,    \* the events whose signals are in the signal store
  published,  \* published[i][e]: how often event e was published about i
  disturbed,  \* the events whose handler died, was not alone, or could not
              \* tell what became of the key (history)
  doubted     \* the events of which a publication was not answered (history)

documents == <<keys, runs, signals>>
histories == <<disturbed, doubted>>
vars == <<deliveryVars, step, reason, tries, payload, documents, published, histories>>

---------------------------------------------------------------------------------
(* What an event may be like.  opaque: not even its identifier can be read; *)
(* malformed: the identifier can, but a field is missing; empty: there is  *)
(* no universe; invalid: a path that is no gs:// path, or a date to come.  *)
Payloads == {"opaque", "malformed", "empty", "invalid", "valid"}

\* What decode_pubsub_push_message takes.
Decodable == Payloads \ {"opaque", "malformed"}

KeyStates == {"absent", "pending", "generated", "failed"}

Events == {"signal.generated", "signal.generation.failed"}

\* Every failure of a dependency stands for a timeout and an internal error.
ReasonCodes ==
  {"REQUEST_VALIDATION_FAILED", "MODEL_NOT_APPROVED", "SIGNAL_GENERATION_FAILED",
   "DEPENDENCY_UNAVAILABLE"}

NonRetryable == {"REQUEST_VALIDATION_FAILED", "MODEL_NOT_APPROVED"}

Reads == {"duplicate", "findRun", "resolve", "infer", "findDispatch", "findFailed"}

Publications == {"publishGenerated", "publishFailed", "publishMalformed"}

Writes ==
  {"acquire", "confirmGenerated", "confirmFailed", "writeSignals", "saveRun", "saveDispatch",
   "saveFailed", "saveFailedDispatch", "saveMalformed", "terminate"}

\* The event the handler w works on.
Identifier(w) == IdentifierOf[held[w]]

Goto(w, s) == step' = [step EXCEPT ![w] = s]

Disturb(w) == disturbed' = disturbed \cup {Identifier(w)}

\* Every variable has its type.
TypeOK ==
  /\ DeliveryTypeOK
  /\ step \in [Workers -> {"idle", "ok", "error"} \cup Reads \cup Publications \cup Writes]
  /\ \A w \in Workers : (step[w] = "idle") = (held[w] = NoMessage)
  /\ reason \in [Workers -> ReasonCodes]
  /\ tries \in [Workers -> 0..MaxRetries]
  /\ payload \in [Identifiers -> Payloads]
  /\ keys \in [Identifiers -> KeyStates]
  /\ runs \in [Identifiers -> {"absent", "generated", "failed"}]
  /\ signals \subseteq Identifiers
  /\ published \in [Identifiers -> [Events -> Nat]]
  /\ disturbed \subseteq Identifiers
  /\ doubted \subseteq Identifiers

Init ==
  /\ DeliveryInit
  /\ step = [w \in Workers |-> "idle"]
  /\ reason = [w \in Workers |-> "DEPENDENCY_UNAVAILABLE"]
  /\ tries = [w \in Workers |-> 0]
  /\ payload \in [Identifiers -> Payloads]
  /\ keys = [i \in Identifiers |-> "absent"]
  /\ runs = [i \in Identifiers |-> "absent"]
  /\ signals = {}
  /\ published = [i \in Identifiers |-> [e \in Events |-> 0]]
  /\ disturbed = {}
  /\ doubted = {}

---------------------------------------------------------------------------------
(* Where a failed request leads: the key is only left to be retried on     *)
(* purpose, a failed event is tried to be told of, and an error of what is *)
(* only a record is passed over.                                           *)

\* _finalize_failure.
Finalize(code) == IF code \in NonRetryable THEN "ok" ELSE "terminate"

OnError(w) ==
  CASE step[w] \in {"duplicate", "findRun", "confirmGenerated", "confirmFailed"} -> "ok"
    [] step[w] \in {"resolve", "infer", "writeSignals"} -> "saveFailed"
    [] step[w] = "saveFailed" -> "findFailed"
    [] step[w] = "findDispatch" -> "publishGenerated"
    [] step[w] \in {"saveRun", "findFailed", "publishGenerated", "publishFailed"} -> "terminate"
    [] step[w] = "saveFailedDispatch" -> Finalize(reason[w])
    [] step[w] \in {"publishMalformed", "saveMalformed"} -> "ok"
    [] step[w] \in {"acquire", "saveDispatch", "terminate"} -> "error"

\* Whatever goes wrong at resolve, infer and writeSignals is for a dependency.
Blame(w) == reason' = [reason EXCEPT ![w] = "DEPENDENCY_UNAVAILABLE"]

\* A request was carried out; its answer arrives or gets lost.
Done(w, next) ==
  /\ \/ Goto(w, next)
     \/ "lostAnswer" \in Faults /\ Goto(w, OnError(w))
  /\ UNCHANGED <<deliveryVars, reason, tries, payload, published, histories>>

\* A request fails and does nothing; a key that stays is one that misleads.
RequestFails(w) ==
  /\ \/ step[w] \in Reads /\ "readError" \in Faults
     \/ step[w] \in Writes /\ "persistLost" \in Faults
  /\ Goto(w, OnError(w))
  /\ IF step[w] \in {"resolve", "infer", "writeSignals"} THEN Blame(w) ELSE UNCHANGED reason
  /\ IF step[w] = "terminate" THEN Disturb(w) ELSE UNCHANGED disturbed
  /\ UNCHANGED <<deliveryVars, tries, payload, documents, published, doubted>>

\* The failure is recorded and told of.
FailFor(w, code) ==
  /\ reason' = [reason EXCEPT ![w] = code]
  /\ Goto(w, "saveFailed")

---------------------------------------------------------------------------------
(* The key.                                                                *)

\* Mutant: the key is written without asking whether it is there.
AcquireAnyway(w) ==
  /\ step[w] = "acquire"
  /\ keys' = [keys EXCEPT ![Identifier(w)] = "pending"]
  /\ IF payload[Identifier(w)] = "valid"
     THEN Goto(w, "resolve") /\ UNCHANGED reason
     ELSE FailFor(w, "REQUEST_VALIDATION_FAILED")
  /\ UNCHANGED <<deliveryVars, tries, payload, runs, signals, published, histories>>

(* The key is created, and the input verified.  When the answer is lost    *)
(* the key stays, and the next delivery will be taken for a duplicate.     *)
Acquire(w) ==
  /\ step[w] = "acquire"
  /\ IF keys[Identifier(w)] = "absent"
     THEN /\ keys' = [keys EXCEPT ![Identifier(w)] = "pending"]
          /\ \/ /\ IF payload[Identifier(w)] = "valid"
                   THEN Goto(w, "resolve") /\ UNCHANGED reason
                   ELSE FailFor(w, "REQUEST_VALIDATION_FAILED")
                /\ UNCHANGED disturbed
             \/ "lostAnswer" \in Faults /\ Goto(w, "error") /\ Disturb(w) /\ UNCHANGED reason
     ELSE Goto(w, "duplicate") /\ UNCHANGED <<keys, reason, disturbed>>
  /\ UNCHANGED <<deliveryVars, tries, payload, runs, signals, published, doubted>>

\* _handle_duplicate_event: a pending dispatch is confirmed by its run.
Duplicate(w) ==
  /\ step[w] = "duplicate"
  /\ Done(w, IF keys[Identifier(w)] = "pending" THEN "findRun" ELSE "ok")
  /\ UNCHANGED documents

FindRun(w) ==
  /\ step[w] = "findRun"
  /\ Done(w, CASE runs[Identifier(w)] = "absent" -> "ok"
               [] runs[Identifier(w)] = "generated" -> "confirmGenerated"
               [] runs[Identifier(w)] = "failed" -> "confirmFailed")
  /\ UNCHANGED documents

\* Nothing is published: the dispatch is only said to have been.
Confirm(w) ==
  /\ step[w] \in {"confirmGenerated", "confirmFailed"}
  /\ keys' = [keys EXCEPT ![Identifier(w)] =
                IF step[w] = "confirmGenerated" THEN "generated" ELSE "failed"]
  /\ Done(w, "ok")
  /\ UNCHANGED <<runs, signals>>

\* Mutant: the document is not deleted.
TerminateNot(w) ==
  /\ step[w] = "terminate"
  /\ Done(w, "error")
  /\ UNCHANGED documents

\* The document is deleted, with the dispatch, whoever relies on it.
Terminate(w) ==
  /\ step[w] = "terminate"
  /\ keys' = [keys EXCEPT ![Identifier(w)] = "absent"]
  /\ Done(w, "error")
  /\ UNCHANGED <<runs, signals>>

---------------------------------------------------------------------------------
(* The signals.                                                            *)

\* The latest approved model, if any (external).
Resolve(w) ==
  /\ step[w] = "resolve"
  /\ \/ Goto(w, "infer") /\ UNCHANGED reason
     \/ FailFor(w, "MODEL_NOT_APPROVED")
  /\ UNCHANGED <<deliveryVars, tries, payload, documents, published, histories>>

\* The features are read, the model loaded and run: one value per stock or not.
Infer(w) ==
  /\ step[w] = "infer"
  /\ \/ Goto(w, "writeSignals") /\ UNCHANGED reason
     \/ FailFor(w, "SIGNAL_GENERATION_FAILED")
  /\ UNCHANGED <<deliveryVars, tries, payload, documents, published, histories>>

WriteSignals(w) ==
  /\ step[w] = "writeSignals"
  /\ signals' = signals \cup {Identifier(w)}
  /\ \/ Goto(w, "saveRun") /\ UNCHANGED reason
     \/ "lostAnswer" \in Faults /\ Goto(w, OnError(w)) /\ Blame(w)
  /\ UNCHANGED <<deliveryVars, tries, payload, keys, runs, published, histories>>

SaveRun(w) ==
  /\ step[w] = "saveRun"
  /\ runs' = [runs EXCEPT ![Identifier(w)] = "generated"]
  /\ Done(w, "findDispatch")
  /\ UNCHANGED <<keys, signals>>

\* INV-SG-004: what was published already is not published again.
FindDispatch(w) ==
  /\ step[w] = "findDispatch"
  /\ Done(w, IF keys[Identifier(w)] = "generated" THEN "ok" ELSE "publishGenerated")
  /\ UNCHANGED documents

SaveDispatch(w) ==
  /\ step[w] \in {"saveDispatch", "saveFailedDispatch", "saveMalformed"}
  /\ keys' = [keys EXCEPT ![Identifier(w)] =
                IF step[w] = "saveDispatch" THEN "generated" ELSE "failed"]
  /\ Done(w, IF step[w] = "saveFailedDispatch" THEN Finalize(reason[w]) ELSE "ok")
  /\ UNCHANGED <<runs, signals>>

---------------------------------------------------------------------------------
(* The failure.                                                            *)

SaveFailed(w) ==
  /\ step[w] = "saveFailed"
  /\ runs' = [runs EXCEPT ![Identifier(w)] = "failed"]
  /\ Done(w, "findFailed")
  /\ UNCHANGED <<keys, signals>>

\* What was told of already is not told of again.
FindFailed(w) ==
  /\ step[w] = "findFailed"
  /\ Done(w, IF keys[Identifier(w)] \in {"generated", "failed"} THEN Finalize(reason[w])
             ELSE "publishFailed")
  /\ UNCHANGED documents

---------------------------------------------------------------------------------
(* Publications, with_retry.                                               *)

EventAt(s) == IF s = "publishGenerated" THEN "signal.generated" ELSE "signal.generation.failed"

AfterPublish(s) ==
  CASE s = "publishGenerated" -> "saveDispatch"
    [] s = "publishFailed" -> "saveFailedDispatch"
    [] s = "publishMalformed" -> "saveMalformed"

\* A publication that did not return is tried again, as long as there are tries.
TryAgain(w) ==
  IF tries[w] < MaxRetries
  THEN tries' = [tries EXCEPT ![w] = @ + 1] /\ UNCHANGED step
  ELSE tries' = [tries EXCEPT ![w] = 0] /\ Goto(w, OnError(w))

Sent(w) == published' = [published EXCEPT ![Identifier(w)][EventAt(step[w])] = @ + 1]

Publish(w) ==
  /\ step[w] \in Publications
  /\ Sent(w)
  /\ \/ /\ Goto(w, AfterPublish(step[w]))
        /\ tries' = [tries EXCEPT ![w] = 0]
        /\ UNCHANGED doubted
     \/ /\ "lostAnswer" \in Faults
        /\ TryAgain(w)
        /\ doubted' = doubted \cup {Identifier(w)}
  /\ UNCHANGED <<deliveryVars, reason, payload, documents, disturbed>>

\* Mutant: a publication that failed passes for one that succeeded.
PublishFailsQuietly(w) ==
  /\ step[w] \in Publications
  /\ "publishLost" \in Faults
  /\ Goto(w, AfterPublish(step[w]))
  /\ UNCHANGED <<deliveryVars, reason, tries, payload, documents, published, histories>>

PublishFails(w) ==
  /\ step[w] \in Publications
  /\ "publishLost" \in Faults
  /\ TryAgain(w)
  /\ UNCHANGED <<deliveryVars, reason, payload, documents, published, histories>>

---------------------------------------------------------------------------------
(* The handler.                                                            *)

(* What cannot be decoded is acknowledged; when at least its identifier can *)
(* be read it is told of (handle_decode_failure), whatever the key says.   *)
(* An empty universe can be decoded, and is refused by the command: that   *)
(* is acknowledged too, and never told of.                                 *)
FirstStep(p) ==
  CASE p \in {"opaque", "empty"} -> "ok"
    [] p = "malformed" -> "publishMalformed"
    [] p \in {"invalid", "valid"} -> "acquire"

Contested(w, m) == \E v \in Workers \ {w} : held[v] # NoMessage /\ Identifier(v) = IdentifierOf[m]

Receive(w, m) ==
  /\ step[w] = "idle"
  /\ Push(w, m)
  /\ Goto(w, FirstStep(payload[IdentifierOf[m]]))
  /\ disturbed' = IF Contested(w, m) THEN disturbed \cup {IdentifierOf[m]} ELSE disturbed
  /\ UNCHANGED <<reason, tries, payload, documents, published, doubted>>

\* What the handler held goes with the request.
Forget(w) ==
  /\ Goto(w, "idle")
  /\ reason' = [reason EXCEPT ![w] = "DEPENDENCY_UNAVAILABLE"]
  /\ tries' = [tries EXCEPT ![w] = 0]

\* 200 for what is done or cannot be helped, 500 for what is to be retried.
Reply(w) ==
  /\ \/ step[w] = "ok" /\ Ack(w)
     \/ step[w] = "error" /\ Nack(w)
  /\ Forget(w)
  /\ UNCHANGED <<payload, documents, published, histories>>

\* The instance dies: what it did stays, and so does the key.
Crash(w) ==
  /\ "crash" \in Faults
  /\ step[w] # "idle"
  /\ Nack(w)
  /\ Disturb(w)
  /\ Forget(w)
  /\ UNCHANGED <<payload, documents, published, doubted>>

UseKey(w) == Acquire(w) \/ Duplicate(w) \/ FindRun(w) \/ Confirm(w) \/ Terminate(w)

Generate(w) ==
  \/ Resolve(w) \/ Infer(w) \/ WriteSignals(w)
  \/ SaveRun(w) \/ FindDispatch(w) \/ SaveDispatch(w)

Handle(w) ==
  \/ UseKey(w) \/ Generate(w) \/ SaveFailed(w) \/ FindFailed(w)
  \/ Publish(w) \/ Reply(w)

Subscription ==
  /\ \E m \in Messages : Expire(m) \/ Redeliver(m)
  /\ UNCHANGED <<step, reason, tries, payload, documents, published, histories>>

Next ==
  \/ \E w \in Workers, m \in Messages : Receive(w, m)
  \/ \E w \in Workers : Handle(w) \/ RequestFails(w) \/ PublishFails(w) \/ Crash(w)
  \/ Subscription

Spec == Init /\ [][Next]_vars

---------------------------------------------------------------------------------
(* What the service must keep to.                                          *)

Reported(i) == \E e \in Events : published[i][e] > 0

Contract == INSTANCE SignalContract
              WITH verified <- {i \in Identifiers : payload[i] = "valid"}

(* Whatever fails and however handlers overlap, the signal store and what  *)
(* is published behave as the contract says: signals are made of verified  *)
(* input and stored before they are announced, and nothing more is         *)
(* published of an event once its signals are, as long as no handler of it *)
(* dies, is joined by another, or is wrong about the key, and Pub/Sub      *)
(* leaves no publication unanswered (INV-SG-004 as far as it holds): a     *)
(* dispatch that cannot be saved is made up for without publishing again.  *)
ContractSpec == Contract!Spec

(* An event that can be decoded and whose universe is not empty, verified  *)
(* or not, is acknowledged only after its outcome was published, whatever  *)
(* request fails, as long as nothing disturbs its handling (RULE-SG-008):  *)
(* the next delivery would take it for a duplicate.  One whose universe is *)
(* empty is an exception that the code makes and the rule does not: it can *)
(* be decoded, GenerateSignalCommand refuses it, and it is answered 200    *)
(* with nothing published (README, section 4).                             *)
AckedIsReported ==
  \A m \in Messages : LET i == IdentifierOf[m] IN
    sub[m] = "acked" /\ payload[i] \in Decodable \ {"empty"} /\ i \notin disturbed => Reported(i)

(* On the same condition, a dispatch that is said to be published was, the  *)
(* one that a duplicate delivery confirms from the run included.  That it  *)
(* was the event the dispatch names holds for failures only: the run may   *)
(* be one that an earlier delivery left as generated and never announced,  *)
(* when the failure of the last delivery could not be recorded.            *)
DispatchIsTrue ==
  \A i \in Identifiers \ disturbed :
    /\ keys[i] = "generated" => Reported(i)
    /\ keys[i] = "failed" => published[i]["signal.generation.failed"] > 0

=================================================================================
