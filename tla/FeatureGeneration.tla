--------------------------- MODULE FeatureGeneration ----------------------------
(***************************************************************************)
(* The feature-engineering service as it is deployed: the push handler of  *)
(* market.collected (main.py, application/feature_generation_service.py),  *)
(* one action per request to Firestore, Cloud Storage or Pub/Sub.          *)
(*                                                                         *)
(* Under the lease of its key a handler reads three documents (reserved,   *)
(* findDispatch, findOutbox), completes what is missing (collect,          *)
(* writeArtifact, saveGeneration, saveDispatch, saveOutbox), and then      *)
(* publishes and marks both dispatch and outbox (publish, markDispatch,    *)
(* markOutbox), or only repairs the one an earlier delivery left behind    *)
(* (adoptOutbox, adoptDispatch).                                           *)
(***************************************************************************)
EXTENDS LeasedKey, Integers

CONSTANTS
  InsightDays, \* the days, counted from the target date, insights are of
  NoEvent      \* no document, or no event

ASSUME FeatureAssumption ==
  /\ InsightDays \subseteq Int
  /\ NoEvent \notin {"features.generated", "features.generation.failed"}

VARIABLES
  payload,     \* payload[i]: what the market.collected event says (external)
  found,       \* found[w]: the generation, dispatch and outbox w works with
  generations, \* generations[i]: the feature_generations document
  artifacts,   \* the events whose artifact is in the feature store
  dispatches,  \* dispatches[i]: the feature_dispatches document
  outbox,      \* outbox[i]: the feature_dispatch_outbox document
  published    \* published[i][e]: how often event e was published about i

documents == <<generations, artifacts, dispatches, outbox>>
vars == <<deliveryVars, step, keyVars, payload, found, documents, published>>

---------------------------------------------------------------------------------
(* The documents, and the rules that decide what becomes of an event.      *)

Events == {"features.generated", "features.generation.failed"}

(* hasPath: storagePath is there; valid: targetDate and sourceStatus can    *)
(* be parsed; healthy: no source is said to have failed.                   *)
Payloads == [hasPath : BOOLEAN, valid : BOOLEAN, healthy : BOOLEAN]

ReasonCodes ==
  {"REQUEST_VALIDATION_FAILED", "DEPENDENCY_UNAVAILABLE", "DATA_QUALITY_LEAK_DETECTED"}

NoGeneration == [status |-> "NONE", reasonCode |-> "NONE"]
NoOutbox == [status |-> "NONE", event |-> NoEvent]

\* GENERATED with its artifact, or FAILED for a reason.
Generated == [status |-> "GENERATED", reasonCode |-> "NONE"]
Failed(code) == [status |-> "FAILED", reasonCode |-> code]

Generations == {NoGeneration, Generated} \cup {Failed(code) : code \in ReasonCodes}

Dispatches == {"NONE", "PENDING", "PUBLISHED"}

Outboxes == {NoOutbox} \cup [status : {"PENDING", "PUBLISHED"}, event : Events]

\* What a handler holds while it has read nothing.
NothingFound == [generation |-> NoGeneration, dispatch |-> "NONE", outbox |-> NoOutbox]

Found == [generation : Generations, dispatch : Dispatches, outbox : Outboxes]

(* Time is in days from the target date: day 0 lasts until it ends.        *)
EndOfTargetDate == 1

\* Mutant: the insights of every day are read.
QueryAll(days) == days

\* _query_by_target_date: only what was collected by the end of the date.
Query(days) == {d \in days : d < EndOfTargetDate}

(* PointInTimeConsistency of the snapshot, by its latest insight.          *)
Consistent(days) == \A d \in days : d < EndOfTargetDate

(* _create_terminal_generation: a payload without a storage path fails     *)
(* first, then a source that failed, then any other field that could not   *)
(* be parsed, then insights from after the target date.                    *)
Outcome(p, days) ==
  IF ~p.hasPath THEN Failed("REQUEST_VALIDATION_FAILED")
  ELSE IF ~p.healthy THEN Failed("DEPENDENCY_UNAVAILABLE")
  ELSE IF ~p.valid THEN Failed("REQUEST_VALIDATION_FAILED")
  ELSE IF ~Consistent(Query(days)) THEN Failed("DATA_QUALITY_LEAK_DETECTED")
  ELSE Generated

\* _resolve_published_event.
EventOf(g) ==
  IF g.status = "GENERATED" THEN "features.generated" ELSE "features.generation.failed"

WorkSteps ==
  {"reserved", "findDispatch", "findOutbox", "collect", "writeArtifact", "saveGeneration",
   "saveDispatch", "saveOutbox", "publish", "markDispatch", "markOutbox", "adoptOutbox",
   "adoptDispatch", "settle", "release"}

\* Every variable has its type.
TypeOK ==
  /\ LeasedKeyTypeOK
  /\ step \in [Workers -> Outside \cup WorkSteps]
  /\ payload \in [Identifiers -> Payloads]
  /\ found \in [Workers -> Found]
  /\ generations \in [Identifiers -> Generations]
  /\ artifacts \subseteq Identifiers
  /\ dispatches \in [Identifiers -> Dispatches]
  /\ outbox \in [Identifiers -> Outboxes]
  /\ published \in [Identifiers -> [Events -> Nat]]

Init ==
  /\ LeasedKeyInit
  /\ payload \in [Identifiers -> Payloads]
  /\ found = [w \in Workers |-> NothingFound]
  /\ generations = [i \in Identifiers |-> NoGeneration]
  /\ artifacts = {}
  /\ dispatches = [i \in Identifiers |-> "NONE"]
  /\ outbox = [i \in Identifiers |-> NoOutbox]
  /\ published = [i \in Identifiers |-> [e \in Events |-> 0]]

---------------------------------------------------------------------------------
(* Under the lease: read the three documents.                              *)

FindGeneration(w) ==
  /\ step[w] = "reserved"
  /\ found' = [found EXCEPT ![w].generation = generations[Identifier(w)]]
  /\ Done(w, "findDispatch")
  /\ UNCHANGED <<deliveryVars, keys, payload, documents, published>>

FindDispatch(w) ==
  /\ step[w] = "findDispatch"
  /\ found' = [found EXCEPT ![w].dispatch = dispatches[Identifier(w)]]
  /\ Done(w, "findOutbox")
  /\ UNCHANGED <<deliveryVars, keys, payload, documents, published>>

\* Mutant: a dispatch that is pending is taken for one that is on its way.
RepairSkips(f) == IF f.outbox.status = "PENDING" THEN "settle" ELSE "publish"

(* Once all three documents exist: publish, unless an earlier delivery     *)
(* published already and left one document or none to repair.              *)
Repair(f) ==
  IF f.dispatch = "PUBLISHED"
  THEN IF f.outbox.status = "PENDING" THEN "adoptDispatch" ELSE "settle"
  ELSE IF f.outbox.status = "PUBLISHED" THEN "adoptOutbox" ELSE "publish"

\* The first document that is missing is the next to write.
NextWrite(f) ==
  IF f.dispatch = "NONE" THEN "saveDispatch"
  ELSE IF f.outbox = NoOutbox THEN "saveOutbox" ELSE Repair(f)

\* A dispatch or an outbox without its generation is a conflict, 409.
FindOutbox(w) ==
  /\ step[w] = "findOutbox"
  /\ LET f == [found[w] EXCEPT !.outbox = outbox[Identifier(w)]] IN
       /\ found' = [found EXCEPT ![w] = f]
       /\ Done(w, IF f.generation # NoGeneration THEN NextWrite(f)
                  ELSE IF f.dispatch = "NONE" /\ f.outbox = NoOutbox THEN "collect"
                  ELSE "release")
  /\ UNCHANGED <<deliveryVars, keys, payload, documents, published>>

---------------------------------------------------------------------------------
(* Write what is missing.                                                  *)

(* The insights are only queried for a payload that is otherwise fine; the *)
(* collector adds to them at any time (external).                          *)
Collect(w) ==
  /\ step[w] = "collect"
  /\ \E days \in SUBSET InsightDays :
       LET g == Outcome(payload[Identifier(w)], days) IN
         /\ found' = [found EXCEPT ![w].generation = g]
         /\ Done(w, IF g = Generated THEN "writeArtifact" ELSE "saveGeneration")
  /\ UNCHANGED <<deliveryVars, keys, payload, documents, published>>

(* The artifact is its metadata, of no rows and no features: the features  *)
(* themselves are computed nowhere yet.  The version is a function of the  *)
(* date, and so is the content.                                            *)
WriteArtifact(w) ==
  /\ step[w] = "writeArtifact"
  /\ artifacts' = artifacts \cup {Identifier(w)}
  /\ Done(w, "saveGeneration")
  /\ UNCHANGED <<deliveryVars, keys, payload, found, generations, dispatches, outbox, published>>

SaveGeneration(w) ==
  /\ step[w] = "saveGeneration"
  /\ generations' = [generations EXCEPT ![Identifier(w)] = found[w].generation]
  /\ Done(w, NextWrite(found[w]))
  /\ UNCHANGED <<deliveryVars, keys, payload, found, artifacts, dispatches, outbox, published>>

\* Whatever stands in the document by now is overwritten.
SaveDispatch(w) ==
  /\ step[w] = "saveDispatch"
  /\ dispatches' = [dispatches EXCEPT ![Identifier(w)] = "PENDING"]
  /\ LET f == [found[w] EXCEPT !.dispatch = "PENDING"] IN
       found' = [found EXCEPT ![w] = f] /\ Done(w, NextWrite(f))
  /\ UNCHANGED <<deliveryVars, keys, payload, generations, artifacts, outbox, published>>

SaveOutbox(w) ==
  /\ step[w] = "saveOutbox"
  /\ LET entry == [status |-> "PENDING", event |-> EventOf(found[w].generation)]
         f == [found[w] EXCEPT !.outbox = entry] IN
       /\ outbox' = [outbox EXCEPT ![Identifier(w)] = entry]
       /\ found' = [found EXCEPT ![w] = f]
       /\ Done(w, Repair(f))
  /\ UNCHANGED <<deliveryVars, keys, payload, generations, artifacts, dispatches, published>>

---------------------------------------------------------------------------------
(* Publish, and record that it was published.                              *)

\* Mutant: the outbox is marked before the publication.
PublishMarkedFirst(w) ==
  /\ step[w] = "publish"
  /\ outbox' = [outbox EXCEPT ![Identifier(w)].status = "PUBLISHED"]
  /\ \/ /\ published' = [published EXCEPT ![Identifier(w)][found[w].outbox.event] = @ + 1]
        /\ Done(w, "markDispatch")
     \/ /\ "publishLost" \in Faults
        /\ Fail(w)
        /\ UNCHANGED published
  /\ UNCHANGED <<deliveryVars, keys, payload, found, generations, artifacts, dispatches>>

\* The event the outbox asks for; publish() waits for Pub/Sub to take it.
Publish(w) ==
  /\ step[w] = "publish"
  /\ published' = [published EXCEPT ![Identifier(w)][found[w].outbox.event] = @ + 1]
  /\ Done(w, "markDispatch")
  /\ UNCHANGED <<deliveryVars, keys, payload, found, documents>>

MarkDispatch(w) ==
  /\ step[w] \in {"markDispatch", "adoptOutbox"}
  /\ dispatches' = [dispatches EXCEPT ![Identifier(w)] = "PUBLISHED"]
  /\ Done(w, IF step[w] = "markDispatch" THEN "markOutbox" ELSE "settle")
  /\ UNCHANGED <<deliveryVars, keys, payload, found, generations, artifacts, outbox, published>>

\* mark_published: nothing happens to an outbox that is not there.
MarkOutbox(w) ==
  /\ step[w] \in {"markOutbox", "adoptDispatch"}
  /\ outbox' = [outbox EXCEPT ![Identifier(w)].status = IF @ = "NONE" THEN @ ELSE "PUBLISHED"]
  /\ Done(w, "settle")
  /\ UNCHANGED <<deliveryVars, keys, payload, found, generations, artifacts, dispatches, published>>

---------------------------------------------------------------------------------
(* Requests that fail.                                                     *)

Reads == {"look", "reserved", "findDispatch", "findOutbox", "collect"}

Writes ==
  {"create", "take", "writeArtifact", "saveGeneration", "saveDispatch", "saveOutbox",
   "markDispatch", "markOutbox", "adoptOutbox", "adoptDispatch", "settle", "release"}

\* A request fails and does nothing; nothing but the key is undone.
RequestFails(w) ==
  /\ \/ step[w] \in Reads /\ "readError" \in Faults
     \/ step[w] \in Writes /\ "persistLost" \in Faults
     \/ step[w] = "publish" /\ "publishLost" \in Faults
  /\ Fail(w)
  /\ UNCHANGED <<deliveryVars, keys, payload, found, documents, published>>

---------------------------------------------------------------------------------
Forget(w) == found' = [found EXCEPT ![w] = NothingFound]

Receive(w, m) == ReceiveMessage(w, m) /\ UNCHANGED <<payload, found, documents, published>>

UseKey(w) ==
  /\ Reserve(w) \/ SettleKey(w) \/ ReleaseKey(w)
  /\ UNCHANGED <<deliveryVars, payload, found, documents, published>>

Reply(w) == Answer(w) /\ Forget(w) /\ UNCHANGED <<payload, documents, published>>

Die(w) == Crash(w) /\ Forget(w) /\ UNCHANGED <<payload, documents, published>>

LeaseRunsOut(i) == LeaseExpires(i) /\ UNCHANGED <<payload, found, documents, published>>

Find(w) == FindGeneration(w) \/ FindDispatch(w) \/ FindOutbox(w)

Complete(w) ==
  \/ Collect(w) \/ WriteArtifact(w)
  \/ SaveGeneration(w) \/ SaveDispatch(w) \/ SaveOutbox(w)

Announce(w) == Publish(w) \/ MarkDispatch(w) \/ MarkOutbox(w)

Handle(w) == UseKey(w) \/ Find(w) \/ Complete(w) \/ Announce(w) \/ Reply(w)

Subscription ==
  /\ \E m \in Messages : Expire(m) \/ Redeliver(m)
  /\ UNCHANGED <<step, keyVars, payload, found, documents, published>>

Next ==
  \/ \E w \in Workers, m \in Messages : Receive(w, m)
  \/ \E w \in Workers : Handle(w) \/ RequestFails(w) \/ Die(w)
  \/ \E i \in Identifiers : LeaseRunsOut(i)
  \/ Subscription

Spec == Init /\ [][Next]_vars

(* Pub/Sub goes on pushing, and a handler, once started, goes on to its    *)
(* answer unless its instance dies.                                        *)
Fairness ==
  /\ \A w \in Workers : WF_vars(Handle(w))
  /\ \A m \in Messages : WF_vars(\E w \in Workers : Receive(w, m))

FairSpec == Spec /\ Fairness

---------------------------------------------------------------------------------
(* What the service must keep to.                                          *)

Healthy(i) == payload[i].hasPath /\ payload[i].valid /\ payload[i].healthy

\* The event that the payload of i calls for, and the other one.
Due(i) == IF Healthy(i) THEN "features.generated" ELSE "features.generation.failed"
Undue(i) == IF Healthy(i) THEN "features.generation.failed" ELSE "features.generated"

(* Whatever fails, an event is acknowledged only after its outcome was     *)
(* published (RULE-FE-005 with the outbox: nothing is lost between the     *)
(* documents, the publication and the key).                                *)
AckedIsPublished ==
  \A m \in WellFormed : sub[m] = "acked" => published[IdentifierOf[m]][Due(IdentifierOf[m])] > 0

Contract == INSTANCE FeatureContract
              WITH healthy <- {i \in Identifiers : Healthy(i)}, outcome <- generations,
                   Outcomes <- Generations \ {NoGeneration}, Undecided <- NoGeneration,
                   stored <- artifacts, told <- published

(* Whatever fails and however handlers overlap, the documents and the      *)
(* publications together behave as the contract says: an event is never    *)
(* told both to have features and to have none, no delivery revises what   *)
(* an earlier one decided although insights come in between, and the       *)
(* artifact is stored, the outcome decided and announced in that order.    *)
(* Insights of a later day do not change the outcome, since Query leaves   *)
(* them out.  That keeps the first half of RULE-FE-003 and departs from    *)
(* its second: by the Gherkin of the rule and TST-FE-003 such an event is  *)
(* to fail with DATA_QUALITY_LEAK_DETECTED, which is decided of none       *)
(* (README, section 4).                                                    *)
ContractSpec == Contract!Spec

(* Whatever fails, a document that says published, or a key that says      *)
(* processed, is right: the next delivery will rely on it and not publish. *)
NeverMarkedUnpublished ==
  \A i \in Identifiers :
    (dispatches[i] = "PUBLISHED" \/ outbox[i].status = "PUBLISHED" \/ keys[i] = "processed")
      => published[i][Due(i)] > 0

(* While nothing disturbs the handling of an event, however often it is    *)
(* pushed, one handler at a time works on it and its outcome is published  *)
(* at most once (the lease of reserve).                                    *)
ExclusiveUnlessDisturbed ==
  \A i \in Identifiers \ disturbed :
    /\ \A w, v \in Owners(i) : w = v
    /\ published[i][Due(i)] <= 1

\* An event whose handling nothing disturbs is published.
EventuallyPublished ==
  \A m \in WellFormed :
    <>(\/ published[IdentifierOf[m]][Due(IdentifierOf[m])] > 0
       \/ IdentifierOf[m] \in disturbed)

=================================================================================
