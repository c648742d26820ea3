# alpha-mind: TLA+ models and proofs

alpha-mind is an event-driven investment pipeline: services on Cloud Run, pushed to by
Pub/Sub, that keep their state in Firestore documents. Nothing in it runs in a transaction.
Every guarantee rests on the order in which a handler reads a document, writes it, publishes an
event and answers, on the idempotency keys it keeps, and on the subscription's redeliveries.
These modules model those orders, step by step, and check and prove what survives when handlers
overlap, die, are repeated, or have an access fail.

Paths below are relative to `src/`.

## 1. The system

    market.collect.requested -> data-collector -> market.collected -> feature-engineering
      -> features.generated -> signal-generator -> signal.generated -> portfolio-planner
      -> orders.proposed -> risk-guard -> orders.approved -> execution -> orders.executed
    insight.collect.requested -> insight-collector -> insight.collected -> agent-orchestrator
      -> hypothesis.proposed -> hypothesis-lab -> hypothesis.backtested / promoted / rejected
    operator -> bff -> orders.approved / rejected / proposed, operation.kill_switch.changed
    every event -> audit-log

| Component | State | Operations | Hard behaviour | What makes it correct |
|---|---|---|---|---|
| execution (`backend/execution`) | `order_executions`, orders at the broker | push of `orders.approved`; demo run | overlapping deliveries, lost broker answers, crash between save and publish | an order is sent once; what is recorded or reported is what the broker did; no approval is lost |
| risk-guard (`backend/risk-guard`) | `risk_assessments`, `idempotency_keys`; reads `settings`, `operations/runtime`, `compliance_controls` | pushes of `orders.proposed`, `operation.kill_switch.changed`; internal approve, reject | key looked up but not reserved, stale settings, redecision after a crash | kill switch and compliance rules hold; decided once, announced as decided; nobody is answered before |
| bff (`backend/bff`) | `orders`, `operations/runtime`, `hypothesis_registry`, `model_registry`, `insight_records`, `settings`, `compliance_controls` | REST requests of operators | read, validate, overwrite without a precondition; crash between write and event | legal transitions only; the switch halts; a success is not hollow; events and documents agree |
| portfolio-planner (`backend/portfolio-planner`) | `orders`, `proposal_dispatches`, `idempotency_keys` | push of `signal.generated` | new order identifier per delivery, key before publication | one order per signal, published |
| feature-engineering (`backend/feature-engineering`) | `feature_generations`, `feature_dispatches`, `feature_dispatch_outbox`, leased `idempotency_keys` | push of `market.collected` | expired leases, reconciliation of three documents | published at least once, never as two results |
| hypothesis-lab (`backend/hypothesis-lab`) | `hypothesis_registry`, validation runs, failure knowledge, leased keys | pushes of `hypothesis.proposed`, `hypothesis.demo.completed` | expired leases, crash between save and publish, writes of the BFF to the same documents | life cycle, every decision published |
| signal-generator (`backend/signal-generator`) | generations, dispatches, keys without lease | push of `features.generated` | key acquired before the work, terminated on failure | no event is lost, nothing follows the announced signals |
| data-collector, insight-collector | collections, dispatches | pushes of the collect requests | dispatch state as idempotency, partial failure per source | a retryable failure is retried |
| agent-orchestrator | proposals, dispatches, failure knowledge | pushes of `insight.collected`, `hypothesis.retest.requested` | identifiers new in every delivery, suppression by past failures | a proposal per insight |
| audit-log | audit records, ingestions | push of every event | best-effort writes | an event marked recorded is recorded |
| common/haskell, common/python | none | `withRetry`, Firestore and Pub/Sub clients, idempotency reservation | a repeated write whose first answer was lost | |
| frontend, prototype, infrastructure, docker, scripts | none at run time, but for the subscriptions of `infrastructure/platform/modules/pubsub/main.tf` | | ack deadline 60 s, no ordering, 5 deliveries, dead letter | every message is resolved |

Components interact by events (at least once, unordered), by documents that two services write
or read (`orders`: planner and bff; `operations/runtime`: bff and risk-guard;
`hypothesis_registry`: hypothesis-lab and bff), and by requests of operators. `PROJECT.json`
lists every component with its status, and under `hazards` each thing that can go wrong here
and a test would hardly reach, at its line, with the properties that would catch it.

## 2. The modules

| Module | Models | Role |
|---|---|---|
| `PushDelivery` | the Pub/Sub push subscription, external: push, ack, nack, expiry, redelivery, dead letter | extended by every service module |
| `OrderExecution` | execution service: one push of `orders.approved` | implements `ExecutionContract` |
| `ExecutionContract` | what execution promises of an order | abstract |
| `RiskAssessment` | risk-guard: both subscribers and both commands | implements `RiskContract` |
| `RiskContract` | what risk-guard promises of an order | abstract |
| `ControlPlane` | bff: approve, reject, retry, start, stop, kill switch | |
| `Planning` | portfolio-planner: one push of `signal.generated` | implements `PlanningContract` |
| `PlanningContract` | what portfolio-planner promises of a signal | abstract |
| `LeasedKey` | the leased idempotency key of feature-engineering and hypothesis-lab | extended by `FeatureGeneration` and `HypothesisLab` |
| `FeatureGeneration` | feature-engineering: one push of `market.collected` | implements `FeatureContract` |
| `FeatureContract` | what feature-engineering promises of an event | abstract |
| `HypothesisLab` | hypothesis-lab: both pushes; bff: promote, reject and MNPI declaration of a hypothesis | implements `HypothesisContract` |
| `HypothesisContract` | what hypothesis-lab and the BFF promise of a hypothesis | abstract |
| `SignalGeneration` | signal-generator: one push of `features.generated` | implements `SignalContract` |
| `SignalContract` | what signal-generator promises of an event | abstract |
| `OrderExecutionProofs`, `RiskAssessmentProofs`, `ControlPlaneProofs`, `PlanningProofs`, `FeatureGenerationProofs`, `HypothesisLabProofs`, `SignalGenerationProofs` | theorems about the module they are named after | see section 5 |
| `LeasedKeyProofs` | lemmas about the key | extended by `FeatureGenerationProofs` and `HypothesisLabProofs` |
| `MCOrderExecution`, `MCRiskAssessment`, `MCControlPlane`, `MCPlanning`, `MCFeatureGeneration`, `MCHypothesisLab`, `MCSignalGeneration` | constants of the small instances | |

**PushDelivery.** `sub[m]` is where a message is (queued, outstanding, acked, dead),
`deliveries[m]` how often it was pushed, `held[w]` and `lease[w]` which push of which message the
handler invocation `w` answers. An answer after the deadline (`Current` is false) changes nothing.
What the environment may do is the constant `Faults`, so that a run or a theorem names exactly the
faults it tolerates; with `Faults = {}` the subscription still requeues what is answered 500.

**OrderExecution.** A handler walks `find -> [create] -> submit... -> record -> publish ->
respond`; each step is one access to Firestore, to the broker or to Pub/Sub, so everything else
can happen between any two. The actions are `Receive` (decoding, `Presentation/PubSubHandler.hs`),
`FindExecution` and `CreateExecution` (`executeOrder`), `BrokerTakes`, `BrokerRefuses`,
`BrokerUnreachable` (one POST under `withRetry`), `RecordSuccess`, `RecordFailure`
(`handleBrokerSuccess`, `handleBrokerFailure` with `persistExecution`), `PublishResult` and
`Respond`. `store` is the document; `DocumentToExecution` rebuilds the aggregate from it the way
the repository does, which loses the attempt count. `placed[o]` and `refused[o]` are what the
broker has done with the order (external, and history for the properties). Two histories bound
the promises: an order is `exposed` once its document may not tell what the broker did with it (two
handlers go on to the broker, a final document is not read, a write or a broker answer is lost, an
instance dies with the answer in hand), and `unreported` once its result may not have been
published. They only record what happened and never enable or forbid a step.
`ExecutionContract` has the exposed orders as a third variable: any other order follows the life
cycle of the design and is sent once, and `Stray` says what an order may do that has just become or
already is exposed, leaving every other order alone.

**RiskAssessment.** An order handler walks `load -> key -> assess -> persist -> publish -> record
-> respond`. `LoadSettings` takes the settings once, before the key is looked up; `AssessOrder`
screens a fresh aggregate by them, or one rebuilt from a document by `PlaceholderSettings` (an open
switch and zero limits), as `documentToAssessment` does. Commands of operators take the same steps,
without a symbol (so no compliance rule applies), and a reject passes an enabled switch. Screening
is reduced to what decides it: the switch, whether the limits leave room (the exposure loaded is
always zero), and the compliance rule that applies. An assessment is `unguarded` once its key may
not tell that it is decided (two handlers go on to decide, the key is not read, a write is lost, an
instance dies between document and key), `untold` once a publication of it was lost, `unscreened`
once its compliance rule was not read. `RiskContract` says of every assessment that is not
unguarded that it is decided once and announced at most once as decided; its `Stray` is as above.

**ControlPlane.** Each request is its own handler: `switch -> order -> write -> publish ->
respond`, or through `runtime` for the operations. Documents are overwritten whole, without a
precondition. An order document is a status and whether it has every field the BFF's decoder
requires: the planner's documents have not, and neither has one the BFF itself has written,
because a PATCH without a mask replaces it.

**Planning.** A handler walks `findKey -> startDispatch -> saveOrder -> completeDispatch ->
saveKey -> findDispatch -> findOrder -> publish`, or leaves that path for `failDispatch` and
`publishFailed`. The error of every write and of every publication is dropped in the code, and a
read that fails finds nothing, so a failing step goes on like one that succeeds. The identifier of
an order is generated in every push; the model takes the push itself for it (`Order(w)`). Two
histories name the signals for which the service cannot keep its promise: `unguarded`, whose key
may not tell of an order of theirs, and `unfinished`, whose handler failed after the key.
`PlanningContract` knows the signals that may be traded, the orders, the announcements and the two
histories; keys, dispatches and handlers are what it abstracts from. Making an order, announcing it
and refusing a signal are its steps: a second order is made only of an unguarded signal, and an
announcement without an order only of an unfinished one.

**LeasedKey.** `reserve` walks `create -> look -> take`, each a request of its own, so that two
handlers may both take a lapsed key. `SettleKey` marks the key processed, `ReleaseKey` lets the
next delivery in. A lease lapses by `LeaseExpires`, under a handler that still works only with
the fault `"overrun"`. Anything that keeps the handling of an event from going as planned puts the
event into the history `disturbed`; what the properties promise of all other events is what the
lease is worth. `Done` and `Fail` are shared by the steps of both services: every request may fail,
may have been carried out without an answer, or may succeed, and an error inside the `try` block
releases the key.

**FeatureGeneration.** Under the lease, a handler reads the generation, its dispatch and its outbox
document (`FindGeneration`, `FindDispatch`, `FindOutbox`), and `Repair` and `NextWrite` decide, as
the service does, where to go on: at the work (`Collect`, `WriteArtifact`, `SaveGeneration`,
`SaveDispatch`, `SaveOutbox`), at the publication (`Publish`, `MarkDispatch`, `MarkOutbox`), or at
the one document that an earlier delivery left behind. The payload is reduced to what decides the
outcome: whether there is a storage path, whether dates and statuses can be parsed, whether every
source is healthy; insight records are the days they are of, because the point-in-time rule
compares those (`Query`, `Consistent`): `Query` leaves the records of later days out, so that
`Consistent` never fails. What is stored is an artifact's metadata, with row and feature count 0;
no code computes features. `FeatureContract` knows only the events that an artifact can
be made of, the outcome, the stored artifacts, the announcements and the disturbed events; the
mapping takes `generations`, `artifacts` and `published` for them, so that leases, dispatch,
outbox and `Repair` are what it abstracts from. Storing, deciding and announcing are its steps: an
outcome is decided once, and only a disturbed event may be announced again.

**HypothesisLab.** `Propose` makes the hypothesis of a proposal and applies its backtest,
`FindHypothesis` reads the one that a demo was of and applies its result; both in memory, as the
`Hypothesis` aggregate does (`BacktestResult`, `Eligible`, `DemoApplied`). Then the whole document
is set, the validation run saved, the events published and failure knowledge recorded, one request
each. The grounds of a promotion without a decision by hand are a set of named rules, and the
metrics are integers, so that their thresholds are the code's.

The BFF writes the same documents, without a key or a lease. A request walks `fetch -> write ->
publish` (`FetchHypothesis`, `UpdateHypothesis`, `PublishDecision`): it reads and validates the
document, replaces the whole of it by the status, or by the declaration alone, and publishes its
decision, and hypothesis-lab's handlers may take any step between two of these. `writer[h]` says
who set the document last, because that decides who can still decode it (`LabReads`, `BffReads`);
after a declaration its status is `lost`. `overwritten` is the history of verdicts that another
status replaced. No code of the repository sets the status `demo` (hypothesis-lab's
`_update_hypothesis_status_to_demo` is an empty hook), so `StartDemo` is external: whoever does it
may set the declaration and the `demoPeriod` along. Demos whose result nobody reports, and about
which nobody asks the BFF, are left out, because nothing follows from them. The contents of the
validation run are left out too, because no code reads them.

`HypothesisContract` knows the saved status, what each service announced, the failure knowledge,
the `overwritten` hypotheses and, as an input, the `contested` ones, on which more than one demo or
request comes to a decision; proposals, leases, handlers, requests and what they hold in memory are
what it abstracts from. A hypothesis is backtested, put into demo and decided once; a verdict is
announced only while it stands, unless it was written over, and failure knowledge is kept only of
announced rejections. Only a contested hypothesis may have a verdict replaced.

**SignalGeneration.** One document of `idempotency_keys` is both the key and the dispatch. The
handler that creates it resolves the model, infers, stores the signals, saves the run, publishes
and marks the dispatch; a failure is saved, published and marked likewise, and `Terminate` deletes
the key when a retry may help. A handler that finds the key acknowledges, and at most confirms the
dispatch from the run (`FindRun`, `Confirm`). `Publish` and `PublishFails` model the retries of a
publication inside a request. `disturbed` and `doubted` are histories, as above. `SignalContract`
knows the events that can be verified, the stored signals, the announcements and the two histories:
storing and announcing are its steps, and nothing is announced after the signals of an event that
is in neither history.

## 3. The runs

| Run | Instance | Checks | Shows |
|---|---|---|---|
| `order_faults` | 1 order, 2 approvals, 2 handlers, 2 deliveries, all faults, 2.0 M states | `TypeOK`, `ResultIsTheBrokers`, `AckedIsSettled`, `PlacedOnce`, `SavedThenReported`, `ContractSpec` | nothing is recorded or reported that the broker did not do, no acknowledgement loses an approval, an order that is not exposed is sent once, then saved, reported and acknowledged, in that order, and the contract is implemented by overlapping handlers of one order too |
| `order_contract` | 3 messages: one approval of each of two orders, and a malformed one; 2 deliveries, redeliveries, crashes, lost broker answers, fair, 0.91 M states | `EventuallyResolved`, `ContractSpec` | exposed orders or not, the contract is implemented, and every message is resolved in the end |
| `order_duplicate` | a lost broker answer | `AtMostOneBrokerOrder` violated | `withRetry` repeats an order that was taken (RULE-EX-002) |
| `risk_faults` | 1 order, a push and a command, 2 handlers, 1 change of the switch, all faults but a lost write, 3.7 M states | `TypeOK`, `KillSwitchHalts`, `BarredNeverApproved`, `AnswersAreTrue` | the switch halts, rules that were read hold, nobody is answered before the announcement |
| `risk_contract` | 1 order, a push, a command and a kill switch message, redeliveries, crashes, lost writes and publications, fair, 1.35 M states | `EventuallyAnnounced`, `ContractSpec` | decided once, announced once as decided unless unguarded, and announced in the end |
| `risk_redecided` | a crash | `DecisionIsFinal` violated | a redelivery turns APPROVED into REJECTED (INV-RG-002) |
| `control_faults` | 3 requests of any kind, 1 order, all faults, 1.3 M states | `TypeOK`, `KillSwitchHalts`, `AnnouncedWasWritten`, `SuccessIsDone`, `StatusFollowsDesign`, `SwitchAsAnnounced` | the switch halts, nothing unsaved is announced, no success is hollow, and operators who take turns only cause the transitions of the design |
| `control_lost_switch` | 2 overlapping requests | `KillSwitchOnlyByRequest` violated | a start that overlaps the enabling of the kill switch disables it again |
| `planning_faults` | 1 signal of any kind published twice, 2 handlers, 2 deliveries each, all faults, 0.56 M states | `TypeOK`, `OneOrderPerSignal`, `AckedIsProposed`, `ContractSpec` | the contract is implemented: only saved orders of a tradable signal are announced; one order per signal while its key can tell of it; acknowledged only when announced, unless a handler failed after the key |
| `feature_faults` | 1 event with any payload, insights of the day and the day after, 3 deliveries, 2 handlers, all faults and overrun leases, fair, 1.1 M states | `TypeOK`, `AckedIsPublished`, `NeverMarkedUnpublished`, `ExclusiveUnlessDisturbed`, `EventuallyPublished`, `ContractSpec` | the three documents and the key implement the contract and never let an outcome get lost; undisturbed, it is published exactly once, in the end |
| `hypothesis_faults` | 2 events (a proposal and the demo of what it becomes; a malformed or failing one beside another; two demos that disagree; a demo beside a request of the BFF to promote, reject or declare), 3 hypotheses, 2 deliveries each, 2 handlers, all faults and overrun leases, 1.7 M states | `TypeOK`, `AckedIsTold`, `PromotedByTheRules`, `OneVerdict`, `OneHypothesisPerProposal`, `ContractSpec` | the contract is implemented by both services: no verdict is taken back unless several decide, and only what was saved is told; promoted by the rules only, told of before the acknowledgement |
| `signal_faults` | 1 event of any kind published twice, 2 handlers, 2 deliveries each, 1 retry, all faults, 1.5 M states | `TypeOK`, `AckedIsReported`, `DispatchIsTrue`, `ContractSpec` | the contract is implemented: signals are announced only when stored, and nothing follows them; undisturbed, nothing but an empty universe is acknowledged unreported, and no dispatch lies |

*Bounds.* Two handlers are enough for every race of these handlers, which share one document per
order or event; a second message about the same order adds the race of the risk guard's approval
with an operator's, and a second message of the same event (`signal_faults`, `planning_faults`) the
duplicate that a publisher's retry makes, which Pub/Sub does not tell from the first. Two
deliveries give each message a first push and one retry, and the dead-letter branch; with two
messages of one event there are four pushes of it. `feature_faults` has three: the third delivery
repairs what the second one left half repaired. `planning_faults` was also run once with three
(11.2 M states, no error). `MaxRetries` is 0 or 1 where the code has 3: the retry loop is the same
action, and one pass through it shows both of its exits. Three requests let a kill switch change, a
runtime change and an order action interleave. Three hypotheses are the one in demo and one for
each of two proposals (or deliveries of one). The BFF gets one request at most in a case of
`hypothesis_faults`, which meets a handler of hypothesis-lab at every step of either; two of its
requests on one hypothesis are covered by the proof only. Workers, and the requests of
`control_faults`, are interchangeable, and symmetric in the safety runs only.

*Deadlock* is not checked: the instances are finite, and stop when every message is resolved and
every request answered.

*Fairness.* `Fairness` is weak fairness of each started handler (Cloud Run keeps running an
instance that has a request) and of the push of each queued message (Pub/Sub retries until it is
acknowledged or dead-lettered). Nothing is assumed of the broker's answers, of redeliveries, of
expiring leases or of the operator. Liveness is stated where an event is always resolved
(`EventuallyResolved`, `EventuallyAnnounced`, `EventuallyPublished`); the other services
acknowledge what they lost (section 4), so that nothing of that form holds for them.

*Exceptions in the properties.* Several properties spare the events in a history (`exposed`,
`unreported`, `unguarded`, `untold`, `unscreened`, `disturbed`, `unfinished`, `doubted`,
`overwritten`), hypotheses that are contested or whose document the BFF has set, or an event with
an empty universe. A history is per order or event, so a fault of one takes nothing
from the others, and the faults that do no harm take nothing at all: an order keeps every promise
through a crash before its broker call, refusals, time-outs and redeliveries. The steps that put an
event there are the limits of what the code promises; section 4 lists what happens beyond them.

## 4. Where the code departs from its documents

Shown by a run:

- `execution`: an order may be placed twice when an answer is lost (`order_duplicate`).
- `risk-guard`: a saved decision is made again after a crash (`risk_redecided`).
- `bff`: the version of `operations/runtime` is counted and never compared
  (`control_lost_switch`).

Met while modelling, and what the histories and the fault sets of the properties leave aside:

- `execution`: `executeOrder` never increments the attempt count, and `documentToExecution` does
  not restore it, so a time-out that lasts never becomes `FAILED` with `EXECUTION_BROKER_TIMEOUT`
  after three retries, as RULE-EX-003 (`documents/内部設計/md/execution_ドメインモデル設計.md:93-103`, `:336`),
  the state table (`documents/外部設計/state/状態遷移設計.md:48`) and the comment at
  `UseCase/ExecuteOrder.hs:104-106` say. The order stays `APPROVED` and its message is answered 500
  until it is dead-lettered. `ResultIsTheBrokers`, that only a refusal becomes a final failure,
  holds because of this departure.
- `portfolio-planner`: a crash between order and key, a key that is not seen or not recorded, or
  overlapping handlers make a second order of one signal (RULE-PP-003, INV-PP-003). The key is
  recorded before the publication: a crash, an unread document or a lost publication after it
  loses the announcement, and a lost order write leaves an `orders.proposed` without orders.
  Signals that may not be traded are answered 500 until they are dead-lettered, and their failure
  is published in every delivery.
- `signal-generator`: an instance that dies after the key was created never publishes, because the
  redelivery is taken for a duplicate. A retryable failure is published in every delivery, and
  `signal.generated` may follow it (INV-SG-004 of the design, one result per event). A duplicate
  may confirm a dispatch from a run document that was never announced. An envelope that can be read
  but not decoded publishes its failure for every copy. A `universeCount` of zero or less decodes
  (`presentation/cloud_event_decoder.py:46-65`), but `GenerateSignalCommand` refuses it (`:33-34`),
  and the subscriber answers 200 (`presentation/subscriber.py:81-96`) with no run saved and nothing
  published, against RULE-SG-008. `AckedIsReported` leaves such an event (`"empty"`) out.
- `hypothesis-lab`: a promotion saved before a crash is never published, because the redelivery
  finds `live` and takes the demo for a duplicate; a rejection saved before a crash is answered 409
  until it is dead-lettered. Two demo results of one hypothesis have keys of their own and may
  overwrite each other, and so may a demo result and a decision of the BFF, which has no key: both
  verdicts are then announced. Its docstrings say "400 (ack, no retry)"
  (`presentation/subscriber.py:31`, `:124`), but Pub/Sub redelivers what is answered 400.
- `bff`, requests on hypotheses: the declaration is to leave the status alone
  (`Presentation/Handler/Hypotheses.hs:554-556`), but its PATCH without a mask replaces the whole
  document (`Infrastructure/Repository/FirestoreHypothesisRepository.hs:284-311`), in any status,
  and the status is gone. What the BFF has set can be decoded by neither service again. It decodes
  no document without a `demoPeriod`, which hypothesis-lab never writes; so a demo that
  hypothesis-lab found not eligible, and that waits for a decision by hand, cannot be decided. Its
  promotion asks for no 30 days of demo (`DemoPeriodInsufficient` is never returned).
- `feature-engineering`: RULE-FE-003 and TST-FE-003
  (`documents/内部設計/md/feature-engineering_ドメインモデル設計.md:81-90`, `:391`) ask that an insight
  collected after the target date fail the generation with `DATA_QUALITY_LEAK_DETECTED`. The query
  leaves such records out, so that the check after it never fails and the code is never given.
  `ContractSpec` says what the code does: they change no outcome.
- `feature-engineering`: the artifact is a metadata document with row and feature count 0
  (`feature_generation_service.py:263-269`); there are no features behind `features.generated`.
- `feature-engineering` and `hypothesis-lab`: the lease of 300 s is longer than the five
  deliveries of `infrastructure/platform/modules/pubsub/main.tf` take, so the message of an
  instance that died while it held the key may be dead-lettered before the lease lapses.

Between services, where a property would only restate a line of either:

- `execution` publishes `hypothesis.demo.completed` with `identifier` where hypothesis-lab reads
  `hypothesisIdentifier` or `hypothesis`, so that such an event is always answered 400.
- nothing in hypothesis-lab sets `mnpiSelfDeclared`, without which no demo leads to a promotion;
  the BFF does, in a document that hypothesis-lab cannot decode. No code sets the status `demo`.
- `features.generated` carries no `universeCount`, which signal-generator's decoder requires
  (`presentation/cloud_event_decoder.py:64`).
- `featureVersion` is a function of the day (`main.py:92`), where RULE-FE-006 asks that it be
  unique.
- `orders.approved` and `orders.proposed` are published without fields their subscribers require.
- risk-guard's approve command answers success whatever was decided; an order the BFF has
  updated can no longer be decoded by it.
- the reservation of `common/haskell` never expires; no service calls it yet.

## 5. Proofs

No theorem makes an assumption about the size of an instance, and none about the faults but the
seven `...WhenCalm` at the end of this section. What a fault costs is told by the histories of the
models, order by order, and not by a hypothesis of the theorem.

`OrderExecutionProofs` proves `TypeCorrect`, `ResultsAreTheBrokers` (from `ExecutedOnlyIfTaken` and
`FailedOnlyIfRefused`), `NoLostApproval`, `OneBrokerOrder` (`PlacedOnce`), `SavedBeforeReported` and
`ImplementsContract`. It has two inductive invariants.

`SafeInv` holds of every order: the three properties with `TypeOK`, with `RefusedOK` (the broker
refuses only with a refusal code) and with `HandlerOK`, which says of each handler what it has
seen at the step it is at: at `record` with a success the broker has taken the order under that
number, at `publish` the aggregate it holds is one the broker's answer justifies, at `respond200`
the order is settled. Without it no step that saves or publishes could be justified, because the
properties speak of documents and events only.

`GuardInv` adds `OrderInv(o)` for every order that is not exposed: one handler at most is between
`create` and `record` (`OneDecides`); the broker holds an order exactly if the document says
`EXECUTED` or that handler is about to make it say so (`PlacedAsStored`); what each handler knows
of the document at its step is still so (`WorkedOn`); what was published is what is stored
(`EventsOK`), what is acknowledged is stored (`AckedOK`), and what has ended is reported or about
to be, unless `unreported` (`ToldOK`). The proof is by handler and by order: a step of the handler
of `o` keeps `OrderInv(p)` of every other order (`OthersKept`), so each action needs an argument
for its own order only. `ImplementsContract` is the refinement: initial states map to initial
states, and every step to `Accept`, `Send`, `Execute`, `Fail`, `Stray` or a stutter.

`RiskAssessmentProofs` proves `TypeCorrect`, `KillSwitchHolds`, `AnswersCanBeReliedOn` (from
`ToldOnlyWhatIsAnnounced` and `RejectionCanBeReliedOn`), `BarredStaysBarred` and
`ImplementsContract`.

- `FlowInv` says what each handler works on at each step; the part that matters is that a handler
  with an enabled switch in its settings holds a rejection at `persist` and `publish`, because a
  document that is found is screened again under zero limits (`ScreenedByResult`).
- `ToldInv` adds that a key stands for an announcement (`KeysAnnounced`), and so does a handler
  from `record` on, unless the order is `untold`.
- `BarredInv` adds that a handler of a barred order holds the rule, or, if an operator rejects the
  order, an enabled switch, unless the order is `unscreened`.
- `GuardInv` adds `OrderInv(a)` for every order that is not unguarded: one handler at most decides
  it (`OneDecides`); an order without a key and without such a handler is untouched (`KeyOK`), so
  that the handler that finds no key decides an undecided order and announces it for the first
  time (`WorkOK`). `ImplementsContract` rests on it.

`ControlPlaneProofs` proves all six properties of `control_faults` for any requests and faults:
`TypeCorrect`, `EventsTellWhatWasSaved`, `SuccessCanBeReliedOn`, `KillSwitchHolds`,
`PipelineHearsTheSwitch` and `DesignIsFollowed`. `SafeInv` says what a handler knows at each step,
of histories (`written`, `announced`, `switchEvents`) that only grow (`Grows`), so that no other
request can take it away. The last two theorems speak of operators who take turns and need
`TurnInv`: while no request has overlapped another, one is in flight at most (`Alone`), what it
has read is still so (`StillSo`), and while nothing has gone wrong the kill switch is what its last
event said, or what the handler about to publish will say (`SwitchInStep`).

`PlanningProofs` proves all four properties of `planning_faults`, the refinement of
`PlanningContract` among them, for any faults. `PlanInv` has
three parts: `FlowInv`, what a handler knows at each step whatever fails (only orders that are
saved, of a valid signal, reach `publishProposed`); `Guarded(i)` for the signals that are not in
`unguarded` (one handler at a time; an order without a key is the one its handler is about to
record, so no push makes a second); and `Finished(i)` for those not in `unfinished` (a key without
an announcement has a handler on the way to one). One lemma per action proves the three, from
`HandlerStep`, which says what a step of one handler leaves to the others. For
`ImplementsContract`, `Guarded(i)` says that the order about to be saved is the only one of its
signal, and `FlowInv` that what is about to be announced is saved and may be traded.

`LeasedKeyProofs` proves the lease argument once: `KeyInv` says that for an event nothing has
disturbed (`Exclusive`) one handler works at most, its key is `leased` exactly as long as that one
does, no handler takes it over, and who is done with it has seen it `processed`. It is kept by
each action of the key whatever the work under it does, as long as that work moves by `Done` and
`Fail`.

`FeatureGenerationProofs` and `HypothesisLabProofs` build on it, each with two invariants.
`FlowInv` holds whatever fails: the documents of an event and what every handler has found of them
agree with the outcome its payload calls for (`Verdict`), or a hypothesis with the events and
requests it came from; it gives `AcknowledgedIsPublished` and `MarksAreTrue`, and
`PromotedByTheRulesOnly` and `NoTwoVerdicts`. `OnceInv` and `QuietInv` add what an undisturbed
lease is worth: `OneHandlerAtATime` (one handler, one publication), `AcknowledgedIsTold` and
`NoSecondHypothesis`. `ImplementsContract` is the refinement of `FeatureContract`: `Holds` gives
the outcome its payload calls for at the step that decides it, `OnceInv` that a step which
announces an undisturbed event is the first to. That of `HypothesisContract` needs `FlowInv` alone:
`TellsProposal` and `TellsDemo` say that a handler which is to save finds the hypothesis absent, or
in demo or already with the verdict it brings, unless it is contested, and that one which announces
a verdict has saved it, and it still stands unless it was written over; `Asks(r)` says the same of
a request of the BFF. `Reasoned(h)` ties what both services announced of a hypothesis to its
document and to its backtest (`Backed`): grounds and origin never change once it is in its trial,
whoever replaces the status. (`FailedIsRejected`: a hypothesis whose proposal failed can have no
other status.)

`SignalGenerationProofs` likewise: `FlowInv` says that what is announced was stored; `Quiet(i)`,
for undisturbed events, says that one handler works at most, and that a key which is there belongs
to a handler that has still to publish or to an outcome that was published (`Fits`, `Rests`); it
gives `AcknowledgedIsReported` (of all events but an empty universe) and `DispatchesAreTrue`.
`ImplementsContract` needs both: the first where signals are announced, the second
(`AnnouncedStaysSo`) for nothing to follow them.

A history could excuse everything by naming everything. The *calm* theorems say that it does not:
each assumes that some faults are not in `Faults` (`Calm`, in the module of the proofs), proves
that the history then stays empty, or names only what must be refused, and concludes the promise
of every order or event. What is left out is what the service cannot stand; all else may still
happen, any number of times.

| Theorem | Excluded | Still allowed | Holds of every order or event |
|---|---|---|---|
| `OneBrokerOrderWhenCalm` | crash, overlapping pushes, failed reads, lost writes, lost broker answers, two approvals of one order | refusals, time-outs and retries, redeliveries, lost publications | the broker holds one order at most |
| `DecisionIsFinalWhenCalm` | crash, overlapping pushes, failed reads, lost writes, two requests for one order | redeliveries, lost publications, any change of the switch | a decision is not made again |
| `OneOrderWhenCalm`, `ProposedWhenCalm` | crash, overlapping pushes, failed reads, lost writes, two messages of one signal; for the second also lost publications | redeliveries, lost answers | one order per signal; acknowledged only when proposed |
| `ReportedWhenCalm` | crash, overlapping pushes, lost writes, lost answers, two messages of one event | failed reads, lost publications, redeliveries | reported before acknowledged, except an empty universe; dispatches true, nothing after the signals |
| `PublishedOnceWhenCalm`, `OneHypothesisWhenCalm` | crash, failed reads, lost writes, publications and answers, overrun leases | overlapping pushes, redeliveries, several messages of one event | published once; one hypothesis per proposal |

The last row is what the lease buys: the services with one stand overlapping pushes and copies of a
message, and the others do not. `OneBrokerOrderWhenCalm` and `DecisionIsFinalWhenCalm` prove
what `order_duplicate` and `risk_redecided` violate with the fault that they allow.

Every invariant, action property and refinement of every passing run is thus proved. Only
model-checked: liveness (`EventuallyResolved`, `EventuallyAnnounced`, `EventuallyPublished`), which
rests on fairness and `ENABLED`. The proofs assume `DeliveryAssumption`, `ExecutionAssumption`,
`RiskAssumption`, `ControlAssumption`, `PlanningAssumption`, `LeasedKeyAssumption`,
`FeatureAssumption`, `LabAssumption` and `SignalAssumption`, which TLC evaluates in the runs.

## 6. What is left out, and the plan

Abstracted everywhere: the contents of events and documents beyond what a property tells apart,
logging, metrics, tracing, time stamps, tokens (a request without the permission changes nothing).
A payload is well formed or it is not. Frontends, deployment and scripts are not modelled.

Not modelled: the second use case of feature-engineering (`usecase/`, `presentation/`), which
neither `main.py` nor the Dockerfile starts; `promote`, `reject` and `update_mnpi_self_declaration`
of the `Hypothesis` aggregate, which no service calls; the demo run of execution, whose repository
is a stub; the BFF's requests on insights, model validations, settings and commands, which read,
validate and overwrite as those of `ControlPlane` do, and its retest of a hypothesis, which changes
no document.

What is left, in order:

1. *Collection* (data-collector and insight-collector as instances of one module): dispatch state
   as idempotency, retryable failures, partial failure per source.
2. *Pipeline*: planner, risk-guard and execution composed through their events, with the fields
   a publisher writes and a subscriber requires, and the kill switch of `ControlPlane`.
3. *AgentOrchestration* (suppression by failure knowledge, identifiers new in every delivery) and
   *AuditLog*.
