----------------------------- MODULE HypothesisLab ------------------------------
(***************************************************************************)
(* The hypothesis-lab service: the push handlers of hypothesis.proposed    *)
(* and hypothesis.demo.completed (presentation/subscriber.py,              *)
(* application/hypothesis_workflow_service.py) with the Hypothesis         *)
(* aggregate, one action per request to Firestore or Pub/Sub.              *)
(*                                                                         *)
(* Both handlers share the keys of LeasedKey.  Under the lease, a handler  *)
(* makes a hypothesis of the proposal, or finds the one the demo was of,   *)
(* and applies the result in memory (reserved); then it saves the whole    *)
(* document (saveHypothesis) and the validation run (saveRun), publishes   *)
(* what follows (announce, recordFailure) and settles the key.             *)
(*                                                                         *)
(* The BFF (backend/bff, Presentation/Handler/Hypotheses.hs) promotes,     *)
(* rejects and declares on the same documents, without a key or a lease:   *)
(* a request reads the document (fetch), sets a new one in its place       *)
(* (write) and publishes its decision (publish).                           *)
(***************************************************************************)
EXTENDS LeasedKey, Integers, Sequences

CONSTANTS
  Hypotheses,  \* the identifiers of hypotheses
  InDemo,      \* those that were tested, and put into demo, beforehand
  Requests,    \* the requests that the BFF may get
  Grounds,     \* what may be said for these
  Cases,       \* the payloads that events and requests may have together
  NoHypothesis \* no hypothesis

(* What speaks for a promotion without a decision by hand: no compliance   *)
(* review is asked for, an ETF, of low insider risk, of a symbol that is   *)
(* not restricted, and with the declaration that nothing inside is known.  *)
Rules == {"noReview", "etf", "lowRisk", "unrestricted", "declared"}

(* complete: no required field is missing or malformed; pbo in percent.    *)
Proposal ==
  [kind : {"proposed"}, complete : BOOLEAN, costAdjustedReturn : Int, dsr : Int, pbo : Int,
   grounds : SUBSET (Rules \ {"declared"})]

(* addressed: the hypothesis is named under a key the handler reads;       *)
(* window: the dates can be parsed.                                        *)
DemoResult ==
  [kind : {"demo"}, hypothesis : Hypotheses, addressed : BOOLEAN, window : BOOLEAN,
   demoPeriodDays : Int, promotable : BOOLEAN]

Actions == {"promote", "reject", "declare"}

\* A request of the BFF that passed the permissions, and its own fields.
Request == [kind : Actions, hypothesis : Hypotheses]

NoRequest == [kind |-> "none", hypothesis |-> NoHypothesis]

ASSUME LabAssumption ==
  /\ InDemo \subseteq Hypotheses
  /\ Grounds \subseteq SUBSET Rules
  /\ \A c \in Cases :
       /\ \A i \in Identifiers : c[i] \in Proposal \cup DemoResult
       /\ \A r \in Requests : c[r] \in Request \cup {NoRequest}
  /\ Requests \cap Identifiers = {}
  /\ NoHypothesis \notin Hypotheses
  /\ NoMessage \notin Identifiers

VARIABLES
  event,       \* event[i]: the payload of event i, or of request i (external)
  hypotheses,  \* hypotheses[h]: the hypothesis_registry document
  writer,      \* writer[h]: who set that document last
  overwritten, \* the hypotheses that a verdict was written over of (history)
  failures,    \* the hypotheses failure_knowledge tells of
  work,        \* work[w]: the aggregate the handler w holds, and its events
  published,   \* published[h]: what was published about h
  stage,       \* stage[r]: where the request r of the BFF is
  decided      \* decided[h]: what the BFF published about h

documents == <<hypotheses, writer, overwritten, failures>>
bff == <<stage, decided>>
vars == <<deliveryVars, step, keyVars, event, documents, work, published, bff>>

---------------------------------------------------------------------------------
(* The aggregate.                                                          *)

\* lost: the document says nothing of it any more.
Statuses == {"draft", "backtested", "demo", "live", "rejected", "lost"}

(* A document, or the aggregate made of it: origin is the proposal it was  *)
(* made of (history), grounds are the fields the rules of promotion look   *)
(* at.  In a document that the BFF set nothing is left of the grounds;     *)
(* nobody can read it (writer), and here they tell what they were.         *)
Aggregate == [status : Statuses, origin : Identifiers \cup {NoMessage}, grounds : SUBSET Rules]

Absent == [status |-> "absent", origin |-> NoMessage, grounds |-> {}]

Events == {"hypothesis.backtested", "hypothesis.promoted", "hypothesis.rejected"}

NoWork == [hypothesis |-> NoHypothesis, aggregate |-> Absent, events |-> <<>>]

\* from_proposed_event: nothing is declared in a proposal.
FromProposedEvent(i) == [status |-> "draft", origin |-> i, grounds |-> event[i].grounds]

\* _extract_backtest_metrics of a payload that gives none.
NoMetrics == [costAdjustedReturn |-> 0, dsr |-> 0, pbo |-> 100]

\* _evaluate_backtest.
BacktestPassed(p) == p.costAdjustedReturn > 0 /\ p.dsr > 0 /\ p.pbo < 50

\* Mutant: the status is that of a test that passed.
BacktestResultOneStatus(aggregate, passed) ==
  [aggregate |-> [aggregate EXCEPT !.status = "backtested"],
   events |-> IF passed THEN <<"hypothesis.backtested">>
              ELSE <<"hypothesis.backtested", "hypothesis.rejected">>]

(* apply_backtest_result of a draft: the aggregate, and its domain events. *)
BacktestResult(aggregate, passed) ==
  IF passed
  THEN [aggregate |-> [aggregate EXCEPT !.status = "backtested"],
        events |-> <<"hypothesis.backtested">>]
  ELSE [aggregate |-> [aggregate EXCEPT !.status = "rejected"],
        events |-> <<"hypothesis.backtested", "hypothesis.rejected">>]

Writers == {"nobody", "lab", "outside", "bff"}

(* The BFF leaves but the status, or the declaration, in a document, which *)
(* no decoder takes.                                                       *)
LabReads(h) == writer[h] \in {"lab", "outside"}

\* hypothesis-lab writes no demoPeriod, without which the BFF reads nothing.
BffReads(h) == writer[h] = "outside"

\* What was a verdict, or is lost, is replaced by another status.
WritesOver(h, status) ==
  overwritten' = IF hypotheses[h].status \in {"live", "rejected", "lost"} \ {status}
                 THEN overwritten \cup {h} ELSE overwritten

RequiredDays == 30

\* Mutant: the length of the demo is not looked at.
EligibleAnyLength(aggregate, demo) == aggregate.grounds = Rules

\* _check_auto_promotion_eligibility.
Eligible(aggregate, demo) ==
  demo.demoPeriodDays >= RequiredDays /\ aggregate.grounds = Rules

(* apply_demo_result of a hypothesis in demo; one that is not eligible     *)
(* stays there, and waits for a decision by hand.                          *)
DemoApplied(aggregate, demo) ==
  IF ~demo.promotable
  THEN [aggregate |-> [aggregate EXCEPT !.status = "rejected"],
        events |-> <<"hypothesis.rejected">>]
  ELSE IF Eligible(aggregate, demo)
  THEN [aggregate |-> [aggregate EXCEPT !.status = "live"],
        events |-> <<"hypothesis.promoted">>]
  ELSE [aggregate |-> aggregate, events |-> <<>>]

\* The domain event that is next to be published, unless there is none.
NextEvent(events) == IF events = <<>> THEN "settle" ELSE "announce"

Stages == {"fetch", "write", "publish", "done"}

WorkSteps ==
  {"reserved", "saveHypothesis", "saveRun", "announce", "recordFailure", "settle", "release"}

\* Every variable has its type.
TypeOK ==
  /\ LeasedKeyTypeOK
  /\ step \in [Workers -> Outside \cup WorkSteps]
  /\ event \in Cases
  /\ hypotheses \in [Hypotheses -> Aggregate \cup {Absent}]
  /\ writer \in [Hypotheses -> Writers]
  /\ overwritten \subseteq Hypotheses
  /\ failures \subseteq Hypotheses
  /\ work \in [Workers -> [hypothesis : Hypotheses \cup {NoHypothesis},
                           aggregate : Aggregate \cup {Absent}, events : Seq(Events)]]
  /\ published \in [Hypotheses -> SUBSET Events]
  /\ stage \in [Requests -> Stages]
  /\ decided \in [Hypotheses -> SUBSET Events]

Init ==
  /\ LeasedKeyInit
  /\ event \in Cases
  /\ \E g \in [InDemo -> Grounds] :
       hypotheses = [h \in Hypotheses |->
         IF h \in InDemo THEN [status |-> "demo", origin |-> NoMessage, grounds |-> g[h]]
         ELSE Absent]
  /\ writer = [h \in Hypotheses |-> IF h \in InDemo THEN "outside" ELSE "nobody"]
  /\ overwritten = {}
  /\ failures = {}
  /\ work = [w \in Workers |-> NoWork]
  /\ published = [h \in Hypotheses |-> IF h \in InDemo THEN {"hypothesis.backtested"} ELSE {}]
  /\ stage = [r \in Requests |-> IF event[r] = NoRequest THEN "done" ELSE "fetch"]
  /\ decided = [h \in Hypotheses |-> {}]

---------------------------------------------------------------------------------
(* Under the lease: the result is applied in memory.                       *)

IsProposed(i) == event[i].kind = "proposed"

\* Mutant: the symbol serves as the identifier.
FreshNot(h) == \A v \in Workers : work[v].hypothesis # h

\* Every delivery makes a ULID, which no hypothesis has.
Fresh(h) == hypotheses[h] = Absent /\ \A v \in Workers : work[v].hypothesis # h

\* A proposal becomes a hypothesis; one with a field missing is refused, 400.
Propose(w) ==
  /\ step[w] = "reserved"
  /\ IsProposed(Identifier(w))
  /\ LET p == event[Identifier(w)] IN
       IF p.complete
       THEN /\ \E h \in Hypotheses :
                 /\ Fresh(h)
                 /\ LET r == BacktestResult(FromProposedEvent(Identifier(w)), BacktestPassed(p)) IN
                      work' = [work EXCEPT ![w] =
                        [hypothesis |-> h, aggregate |-> r.aggregate, events |-> r.events]]
            /\ Goto(w, "saveHypothesis")
       ELSE Goto(w, "release") /\ UNCHANGED work
  /\ UNCHANGED <<deliveryVars, keyVars, event, documents, published, bff>>

(* Where the demo's hypothesis leads: 404 when there is none, 500 when it  *)
(* cannot be decoded, 400 for a window without dates, a duplicate when it  *)
(* is live, 409 when it is not in demo.                                    *)
AfterFind(aggregate, readable, demo) ==
  IF ~readable \/ ~demo.window THEN "release"
  ELSE IF aggregate.status = "live" THEN "settle"
  ELSE IF aggregate.status = "demo" THEN "saveHypothesis" ELSE "release"

(* A demo result without a hypothesis is refused before the document is    *)
(* read, 400; execution publishes its results like that.                   *)
FindHypothesis(w) ==
  /\ step[w] = "reserved"
  /\ ~IsProposed(Identifier(w))
  /\ LET demo == event[Identifier(w)]
         h == demo.hypothesis
         r == DemoApplied(hypotheses[h], demo)
         next == IF demo.addressed THEN AfterFind(hypotheses[h], LabReads(h), demo) ELSE "release" IN
       /\ Done(w, next)
       /\ work' = IF next # "saveHypothesis" THEN work
                  ELSE [work EXCEPT ![w] =
                         [hypothesis |-> h, aggregate |-> r.aggregate, events |-> r.events]]
  /\ UNCHANGED <<deliveryVars, keys, event, documents, published, bff>>

---------------------------------------------------------------------------------
(* Save it, and tell of it.                                                *)

\* The whole document is set, whatever stands there by now.
SaveHypothesis(w) ==
  /\ step[w] = "saveHypothesis"
  /\ LET h == work[w].hypothesis IN
       /\ hypotheses' = [hypotheses EXCEPT ![h] = work[w].aggregate]
       /\ writer' = [writer EXCEPT ![h] = "lab"]
       /\ WritesOver(h, work[w].aggregate.status)
  /\ Done(w, "saveRun")
  /\ UNCHANGED <<deliveryVars, keys, event, failures, work, published, bff>>

\* The backtest run or demo run is set, which nobody reads.
SaveRun(w) ==
  /\ step[w] = "saveRun"
  /\ Done(w, NextEvent(work[w].events))
  /\ UNCHANGED <<deliveryVars, keys, event, documents, work, published, bff>>

\* Mutant: one publication is taken for all of them.
AnnounceOnce(w) ==
  /\ step[w] = "announce"
  /\ published' = [published EXCEPT ![work[w].hypothesis] = @ \cup {Head(work[w].events)}]
  /\ Done(w, IF Head(work[w].events) = "hypothesis.rejected" THEN "recordFailure" ELSE "settle")
  /\ UNCHANGED <<deliveryVars, keys, event, documents, work, bff>>

\* The domain events are published one by one.
Announce(w) ==
  /\ step[w] = "announce"
  /\ LET e == Head(work[w].events)
         rest == Tail(work[w].events) IN
       /\ published' = [published EXCEPT ![work[w].hypothesis] = @ \cup {e}]
       /\ work' = [work EXCEPT ![w].events = rest]
       /\ Done(w, IF e = "hypothesis.rejected" THEN "recordFailure" ELSE NextEvent(rest))
  /\ UNCHANGED <<deliveryVars, keys, event, documents, bff>>

\* The failure_knowledge names the hypothesis in its markdown only.
RecordFailure(w) ==
  /\ step[w] = "recordFailure"
  /\ failures' = failures \cup {work[w].hypothesis}
  /\ Done(w, NextEvent(work[w].events))
  /\ UNCHANGED <<deliveryVars, keys, event, hypotheses, writer, overwritten, work,
                 published, bff>>

---------------------------------------------------------------------------------
(* Requests that fail.                                                     *)

Writes ==
  {"create", "take", "saveHypothesis", "saveRun", "recordFailure", "settle", "release"}

\* A request fails and does nothing; nothing but the key is undone.
RequestFails(w) ==
  /\ \/ step[w] = "look" /\ "readError" \in Faults
     \/ step[w] = "reserved" /\ ~IsProposed(Identifier(w)) /\ "readError" \in Faults
     \/ step[w] \in Writes /\ "persistLost" \in Faults
     \/ step[w] = "announce" /\ "publishLost" \in Faults
  /\ Fail(w)
  /\ UNCHANGED <<deliveryVars, keys, event, documents, work, published, bff>>

---------------------------------------------------------------------------------
Forget(w) == work' = [work EXCEPT ![w] = NoWork]

Receive(w, m) == ReceiveMessage(w, m) /\ UNCHANGED <<event, documents, work, published, bff>>

UseKey(w) ==
  /\ Reserve(w) \/ SettleKey(w) \/ ReleaseKey(w)
  /\ UNCHANGED <<deliveryVars, event, documents, work, published, bff>>

Reply(w) == Answer(w) /\ Forget(w) /\ UNCHANGED <<event, documents, published, bff>>

Die(w) == Crash(w) /\ Forget(w) /\ UNCHANGED <<event, documents, published, bff>>

LeaseRunsOut(i) == LeaseExpires(i) /\ UNCHANGED <<event, documents, work, published, bff>>

Tell(w) == SaveHypothesis(w) \/ SaveRun(w) \/ Announce(w) \/ RecordFailure(w)

Handle(w) == UseKey(w) \/ Propose(w) \/ FindHypothesis(w) \/ Tell(w) \/ Reply(w)

---------------------------------------------------------------------------------
(* The BFF.                                                                *)

\* The status that a document says the request of this kind leads to.
StatusAfter(kind) ==
  CASE kind = "promote" -> "live" [] kind = "reject" -> "rejected" [] OTHER -> "lost"

EventAfter(kind) == IF kind = "promote" THEN "hypothesis.promoted" ELSE "hypothesis.rejected"

\* validatePromote and validateReject; a declaration is not validated.
Validates(kind, aggregate) ==
  /\ kind # "declare" => aggregate.status = "demo"
  /\ kind = "promote" => {"noReview", "declared"} \subseteq aggregate.grounds

Proceed(r, s) == stage' = [stage EXCEPT ![r] = s]

(* 404 when there is no document, 503 when it cannot be decoded, which is  *)
(* left open of what is written outside; 409 when it is not validated.     *)
FetchHypothesis(r) ==
  /\ stage[r] = "fetch"
  /\ LET h == event[r].hypothesis IN
       \/ BffReads(h) /\ Validates(event[r].kind, hypotheses[h]) /\ Proceed(r, "write")
       \/ Proceed(r, "done")
  /\ UNCHANGED <<deliveryVars, step, keyVars, event, documents, work, published, decided>>

(* A PATCH without a mask sets a document of the given fields, whatever    *)
(* stands there by now; when its answer is lost, it is repeated or given   *)
(* up.  Only a decision is published.                                      *)
UpdateHypothesis(r) ==
  /\ stage[r] = "write"
  /\ LET h == event[r].hypothesis
         status == StatusAfter(event[r].kind) IN
       /\ hypotheses' = [hypotheses EXCEPT ![h].status = status]
       /\ writer' = [writer EXCEPT ![h] = "bff"]
       /\ WritesOver(h, status)
  /\ \/ Proceed(r, IF event[r].kind = "declare" THEN "done" ELSE "publish")
     \/ "lostAnswer" \in Faults /\ (UNCHANGED stage \/ Proceed(r, "done"))
  /\ UNCHANGED <<deliveryVars, step, keyVars, event, failures, work, published, decided>>

PublishDecision(r) ==
  /\ stage[r] = "publish"
  /\ decided' = [decided EXCEPT ![event[r].hypothesis] = @ \cup {EventAfter(event[r].kind)}]
  /\ Proceed(r, "done")
  /\ UNCHANGED <<deliveryVars, step, keyVars, event, documents, work, published>>

\* A request that fails is not made again; a publication's failure is ignored.
RequestEnds(r) ==
  /\ \/ "crash" \in Faults /\ stage[r] # "done"
     \/ stage[r] = "write" /\ "persistLost" \in Faults
     \/ stage[r] = "publish" /\ "publishLost" \in Faults
  /\ Proceed(r, "done")
  /\ UNCHANGED <<deliveryVars, step, keyVars, event, documents, work, published, decided>>

Serve(r) == FetchHypothesis(r) \/ UpdateHypothesis(r) \/ PublishDecision(r) \/ RequestEnds(r)

---------------------------------------------------------------------------------
\* The events that bring the result of a demo of h.
DemosOf(h) == {i \in Identifiers : ~IsProposed(i) /\ event[i].hypothesis = h}

RequestsFor(h) == {r \in Requests : event[r].hypothesis = h}

(* No code of the repository sets the status demo: the method of           *)
(* hypothesis-lab that is named for it does nothing.  Whoever does it may  *)
(* set the declaration along.  Demos that nobody tells of or asks about,   *)
(* which nothing follows from, are left out.                               *)
StartDemo(h) ==
  /\ hypotheses[h].status = "backtested"
  /\ DemosOf(h) \cup RequestsFor(h) # {}
  /\ \E declared \in SUBSET {"declared"} :
       hypotheses' = [hypotheses EXCEPT ![h].status = "demo", ![h].grounds = @ \cup declared]
  /\ writer' = [writer EXCEPT ![h] = "outside"]
  /\ UNCHANGED <<deliveryVars, step, keyVars, event, overwritten, failures, work, published,
                 bff>>

Subscription ==
  /\ \E m \in Messages : Expire(m) \/ Redeliver(m)
  /\ UNCHANGED <<step, keyVars, event, documents, work, published, bff>>

Next ==
  \/ \E w \in Workers, m \in Messages : Receive(w, m)
  \/ \E w \in Workers : Handle(w) \/ RequestFails(w) \/ Die(w)
  \/ \E i \in Identifiers : LeaseRunsOut(i)
  \/ \E r \in Requests : Serve(r)
  \/ \E h \in Hypotheses : StartDemo(h)
  \/ Subscription

Spec == Init /\ [][Next]_vars

---------------------------------------------------------------------------------
(* What the service must keep to.                                          *)

SeveralDemos(h) == \E i, j \in DemosOf(h) : i # j

\* More than one demo or request comes to a decision on h.
Contested(h) == \E d, e \in DemosOf(h) \cup RequestsFor(h) : d # e

(* h is told of as the status asks for that hypothesis-lab saved.          *)
Told(h) ==
  LabReads(h) =>
    /\ hypotheses[h].status = "live" => "hypothesis.promoted" \in published[h]
    /\ hypotheses[h].status = "rejected" =>
         "hypothesis.rejected" \in published[h] /\ h \in failures

\* The proposal i has become a hypothesis that was told of.
ProposalTold(i) ==
  \E h \in Hypotheses :
    /\ hypotheses[h].origin = i
    /\ "hypothesis.backtested" \in published[h]
    /\ ~BacktestPassed(event[i]) => "hypothesis.rejected" \in published[h] /\ h \in failures

(* Whatever fails, a proposal is acknowledged only after the result of its *)
(* backtest was told, and kept when it failed (RULE-HL-005); the result of *)
(* a demo only after the verdict was, while nothing disturbs its handling, *)
(* it is the only one of its hypothesis and the BFF has not set the        *)
(* document since.                                                         *)
AckedIsTold ==
  \A m \in WellFormed : LET i == IdentifierOf[m] IN
    sub[m] = "acked" =>
      IF IsProposed(i) THEN ProposalTold(i)
      ELSE LET h == event[i].hypothesis IN i \notin disturbed /\ DemosOf(h) = {i} => Told(h)

\* The proposal that h was made of passed its backtest.
Tested(h) == h \in InDemo \/ BacktestPassed(event[hypotheses[h].origin])

(* Whatever fails and however handlers and requests overlap, hypothesis-   *)
(* lab promotes only after the backtest passed and a demo of 30 days or    *)
(* more that said so, and with every ground in its favour (RULE-HL-001 to  *)
(* 004); the BFF, which asks for no days, only after the backtest passed,  *)
(* without a review pending and with the declaration.                      *)
PromotedByTheRules ==
  \A h \in Hypotheses :
    /\ "hypothesis.promoted" \in published[h] =>
         /\ hypotheses[h].grounds = Rules /\ Tested(h)
         /\ \E i \in DemosOf(h) : event[i].promotable /\ event[i].demoPeriodDays >= RequiredDays
    /\ "hypothesis.promoted" \in decided[h] =>
         {"noReview", "declared"} \subseteq hypotheses[h].grounds /\ Tested(h)

\* What was published about h, by either service.
Announced == [h \in Hypotheses |-> published[h] \cup decided[h]]

(* Whatever fails and however handlers and requests overlap, no hypothesis *)
(* is told both to be promoted and rejected, by whichever service, unless  *)
(* one verdict on it was written over by another.                          *)
OneVerdict ==
  \A h \in Hypotheses :
    {"hypothesis.promoted", "hypothesis.rejected"} \subseteq Announced[h] => h \in overwritten

(* However often a proposal is pushed, it becomes one hypothesis, as long  *)
(* as nothing disturbs its handling (RULE-HL-006): each delivery would     *)
(* make an identifier of its own.                                          *)
OneHypothesisPerProposal ==
  \A i \in Identifiers \ disturbed :
    \A g, h \in Hypotheses : hypotheses[g].origin = i /\ hypotheses[h].origin = i => g = h

SavedStatus == [h \in Hypotheses |-> hypotheses[h].status]

Contract == INSTANCE HypothesisContract WITH
  status <- SavedStatus, contested <- {h \in Hypotheses : Contested(h)}

(* Whatever fails and however handlers and requests overlap, no write      *)
(* takes a hypothesis back to where it was, and none takes it out of a     *)
(* verdict unless two demos or requests, of hypothesis-lab or the BFF,     *)
(* decide on it: the lease is per event, the BFF has none, and both set    *)
(* documents whole.  No event or failure is told of but that of a saved    *)
(* status, unless it was written over.  That the declaration of the BFF    *)
(* loses the status is part of what both services do.                      *)
ContractSpec == Contract!Spec

=================================================================================
