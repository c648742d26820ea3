-------------------------- MODULE HypothesisLabProofs ---------------------------
(***************************************************************************)
(* Theorems about HypothesisLab, for any number of messages, events,       *)
(* hypotheses, handlers and deliveries, and any payloads.                  *)
(***************************************************************************)
EXTENDS HypothesisLab, LeasedKeyProofs

---------------------------------------------------------------------------------
(* What the rules of the aggregate come to.                                *)

\* The status after the demo i of a hypothesis with the grounds g.
Result(i, g) ==
  IF ~event[i].promotable THEN "rejected"
  ELSE IF event[i].demoPeriodDays >= RequiredDays /\ g = Rules THEN "live" ELSE "demo"

\* The events that a status after a demo asks for.
ResultEvents(status) ==
  IF status = "rejected" THEN <<"hypothesis.rejected">>
  ELSE IF status = "live" THEN <<"hypothesis.promoted">> ELSE <<>>

\* A hypothesis that was put into demo, or rejected, or lost from there.
InTrial == {"demo", "live", "rejected", "lost"}

\* What a hypothesis is not taken out of, unless it is written over.
Verdicts == {"live", "rejected", "lost"}

\* All demos of h and all requests for it lead to the status s.
Agreed(h, s) ==
  /\ \A i \in DemosOf(h) : Result(i, hypotheses[h].grounds) = s
  /\ \A r \in RequestsFor(h) : StatusAfter(event[r].kind) = s

Passed(i) == BacktestPassed(event[i])

\* The proposal that h was made of, if it was made of one, passed its backtest.
Backed(h) ==
  \/ h \in InDemo
  \/ /\ hypotheses[h].origin \in Identifiers
     /\ IsProposed(hypotheses[h].origin) /\ Passed(hypotheses[h].origin)

---------------------------------------------------------------------------------
(* The first inductive invariant: what a handler knows at each step, and   *)
(* what was published about each hypothesis.                               *)

Types ==
  /\ step \in [Workers -> Outside \cup WorkSteps]
  /\ event \in Cases
  /\ hypotheses \in [Hypotheses -> Aggregate \cup {Absent}]
  /\ writer \in [Hypotheses -> Writers]
  /\ overwritten \subseteq Hypotheses
  /\ failures \subseteq Hypotheses
  /\ work \in [Workers -> [hypothesis : Hypotheses \cup {NoHypothesis},
                           aggregate : Aggregate \cup {Absent}, events : Seq(Events)]]
  /\ published \in [Hypotheses -> SUBSET Events]
  /\ stage \in [Requests -> Stages]
  /\ decided \in [Hypotheses -> SUBSET Events]

\* The steps of a handler that has applied a result.
TellSteps == {"saveHypothesis", "saveRun", "announce", "recordFailure"}

(* The handler of the proposal i made the hypothesis h.                    *)
TellsProposal(w, i, h) ==
  /\ h \in Hypotheses
  /\ step[w] = "saveHypothesis" =>
       /\ hypotheses[h].status = "absent"
       /\ work[w].aggregate = BacktestResult(FromProposedEvent(i), Passed(i)).aggregate
       /\ \A v \in Workers : v # w => work[v].hypothesis # h
  /\ step[w] # "saveHypothesis" => hypotheses[h].origin = i
  /\ step[w] \in {"saveHypothesis", "saveRun"} =>
       work[w].events = BacktestResult(FromProposedEvent(i), Passed(i)).events
  /\ step[w] = "announce" =>
       \/ work[w].events = <<"hypothesis.backtested">> /\ Passed(i)
       \/ work[w].events = <<"hypothesis.backtested", "hypothesis.rejected">> /\ ~Passed(i)
       \/ /\ work[w].events = <<"hypothesis.rejected">> /\ ~Passed(i)
          /\ "hypothesis.backtested" \in published[h]
  /\ step[w] = "recordFailure" =>
       /\ work[w].events = <<>> /\ ~Passed(i)
       /\ {"hypothesis.backtested", "hypothesis.rejected"} \subseteq published[h]
  /\ step[w] = "settle" =>
       /\ "hypothesis.backtested" \in published[h]
       /\ ~Passed(i) => "hypothesis.rejected" \in published[h] /\ h \in failures

(* The handler of the demo i applied its result to the hypothesis h.       *)
TellsDemo(w, i, h) ==
  /\ h \in Hypotheses /\ i \in DemosOf(h)
  /\ hypotheses[h].status \in InTrial /\ Backed(h)
  /\ work[w].aggregate.grounds = hypotheses[h].grounds
  /\ work[w].aggregate.origin = hypotheses[h].origin
  /\ work[w].aggregate.status = Result(i, hypotheses[h].grounds)
  /\ Contested(h) \/ hypotheses[h].status \in {"demo", work[w].aggregate.status}
  /\ step[w] # "saveHypothesis" =>
       /\ ~SeveralDemos(h) /\ LabReads(h) => hypotheses[h].status = work[w].aggregate.status
       /\ work[w].aggregate.status # "demo" /\ h \notin overwritten =>
            hypotheses[h].status = work[w].aggregate.status
  /\ step[w] \in {"saveHypothesis", "saveRun", "announce"} =>
       work[w].events = ResultEvents(work[w].aggregate.status)
  /\ step[w] = "announce" => work[w].events # <<>>
  /\ step[w] = "recordFailure" =>
       /\ work[w].events = <<>> /\ work[w].aggregate.status = "rejected"
       /\ "hypothesis.rejected" \in published[h]
  /\ step[w] = "settle" =>
       /\ work[w].aggregate.status = "live" => "hypothesis.promoted" \in published[h]
       /\ work[w].aggregate.status = "rejected" =>
            "hypothesis.rejected" \in published[h] /\ h \in failures

Knows(w) ==
  /\ step[w] \in {"idle", "reserved"} \cup ReserveSteps => work[w] = NoWork
  /\ step[w] \in TellSteps => work[w].hypothesis # NoHypothesis
  /\ step[w] \in TellSteps \cup {"settle"} =>
       IF IsProposed(Identifier(w))
       THEN TellsProposal(w, Identifier(w), work[w].hypothesis)
       ELSE work[w].hypothesis # NoHypothesis =>
              TellsDemo(w, Identifier(w), work[w].hypothesis)
  /\ step[w] = "ok" /\ IsProposed(Identifier(w)) => ProposalTold(Identifier(w))

(* The BFF looked at the hypothesis that the request r is for.             *)
Asks(r) ==
  LET h == event[r].hypothesis
      kind == event[r].kind IN
  /\ stage[r] # "done" => event[r] \in Request
  /\ stage[r] \in {"write", "publish"} =>
       /\ hypotheses[h].status \in InTrial /\ Backed(h)
       /\ kind = "promote" => {"noReview", "declared"} \subseteq hypotheses[h].grounds
  /\ stage[r] = "write" => Contested(h) \/ hypotheses[h].status \in {"demo", StatusAfter(kind)}
  /\ stage[r] = "publish" =>
       /\ kind # "declare"
       /\ h \notin overwritten => hypotheses[h].status = StatusAfter(kind)

\* What is said of h has its reason.
Reasoned(h) ==
  /\ hypotheses[h].status # "draft"
  /\ hypotheses[h].status \in {"backtested", "demo", "live", "lost"} => Backed(h)
  /\ h \in InDemo => hypotheses[h].origin = NoMessage /\ hypotheses[h].status \in InTrial
  /\ hypotheses[h].status = "rejected" /\ h \notin InDemo =>
       hypotheses[h].origin \in Identifiers /\ IsProposed(hypotheses[h].origin)
  /\ writer[h] = "outside" => hypotheses[h].status = "demo"
  /\ "hypothesis.promoted" \in published[h] =>
       /\ hypotheses[h].status \in InTrial /\ Backed(h) /\ hypotheses[h].grounds = Rules
       /\ \E i \in DemosOf(h) : event[i].promotable /\ event[i].demoPeriodDays >= RequiredDays
  /\ "hypothesis.promoted" \in decided[h] =>
       /\ hypotheses[h].status \in InTrial /\ Backed(h)
       /\ {"noReview", "declared"} \subseteq hypotheses[h].grounds
  /\ h \notin overwritten =>
       /\ "hypothesis.promoted" \in published[h] \cup decided[h] => hypotheses[h].status = "live"
       /\ "hypothesis.rejected" \in published[h] \cup decided[h] =>
            hypotheses[h].status = "rejected"

ProposalsTold ==
  /\ \A i \in Identifiers : IsProposed(i) /\ keys[i] = "processed" => ProposalTold(i)
  /\ \A m \in WellFormed :
       sub[m] = "acked" /\ IsProposed(IdentifierOf[m]) => ProposalTold(IdentifierOf[m])

FlowInv ==
  /\ KeyInv /\ Types /\ ProposalsTold
  /\ \A w \in Workers : Knows(w)
  /\ \A r \in Requests : Asks(r)
  /\ \A h \in Hypotheses : Reasoned(h)

---------------------------------------------------------------------------------
(* The second one: what an undisturbed lease adds.                         *)

\* No result of i was saved yet, or is about to be.
Unsaved(i) ==
  \/ keys[i] = "absent"
  \/ \E w \in Owners(i) : step[w] \in {"reserved", "saveHypothesis"}

Quiet(i) ==
  /\ IsProposed(i) =>
       /\ Unsaved(i) => \A h \in Hypotheses : hypotheses[h].origin # i
       /\ \A g, h \in Hypotheses : hypotheses[g].origin = i /\ hypotheses[h].origin = i => g = h
  /\ ~IsProposed(i) /\ DemosOf(event[i].hypothesis) = {i} =>
       LET h == event[i].hypothesis IN
       /\ Unsaved(i) /\ LabReads(h) => hypotheses[h].status # "live"
       /\ \A w \in Owners(i) : step[w] = "settle" => work[w].hypothesis = h
       /\ keys[i] = "processed" => hypotheses[h].status \in InTrial /\ Told(h)

QuietInv == FlowInv /\ \A i \in Identifiers \ disturbed : Quiet(i)

---------------------------------------------------------------------------------
(* The events, and the rules of the aggregate.                             *)

LEMMA PayloadTypes ==
  ASSUME Types, NEW i \in Identifiers
  PROVE  /\ IsProposed(i) => event[i] \in Proposal
         /\ ~IsProposed(i) => event[i] \in DemoResult
         /\ \A h \in Hypotheses : i \in DemosOf(h) => ~IsProposed(i) /\ event[i].hypothesis = h
<1>1. event[i] \in Proposal \cup DemoResult
  BY LabAssumption DEF Types
<1> QED
  BY <1>1 DEF IsProposed, Proposal, DemoResult, DemosOf

(* The result of a backtest is that of the proposal, and tells so.         *)
LEMMA BacktestLemma ==
  ASSUME Types, NEW i \in Identifiers, IsProposed(i),
         NEW r, r = BacktestResult(FromProposedEvent(i), Passed(i))
  PROVE  /\ r.aggregate \in Aggregate /\ r.aggregate.origin = i
         /\ Passed(i) => /\ r.aggregate.status = "backtested"
                         /\ r.events = <<"hypothesis.backtested">>
         /\ ~Passed(i) => /\ r.aggregate.status = "rejected"
                          /\ r.events = <<"hypothesis.backtested", "hypothesis.rejected">>
         /\ r.events \in Seq(Events)
<1> DEFINE a == FromProposedEvent(i)
<1>1. a \in Aggregate /\ a.origin = i
  BY PayloadTypes DEF FromProposedEvent, Aggregate, Statuses, Proposal
<1> HIDE DEF a
<1>2. CASE Passed(i)
  <2>1. r.aggregate = [a EXCEPT !.status = "backtested"] /\ r.events = <<"hypothesis.backtested">>
    BY <1>2 DEF BacktestResult, a
  <2>2. r.events \in Seq(Events)
    BY <2>1 DEF Events
  <2>3. r.aggregate \in Aggregate /\ r.aggregate.origin = i /\ r.aggregate.status = "backtested"
    BY <1>1, <2>1 DEF Aggregate, Statuses
  <2> QED
    BY <1>2, <2>1, <2>2, <2>3
<1>3. CASE ~Passed(i)
  <2>1. /\ r.aggregate = [a EXCEPT !.status = "rejected"]
        /\ r.events = <<"hypothesis.backtested", "hypothesis.rejected">>
    BY <1>3 DEF BacktestResult, a
  <2> QED
    BY <1>1, <1>3, <2>1 DEF Aggregate, Statuses, Events
<1> QED
  BY <1>2, <1>3

(* The result of a demo keeps what the hypothesis is, and tells its status. *)
LEMMA DemoLemma ==
  ASSUME Types, NEW i \in Identifiers, ~IsProposed(i),
         NEW a \in Aggregate, a.status = "demo", NEW r, r = DemoApplied(a, event[i])
  PROVE  /\ r.aggregate \in Aggregate
         /\ r.aggregate.origin = a.origin /\ r.aggregate.grounds = a.grounds
         /\ r.aggregate.status = Result(i, a.grounds)
         /\ r.events = ResultEvents(r.aggregate.status) /\ r.events \in Seq(Events)
<1>1. event[i] \in DemoResult
  BY PayloadTypes
<1>2. CASE ~event[i].promotable
  <2>1. /\ r.aggregate = [a EXCEPT !.status = "rejected"]
        /\ r.events = <<"hypothesis.rejected">>
    BY <1>2 DEF DemoApplied
  <2> QED
    BY <1>2, <2>1 DEF Aggregate, Statuses, Events, Result, ResultEvents
<1>3. CASE event[i].promotable /\ Eligible(a, event[i])
  <2>1. /\ r.aggregate = [a EXCEPT !.status = "live"]
        /\ r.events = <<"hypothesis.promoted">>
    BY <1>3 DEF DemoApplied
  <2> QED
    BY <1>3, <2>1 DEF Aggregate, Statuses, Events, Result, ResultEvents, Eligible
<1>4. CASE event[i].promotable /\ ~Eligible(a, event[i])
  <2>1. r.aggregate = a /\ r.events = <<>>
    BY <1>4 DEF DemoApplied
  <2> QED
    BY <1>4, <2>1 DEF Result, ResultEvents, Eligible
<1> QED
  BY <1>2, <1>3, <1>4

LEMMA ResultRange ==
  ASSUME NEW i, NEW g
  PROVE  Result(i, g) \in InTrial
  BY DEF Result, InTrial

(* Only what was made of a proposal names one.                             *)
LEMMA OriginLemma ==
  ASSUME Types, NEW h \in Hypotheses, hypotheses[h].origin \in Identifiers
  PROVE  hypotheses[h].status # "absent"
<1>1. hypotheses[h] \in Aggregate \cup {Absent}
  BY DEF Types
<1>2. hypotheses[h] # Absent
  BY LabAssumption DEF Absent
<1> QED
  BY <1>1, <1>2 DEF Aggregate, Statuses

---------------------------------------------------------------------------------
(* A step of one handler leaves what the others know true.                 *)

SameHandler(v) == step'[v] = step[v] /\ held'[v] = held[v] /\ work'[v] = work[v]

(* What a step may do to the document of h.  Where all agree, h comes to   *)
(* what they agree on; what hypothesis-lab reads is the result of the only *)
(* demo, or what was there; and a verdict stays that is not written over.  *)
Kept(h) ==
  /\ hypotheses[h].status # "absent" =>
       hypotheses'[h].status # "absent" /\ hypotheses'[h].origin = hypotheses[h].origin
  /\ hypotheses[h].status \in InTrial =>
       hypotheses'[h].status \in InTrial /\ hypotheses'[h].grounds = hypotheses[h].grounds
  /\ \A s \in InTrial : Agreed(h, s) /\ hypotheses[h].status \in {"demo", s} =>
       hypotheses'[h].status \in {"demo", s}
  /\ \A i \in DemosOf(h) :
       ~SeveralDemos(h) /\ hypotheses[h].status \in InTrial /\ writer'[h] \in {"lab", "outside"} =>
         \/ hypotheses'[h].status = Result(i, hypotheses[h].grounds)
         \/ LabReads(h) /\ hypotheses'[h].status = hypotheses[h].status
  /\ hypotheses[h].status \in Verdicts /\ h \notin overwritten' =>
       hypotheses'[h].status = hypotheses[h].status

\* What was saved, published or kept stays.
Grows ==
  /\ event' = event
  /\ failures \subseteq failures' /\ overwritten \subseteq overwritten'
  /\ \A h \in Hypotheses : published[h] \subseteq published'[h] /\ Kept(h)

\* The handler v has made a hypothesis that is not saved yet.
Unwritten(v) == step[v] = "saveHypothesis" /\ IsProposed(Identifier(v))

\* Nobody saves, or takes up, the hypothesis that v made.
Spared(v) ==
  Unwritten(v) =>
    /\ hypotheses'[work[v].hypothesis].status = "absent"
    /\ \A u \in Workers : u # v => work'[u].hypothesis # work[v].hypothesis

LEMMA HandlerOf ==
  ASSUME FlowInv, NEW w \in Workers, step[w] \notin {"idle", "error"}, NEW i, i = Identifier(w)
  PROVE  i \in Identifiers /\ held[w] \in Messages /\ held[w] \in WellFormed /\ Knows(w)
  BY EventOfHandler DEF FlowInv, KeyInv

\* What the payloads say does not change.
LEMMA EventStable ==
  ASSUME event' = event
  PROVE  /\ \A i \in Identifiers : Passed(i)' = Passed(i) /\ IsProposed(i)' = IsProposed(i)
         /\ \A h \in Hypotheses :
              /\ DemosOf(h)' = DemosOf(h) /\ SeveralDemos(h)' = SeveralDemos(h)
              /\ Contested(h)' = Contested(h)
         /\ \A i, g : Result(i, g)' = Result(i, g)
<1>1. \A h \in Hypotheses : RequestsFor(h)' = RequestsFor(h)
  BY DEF RequestsFor
<1>2. \A h \in Hypotheses : DemosOf(h)' = DemosOf(h)
  BY DEF DemosOf, IsProposed
<1> QED
  BY <1>1, <1>2 DEF Passed, IsProposed, SeveralDemos, Contested, Result

\* The only one that decides on h agrees with itself.
LEMMA AgreedAlone ==
  ASSUME Types, NEW h \in Hypotheses, ~Contested(h)
  PROVE  /\ \A i \in DemosOf(h) : Agreed(h, Result(i, hypotheses[h].grounds))
         /\ \A r \in RequestsFor(h) : Agreed(h, StatusAfter(event[r].kind))
<1>1. \A d, e \in DemosOf(h) \cup RequestsFor(h) : d = e
  BY DEF Contested
<1>2. \A i \in DemosOf(h), r \in RequestsFor(h) : i # r
  BY LabAssumption DEF DemosOf, RequestsFor
<1> QED
  BY <1>1, <1>2 DEF Agreed

\* What several demos decide on is contested.
LEMMA SeveralContest == ASSUME NEW h, SeveralDemos(h) PROVE Contested(h)
  BY DEF SeveralDemos, Contested

LEMMA StatusAfterRange ==
  ASSUME NEW kind
  PROVE  StatusAfter(kind) \in Verdicts
  BY DEF StatusAfter, Verdicts

LEMMA ToldStable ==
  ASSUME Types, Grows, NEW i \in Identifiers, ProposalTold(i)
  PROVE  ProposalTold(i)'
<1>1. PICK h \in Hypotheses :
        /\ hypotheses[h].origin = i
        /\ "hypothesis.backtested" \in published[h]
        /\ ~Passed(i) => "hypothesis.rejected" \in published[h] /\ h \in failures
  BY DEF ProposalTold, Passed
<1>2. hypotheses[h].status # "absent"
  BY <1>1, OriginLemma
<1>3. hypotheses'[h].origin = i /\ published[h] \subseteq published'[h] /\ failures \subseteq failures'
  BY <1>1, <1>2 DEF Grows, Kept
<1>4. Passed(i)' = Passed(i)
  BY EventStable DEF Grows
<1> QED
  BY <1>1, <1>3, <1>4 DEF ProposalTold, Passed

LEMMA BackedStable ==
  ASSUME Types, Grows, NEW h \in Hypotheses, Backed(h)
  PROVE  Backed(h)'
<1>1. CASE h \in InDemo
  BY <1>1 DEF Backed
<1>2. CASE h \notin InDemo
  <2>1. PICK i \in Identifiers : hypotheses[h].origin = i /\ IsProposed(i) /\ Passed(i)
    BY <1>2 DEF Backed
  <2>2. hypotheses'[h].origin = i
    BY <2>1, OriginLemma DEF Grows, Kept
  <2>3. IsProposed(i)' /\ Passed(i)'
    BY <2>1, EventStable DEF Grows
  <2> QED
    BY <2>2, <2>3 DEF Backed, IsProposed, Passed
<1> QED
  BY <1>1, <1>2

LEMMA TellsProposalStable ==
  ASSUME Types, NEW v \in Workers, NEW i \in Identifiers, NEW h, TellsProposal(v, i, h),
         SameHandler(v), Grows, IsProposed(i), i = Identifier(v), h = work[v].hypothesis, Spared(v)
  PROVE  TellsProposal(v, i, h)'
<1>1. h \in Hypotheses
  BY DEF TellsProposal
<1>2. /\ BacktestResult(FromProposedEvent(i), Passed(i))'
           = BacktestResult(FromProposedEvent(i), Passed(i))
      /\ Passed(i)' = Passed(i)
  BY DEF FromProposedEvent, Passed, Grows
<1>3. step'[v] = step[v] /\ work'[v] = work[v]
  BY DEF SameHandler
<1>4. step[v] # "saveHypothesis" => hypotheses'[h].origin = i
  BY <1>1, OriginLemma DEF TellsProposal, Grows, Kept
<1>5. step[v] = "saveHypothesis" =>
        /\ hypotheses'[h].status = "absent"
        /\ \A u \in Workers : u # v => work'[u].hypothesis # h
  BY DEF Spared, Unwritten
<1>6. published[h] \subseteq published'[h] /\ failures \subseteq failures'
  BY <1>1 DEF Grows
<1> QED
  BY <1>1, <1>2, <1>3, <1>4, <1>5, <1>6 DEF TellsProposal

LEMMA TellsDemoStable ==
  ASSUME Types, NEW v \in Workers, NEW i \in Identifiers, NEW h, TellsDemo(v, i, h),
         SameHandler(v), Grows
  PROVE  TellsDemo(v, i, h)'
<1>1. h \in Hypotheses /\ i \in DemosOf(h) /\ hypotheses[h].status \in InTrial
  BY DEF TellsDemo
<1>2. step'[v] = step[v] /\ work'[v] = work[v]
  BY DEF SameHandler
<1>3. /\ DemosOf(h)' = DemosOf(h) /\ SeveralDemos(h)' = SeveralDemos(h)
      /\ Contested(h)' = Contested(h)
      /\ \A g : Result(i, g)' = Result(i, g)
  BY <1>1, EventStable DEF Grows
<1>4. /\ hypotheses'[h].status \in InTrial /\ hypotheses'[h].grounds = hypotheses[h].grounds
      /\ hypotheses'[h].origin = hypotheses[h].origin
  BY <1>1 DEF Grows, Kept, InTrial
<1>5. Backed(h)'
  BY <1>1, BackedStable DEF TellsDemo
<1> PICK r : r = Result(i, hypotheses[h].grounds)
  OBVIOUS
<1>6. work[v].aggregate.status = r /\ Result(i, hypotheses[h].grounds)' = r
  BY <1>1, <1>3, <1>4 DEF TellsDemo
<1>7. ~Contested(h) => hypotheses'[h].status \in {"demo", r}
  <2>1. r \in InTrial /\ (~Contested(h) => Agreed(h, r) /\ hypotheses[h].status \in {"demo", r})
    BY <1>1, <1>6, AgreedAlone, ResultRange DEF TellsDemo
  <2> QED
    BY <1>1, <2>1 DEF Grows, Kept
<1>9. step[v] # "saveHypothesis" =>
        /\ ~SeveralDemos(h) /\ LabReads(h)' => hypotheses'[h].status = r
        /\ r # "demo" /\ h \notin overwritten' => hypotheses'[h].status = r
  <2>1. r \in InTrial /\ Kept(h) /\ overwritten \subseteq overwritten'
    BY <1>1, ResultRange DEF Grows
  <2>2. step[v] # "saveHypothesis" =>
          /\ ~SeveralDemos(h) /\ LabReads(h) => hypotheses[h].status = r
          /\ r # "demo" /\ h \notin overwritten => hypotheses[h].status = r
    BY <1>6 DEF TellsDemo
  <2>3. LabReads(h)' => writer'[h] \in {"lab", "outside"}
    BY DEF LabReads
  <2> QED
    BY <1>1, <2>1, <2>2, <2>3 DEF Kept, InTrial, Verdicts
<1>8. published[h] \subseteq published'[h] /\ failures \subseteq failures'
  BY <1>1 DEF Grows
<1> QED
  BY <1>1, <1>2, <1>3, <1>4, <1>5, <1>6, <1>7, <1>8, <1>9 DEF TellsDemo

LEMMA KnowsStable ==
  ASSUME FlowInv, NEW v \in Workers, SameHandler(v), Grows, Spared(v)
  PROVE  Knows(v)'
<1> USE DEF FlowInv
<1>1. Knows(v) /\ step'[v] = step[v] /\ work'[v] = work[v] /\ Identifier(v)' = Identifier(v)
  BY DEF SameHandler, Identifier
<1>2. CASE step[v] \in TellSteps \cup {"settle", "ok"}
  <2>1. step[v] \notin {"idle", "error", "reserved"} \cup ReserveSteps
    BY <1>2 DEF TellSteps, ReserveSteps
  <2> PICK i : i = Identifier(v)
    OBVIOUS
  <2> PICK h : h = work[v].hypothesis
    OBVIOUS
  <2>2. i \in Identifiers
    BY <2>1, HandlerOf
  <2>3. IsProposed(i)' = IsProposed(i)
    BY <2>2, EventStable DEF Grows
  <2>4. step[v] # "ok" => IF IsProposed(i) THEN TellsProposal(v, i, h)
                          ELSE h # NoHypothesis => TellsDemo(v, i, h)
    BY <1>1, <1>2 DEF Knows
  <2>5. step[v] # "ok" => IF IsProposed(i) THEN TellsProposal(v, i, h)'
                          ELSE h # NoHypothesis => TellsDemo(v, i, h)'
    BY <2>2, <2>4, TellsProposalStable, TellsDemoStable
  <2>6. step[v] = "ok" /\ IsProposed(i) => ProposalTold(i)'
    BY <1>1, <2>2, ToldStable DEF Knows
  <2>7. step[v] \in TellSteps => h # NoHypothesis
    BY <1>1 DEF Knows
  <2>8. i = Identifier(v)' /\ h = work'[v].hypothesis
    BY <1>1
  <2> QED
    BY <1>1, <2>1, <2>3, <2>5, <2>6, <2>7, <2>8 DEF Knows, TellSteps
<1>3. CASE step[v] \notin TellSteps \cup {"settle", "ok"}
  BY <1>1, <1>3 DEF Knows
<1> QED
  BY <1>2, <1>3

LEMMA AsksStable ==
  ASSUME Types, Grows, NEW r \in Requests, Asks(r), stage'[r] = stage[r]
  PROVE  Asks(r)'
<1> PICK h : h = event[r].hypothesis
  OBVIOUS
<1> PICK s : s = StatusAfter(event[r].kind)
  OBVIOUS
<1>1. event' = event /\ h = event'[r].hypothesis /\ s = StatusAfter(event[r].kind)'
  BY DEF Grows
<1>2. stage[r] # "done" => event[r] \in Request
  BY DEF Asks
<1>3. CASE stage[r] \notin {"write", "publish"}
  BY <1>1, <1>2, <1>3 DEF Asks
<1>4. CASE stage[r] \in {"write", "publish"}
  <2>1. h \in Hypotheses /\ r \in RequestsFor(h) /\ s \in InTrial /\ s \in Verdicts
    BY <1>2, <1>4, StatusAfterRange DEF Request, RequestsFor, Verdicts, InTrial
  <2>2. /\ hypotheses[h].status \in InTrial /\ Backed(h)
        /\ event[r].kind = "promote" => {"noReview", "declared"} \subseteq hypotheses[h].grounds
        /\ stage[r] = "write" => Contested(h) \/ hypotheses[h].status \in {"demo", s}
        /\ stage[r] = "publish" =>
             event[r].kind # "declare" /\ (h \notin overwritten => hypotheses[h].status = s)
    BY <1>4 DEF Asks
  <2>3. Kept(h) /\ overwritten \subseteq overwritten' /\ Backed(h)'
    BY <2>1, <2>2, BackedStable DEF Grows
  <2>4. /\ hypotheses'[h].status \in InTrial /\ hypotheses'[h].grounds = hypotheses[h].grounds
        /\ Contested(h)' = Contested(h)
    BY <1>1, <2>1, <2>2, <2>3, EventStable DEF Kept
  <2>5. ~Contested(h) => Agreed(h, s)
    BY <2>1, AgreedAlone
  <2>6. stage[r] = "write" => Contested(h) \/ hypotheses'[h].status \in {"demo", s}
    BY <2>1, <2>2, <2>3, <2>5 DEF Kept
  <2>7. stage[r] = "publish" /\ h \notin overwritten' => hypotheses'[h].status = s
    BY <2>1, <2>2, <2>3 DEF Kept
  <2> QED
    BY <1>1, <1>2, <2>2, <2>3, <2>4, <2>6, <2>7 DEF Asks
<1> QED
  BY <1>3, <1>4

(* What FlowInv asks of a step of the handler w.                           *)
LEMMA FlowByHandler ==
  ASSUME FlowInv, KeyInv', Types', NEW w \in Workers, Grows, Knows(w)', UNCHANGED stage,
         \A v \in Workers : v # w => SameHandler(v) /\ Spared(v),
         \A h \in Hypotheses : Reasoned(h)',
         \A i \in Identifiers : keys'[i] = "processed" /\ IsProposed(i) => ProposalTold(i),
         \A m \in WellFormed : sub'[m] = "acked" /\ IsProposed(IdentifierOf[m]) =>
           ProposalTold(IdentifierOf[m])
  PROVE  FlowInv'
<1>1. \A v \in Workers : Knows(v)'
  BY KnowsStable
<1>2. Types /\ \A i \in Identifiers : IsProposed(i)' = IsProposed(i)
  BY EventStable DEF Grows, FlowInv
<1>3. \A i \in Identifiers : ProposalTold(i) => ProposalTold(i)'
  BY <1>2, ToldStable
<1>4. ProposalsTold'
  <2>1. ASSUME NEW m \in WellFormed, sub'[m] = "acked", IsProposed(IdentifierOf[m])'
        PROVE  ProposalTold(IdentifierOf[m])'
    <3>1. PICK i \in Identifiers : i = IdentifierOf[m]
      BY LeasedKeyAssumption
    <3> QED
      BY <1>2, <1>3, <2>1, <3>1
  <2>2. ASSUME NEW i \in Identifiers, IsProposed(i)', keys'[i] = "processed"
        PROVE  ProposalTold(i)'
    BY <1>2, <1>3, <2>2
  <2> QED
    BY <2>1, <2>2 DEF ProposalsTold
<1>5. \A r \in Requests : Asks(r)'
  BY AsksStable DEF FlowInv
<1> QED
  BY <1>1, <1>4, <1>5 DEF FlowInv

\* What does not change about h leaves what is said of it as it is.
LEMMA ReasonedStable ==
  ASSUME FlowInv, event' = event, NEW h \in Hypotheses,
         hypotheses'[h] = hypotheses[h], writer'[h] = writer[h],
         overwritten \subseteq overwritten', published'[h] = published[h], decided'[h] = decided[h]
  PROVE  Reasoned(h)'
<1>1. DemosOf(h)' = DemosOf(h) /\ Backed(h)' = Backed(h)
  BY DEF DemosOf, Backed, IsProposed, Passed
<1> QED
  BY <1>1 DEF FlowInv, Reasoned, IsProposed, Passed

LEMMA KeptSame ==
  ASSUME NEW h \in Hypotheses, hypotheses'[h] = hypotheses[h], writer'[h] = writer[h]
  PROVE  Kept(h)
  BY DEF Kept, LabReads

\* A step that writes no hypothesis and publishes nothing.
LEMMA OnlyFailures ==
  ASSUME FlowInv, UNCHANGED <<event, hypotheses, writer, overwritten, published, decided>>,
         failures \subseteq failures'
  PROVE  Grows /\ \A h \in Hypotheses : Reasoned(h)'
<1>1. ASSUME NEW h \in Hypotheses PROVE Reasoned(h)'
  BY ReasonedStable
<1>2. \A h \in Hypotheses : Kept(h)
  BY KeptSame
<1> QED
  BY <1>1, <1>2 DEF Grows

\* What a step that leaves the documents and the work alone leaves true.
LEMMA DocumentsStay ==
  ASSUME FlowInv, UNCHANGED <<event, documents, published, bff>>
  PROVE  /\ Grows /\ \A h \in Hypotheses : Reasoned(h)'
         /\ UNCHANGED <<hypotheses, writer, overwritten, failures, stage, decided>>
<1>1. UNCHANGED <<event, hypotheses, writer, overwritten, failures, published, stage, decided>>
  BY DEF documents, bff
<1> QED
  BY <1>1, OnlyFailures

DocumentTypes ==
  /\ event \in Cases
  /\ hypotheses \in [Hypotheses -> Aggregate \cup {Absent}]
  /\ writer \in [Hypotheses -> Writers]
  /\ overwritten \subseteq Hypotheses
  /\ failures \subseteq Hypotheses
  /\ published \in [Hypotheses -> SUBSET Events]
  /\ stage \in [Requests -> Stages]
  /\ decided \in [Hypotheses -> SUBSET Events]

WorkType ==
  [hypothesis : Hypotheses \cup {NoHypothesis}, aggregate : Aggregate \cup {Absent},
   events : Seq(Events)]

\* What the handler w, with k in its hands, tells of the event i.
Tells(w, i, k) ==
  IF IsProposed(i) THEN TellsProposal(w, i, k.hypothesis)
  ELSE k.hypothesis # NoHypothesis => TellsDemo(w, i, k.hypothesis)

(* A request of the work: what is left to show of it.                      *)
LEMMA WorkFlow ==
  ASSUME FlowInv, NEW w \in Workers, step[w] \in TellSteps \cup {"reserved"},
         NEW i, i = Identifier(w),
         NEW next \in WorkSteps \ {"reserved"}, Done(w, next), UNCHANGED <<deliveryVars, keys>>,
         NEW k \in WorkType, work' = [work EXCEPT ![w] = k],
         DocumentTypes', Grows, UNCHANGED stage, \A h \in Hypotheses : Reasoned(h)',
         \A v \in Workers : v # w => Spared(v),
         step'[w] = next /\ next # "release" =>
           Tells(w, i, k)' /\ (next # "settle" => k.hypothesis # NoHypothesis)
  PROVE  FlowInv'
<1>1. Working(w) /\ step[w] # "release" /\ next \notin Outside
  BY DEF TellSteps, WorkSteps, Working, Outside, ReserveSteps
<1> PICK s \in {next, "release"} : step' = [step EXCEPT ![w] = s]
  BY <1>1, DoneWork DEF FlowInv
<1>2. KeyInv' /\ UNCHANGED held /\ UNCHANGED sub
  BY <1>1, DoneWork DEF FlowInv, deliveryVars
<1>3. /\ step'[w] = s /\ work'[w] = k /\ i = Identifier(w)'
      /\ \A v \in Workers : v # w => SameHandler(v)
  BY <1>2 DEF FlowInv, Types, SameHandler, Identifier
<1>4. Types'
  BY DEF FlowInv, Types, DocumentTypes, WorkSteps, WorkType
<1>5. Knows(w)'
  <2>1. s # "release" => Tells(w, i, k)' /\ (s # "settle" => k.hypothesis # NoHypothesis)
    BY <1>3
  <2>2. s \notin {"idle", "reserved", "ok"} \cup ReserveSteps
    BY DEF WorkSteps, ReserveSteps
  <2> QED
    BY <1>3, <2>1, <2>2 DEF Knows, Tells, TellSteps
<1>6. /\ \A j \in Identifiers : keys'[j] = "processed" /\ IsProposed(j) => ProposalTold(j)
      /\ \A m \in WellFormed : sub'[m] = "acked" /\ IsProposed(IdentifierOf[m]) =>
           ProposalTold(IdentifierOf[m])
  BY <1>2 DEF FlowInv, ProposalsTold
<1> QED
  BY <1>2, <1>3, <1>4, <1>5, <1>6, FlowByHandler

\* A hypothesis that is not saved yet stays so, when nobody takes it up.
LEMMA SparedByAll ==
  ASSUME FlowInv, NEW w \in Workers, UNCHANGED hypotheses,
         \A u \in Workers : u # w => work'[u] = work[u],
         \A v \in Workers : v # w /\ Unwritten(v) => work'[w].hypothesis # work[v].hypothesis
  PROVE  \A v \in Workers : v # w => Spared(v)
<1> SUFFICES ASSUME NEW v \in Workers, v # w, Unwritten(v) PROVE
      /\ hypotheses'[work[v].hypothesis].status = "absent"
      /\ \A u \in Workers : u # v => work'[u].hypothesis # work[v].hypothesis
  BY DEF Spared
<1> PICK i : i = Identifier(v)
  OBVIOUS
<1> PICK h : h = work[v].hypothesis
  OBVIOUS
<1>1. step[v] = "saveHypothesis" /\ IsProposed(i) /\ Knows(v)
  BY DEF FlowInv, Unwritten
<1>2. TellsProposal(v, i, h)
  BY <1>1 DEF Knows, TellSteps
<1> QED
  BY <1>1, <1>2 DEF TellsProposal

\* What the handler w, at one of its work steps, knows of its event.
LEMMA AtWork ==
  ASSUME FlowInv, NEW w \in Workers, step[w] \in TellSteps, NEW i, i = Identifier(w),
         NEW h, h = work[w].hypothesis
  PROVE  /\ i \in Identifiers /\ h \in Hypotheses /\ h # NoHypothesis
         /\ IF IsProposed(i) THEN TellsProposal(w, i, h) ELSE TellsDemo(w, i, h)
         /\ Reasoned(h) /\ work[w] \in WorkType
<1>1. step[w] \notin {"idle", "error"} /\ step[w] \in TellSteps \cup {"settle"}
  BY DEF TellSteps
<1>2. i \in Identifiers /\ Knows(w)
  BY <1>1, HandlerOf
<1>3. IF IsProposed(i) THEN TellsProposal(w, i, h) ELSE TellsDemo(w, i, h)
  BY <1>1, <1>2 DEF Knows
<1>4. h \in Hypotheses
  BY <1>3 DEF TellsProposal, TellsDemo
<1> QED
  BY <1>2, <1>3, <1>4, LabAssumption DEF FlowInv, Types, WorkType

---------------------------------------------------------------------------------
(* Under the lease.                                                        *)

LEMMA ProposeFlow ==
  ASSUME FlowInv, NEW w \in Workers, Propose(w)
  PROVE  FlowInv'
<1> PICK i : i = Identifier(w)
  OBVIOUS
<1>1. /\ step[w] = "reserved" /\ IsProposed(i) /\ step[w] \in TellSteps \cup {"reserved"}
      /\ UNCHANGED <<deliveryVars, keys, event, documents, published, bff>>
      /\ disturbed' = disturbed
  BY DEF Propose, keyVars
<1>2. i \in Identifiers /\ work[w] = NoWork /\ Types
  BY <1>1, HandlerOf DEF FlowInv, Knows
<1>3. /\ Grows /\ (\A h \in Hypotheses : Reasoned(h)')
      /\ UNCHANGED <<hypotheses, writer, overwritten, failures, stage, decided>>
  BY <1>1, DocumentsStay
<1>4. DocumentTypes' /\ UNCHANGED stage
  BY <1>1, <1>2, <1>3 DEF Types, DocumentTypes
<1>5. CASE event[i].complete
  <2>0. PICK h \in Hypotheses : \E r :
          /\ Fresh(h) /\ r = BacktestResult(FromProposedEvent(i), Passed(i))
          /\ work' = [work EXCEPT ![w] =
               [hypothesis |-> h, aggregate |-> r.aggregate, events |-> r.events]]
          /\ Goto(w, "saveHypothesis")
    BY <1>5 DEF Propose, Passed
  <2>1. PICK r :
          /\ Fresh(h) /\ r = BacktestResult(FromProposedEvent(i), Passed(i))
          /\ work' = [work EXCEPT ![w] =
               [hypothesis |-> h, aggregate |-> r.aggregate, events |-> r.events]]
          /\ Goto(w, "saveHypothesis")
    BY <2>0
  <2>2. PICK k \in WorkType :
          k = [hypothesis |-> h, aggregate |-> r.aggregate, events |-> r.events]
    BY <1>1, <1>2, <2>1, BacktestLemma DEF WorkType
  <2>3. /\ work' = [work EXCEPT ![w] = k] /\ Done(w, "saveHypothesis")
        /\ k.hypothesis = h /\ k.aggregate = r.aggregate /\ k.events = r.events
    BY <1>1, <2>1, <2>2 DEF Done
  <2>4. work'[w] = k /\ \A u \in Workers : u # w => work'[u] = work[u]
    BY <1>2, <2>3 DEF Types
  <2>5. /\ hypotheses[h].status = "absent" /\ h # NoHypothesis
        /\ \A v \in Workers : work[v].hypothesis # h
    BY <2>1, LabAssumption DEF Fresh, Absent
  <2>6. \A v \in Workers : v # w => Spared(v)
    BY <1>3, <2>3, <2>4, <2>5, SparedByAll
  <2>7. /\ BacktestResult(FromProposedEvent(i), Passed(i))' = r
        /\ IsProposed(i)'
    BY <1>1, <2>1 DEF FromProposedEvent, Passed, IsProposed
  <2>8. step'[w] = "saveHypothesis" => TellsProposal(w, i, h)'
    BY <1>3, <2>3, <2>4, <2>5, <2>7 DEF TellsProposal
  <2>9. step'[w] = "saveHypothesis" => Tells(w, i, k)'
    BY <2>3, <2>7, <2>8 DEF Tells
  <2>10. "saveHypothesis" \in WorkSteps \ {"reserved"}
    BY DEF WorkSteps
  <2>11. k.hypothesis # NoHypothesis /\ UNCHANGED <<deliveryVars, keys>>
    BY <1>1, <2>3, <2>5
  <2> QED
    BY <1>1, <1>3, <1>4, <2>3, <2>6, <2>9, <2>10, <2>11, WorkFlow
<1>6. CASE ~event[i].complete
  <2>1. Goto(w, "release") /\ work' = work
    BY <1>6 DEF Propose
  <2>2. work' = [work EXCEPT ![w] = work[w]] /\ work[w] \in WorkType /\ Done(w, "release")
    BY <1>1, <1>2, <2>1 DEF Types, WorkType, Done
  <2>3. work'[w].hypothesis = NoHypothesis
    BY <1>2, <2>1 DEF NoWork
  <2>4. \A v \in Workers : Unwritten(v) => work[v].hypothesis # NoHypothesis
    BY DEF FlowInv, Knows, Unwritten, TellSteps
  <2>5. \A v \in Workers : v # w => Spared(v)
    BY <1>3, <2>1, <2>3, <2>4, SparedByAll
  <2>6. "release" \in WorkSteps \ {"reserved"}
    BY DEF WorkSteps
  <2> QED
    BY <1>1, <1>3, <1>4, <2>2, <2>5, <2>6, WorkFlow
<1> QED
  BY <1>5, <1>6

LEMMA FindHypothesisFlow ==
  ASSUME FlowInv, NEW w \in Workers, FindHypothesis(w)
  PROVE  FlowInv'
<1> PICK i : i = Identifier(w)
  OBVIOUS
<1>1. /\ step[w] = "reserved" /\ ~IsProposed(i) /\ step[w] \in TellSteps \cup {"reserved"}
      /\ UNCHANGED <<deliveryVars, keys, event, documents, published, bff>>
  BY DEF FindHypothesis
<1>2. i \in Identifiers /\ work[w] = NoWork /\ Types /\ ~IsProposed(i)'
  BY <1>1, HandlerOf DEF FlowInv, Knows, IsProposed
<1>3. /\ Grows /\ (\A h \in Hypotheses : Reasoned(h)')
      /\ UNCHANGED <<hypotheses, writer, overwritten, failures, stage, decided>>
  BY <1>1, DocumentsStay
<1>4. DocumentTypes' /\ UNCHANGED stage
  BY <1>1, <1>2, <1>3 DEF Types, DocumentTypes
<1> PICK h : h = event[i].hypothesis
  OBVIOUS
<1>5. h \in Hypotheses /\ i \in DemosOf(h)
  BY <1>1, <1>2, PayloadTypes DEF DemoResult, DemosOf
<1> PICK r : r = DemoApplied(hypotheses[h], event[i])
  OBVIOUS
<1> PICK next : next = IF event[i].addressed THEN AfterFind(hypotheses[h], LabReads(h), event[i])
                       ELSE "release"
  OBVIOUS
<1>6. /\ Done(w, next)
      /\ work' = IF next # "saveHypothesis" THEN work
                 ELSE [work EXCEPT ![w] =
                        [hypothesis |-> h, aggregate |-> r.aggregate, events |-> r.events]]
  BY DEF FindHypothesis
<1>7. /\ next \in {"release", "settle", "saveHypothesis"}
      /\ next \in WorkSteps \ {"reserved"}
      /\ next = "saveHypothesis" => hypotheses[h] # Absent /\ hypotheses[h].status = "demo"
  BY DEF AfterFind, WorkSteps, Absent
<1>8. UNCHANGED <<deliveryVars, keys>>
  BY <1>1
<1>9. Done(w, next) /\ step[w] \in TellSteps \cup {"reserved"}
  BY <1>1, <1>6
<1>10. CASE next = "saveHypothesis"
  <2> PICK a : a = hypotheses[h]
    OBVIOUS
  <2>1. a \in Aggregate /\ a.status = "demo"
    BY <1>2, <1>5, <1>7, <1>10 DEF Types
  <2>2. /\ r.aggregate \in Aggregate
        /\ r.aggregate.origin = a.origin /\ r.aggregate.grounds = a.grounds
        /\ r.aggregate.status = Result(i, a.grounds)
        /\ r.events = ResultEvents(r.aggregate.status) /\ r.events \in Seq(Events)
    BY <1>1, <1>2, <2>1, DemoLemma
  <2>3. PICK k \in WorkType :
          k = [hypothesis |-> h, aggregate |-> r.aggregate, events |-> r.events]
    BY <1>5, <2>2 DEF WorkType
  <2>4. /\ work' = [work EXCEPT ![w] = k]
        /\ k.hypothesis = h /\ k.aggregate = r.aggregate /\ k.events = r.events
    BY <1>6, <1>10, <2>3
  <2>5. work'[w] = k /\ \A u \in Workers : u # w => work'[u] = work[u]
    BY <1>2, <2>4 DEF Types
  <2>6. ASSUME NEW v \in Workers, Unwritten(v) PROVE work[v].hypothesis # h
    <3> PICK j : j = Identifier(v)
      OBVIOUS
    <3>1. step[v] = "saveHypothesis" /\ IsProposed(j)
      BY <2>6 DEF Unwritten
    <3>2. TellsProposal(v, j, work[v].hypothesis)
      BY <3>1 DEF FlowInv, Knows, TellSteps
    <3> QED
      BY <2>1, <3>1, <3>2 DEF TellsProposal
  <2>7. \A v \in Workers : v # w => Spared(v)
    BY <1>3, <2>4, <2>5, <2>6, SparedByAll
  <2>8. /\ DemosOf(h)' = DemosOf(h) /\ Result(i, a.grounds)' = Result(i, a.grounds)
    BY <1>1, <1>5, EventStable
  <2>9. Backed(h) /\ Backed(h)'
    BY <1>2, <1>3, <1>5, <2>1, BackedStable DEF FlowInv, Reasoned
  <2>10. hypotheses'[h] = a /\ a.status \in InTrial
    BY <1>3, <2>1 DEF InTrial
  <2>11. step'[w] = "saveHypothesis" => TellsDemo(w, i, h)'
    BY <1>5, <2>1, <2>2, <2>4, <2>5, <2>8, <2>9, <2>10 DEF TellsDemo
  <2>12. step'[w] = "saveHypothesis" => Tells(w, i, k)'
    BY <1>2, <2>4, <2>11 DEF Tells
  <2>13. k.hypothesis # NoHypothesis
    BY <1>5, <2>4, LabAssumption
  <2>14. step'[w] = next /\ next # "release" =>
           Tells(w, i, k)' /\ (next # "settle" => k.hypothesis # NoHypothesis)
    BY <1>10, <2>12, <2>13
  <2> QED
    BY <1>3, <1>4, <1>7, <1>8, <1>9, <2>4, <2>7, <2>14, WorkFlow, ZenonT(60)
<1>11. CASE next # "saveHypothesis"
  <2>1. work' = [work EXCEPT ![w] = work[w]] /\ work' = work /\ work[w] \in WorkType
    BY <1>2, <1>6, <1>11 DEF Types, WorkType
  <2> PICK k \in WorkType : k = work[w]
    BY <2>1
  <2>2. k.hypothesis = NoHypothesis /\ work'[w].hypothesis = NoHypothesis
    BY <1>2, <2>1 DEF NoWork
  <2>3. \A v \in Workers : Unwritten(v) => work[v].hypothesis # NoHypothesis
    BY DEF FlowInv, Knows, Unwritten, TellSteps
  <2>4. \A v \in Workers : v # w => Spared(v)
    BY <1>3, <2>1, <2>2, <2>3, SparedByAll
  <2>5. Tells(w, i, k)'
    BY <1>2, <2>2 DEF Tells
  <2>6. next # "release" => next = "settle"
    BY <1>7, <1>11
  <2> QED
    BY <1>3, <1>4, <1>7, <1>8, <1>9, <2>1, <2>4, <2>5, <2>6, WorkFlow
<1> QED
  BY <1>10, <1>11

---------------------------------------------------------------------------------
(* Save it, and tell of it.                                                *)

\* The handler w saves the hypothesis it holds.
Saves(w, h) ==
  /\ step[w] = "saveHypothesis" /\ h = work[w].hypothesis
  /\ hypotheses' = [hypotheses EXCEPT ![h] = work[w].aggregate]
  /\ writer' = [writer EXCEPT ![h] = "lab"]
  /\ WritesOver(h, work[w].aggregate.status)
  /\ UNCHANGED <<event, failures, work, published, stage, decided>>

\* What a verdict was written over of is noted.
LEMMA WritesOverResult ==
  ASSUME NEW h, NEW s, WritesOver(h, s)
  PROVE  /\ overwritten \subseteq overwritten' /\ overwritten' \subseteq overwritten \cup {h}
         /\ hypotheses[h].status \in Verdicts /\ hypotheses[h].status # s => h \in overwritten'
         /\ hypotheses[h].status \notin Verdicts \/ hypotheses[h].status = s =>
              overwritten' = overwritten
  BY DEF WritesOver, Verdicts

(* A write to a hypothesis in its trial keeps what is said of it.          *)
LEMMA TrialReasoned ==
  ASSUME FlowInv, Grows, NEW h \in Hypotheses, hypotheses[h].status \in InTrial, Backed(h),
         published'[h] = published[h], decided'[h] = decided[h], writer'[h] # "outside"
  PROVE  Reasoned(h)'
<1>1. /\ event' = event /\ overwritten \subseteq overwritten' /\ Kept(h) /\ Reasoned(h) /\ Backed(h)'
      /\ DemosOf(h)' = DemosOf(h)
      /\ \A j \in Identifiers : IsProposed(j)' = IsProposed(j)
  BY BackedStable, EventStable DEF Grows, FlowInv
<1>2. /\ hypotheses'[h].status \in InTrial /\ hypotheses'[h].grounds = hypotheses[h].grounds
      /\ hypotheses'[h].origin = hypotheses[h].origin
  BY <1>1 DEF Kept, InTrial
<1> PICK o : o = hypotheses[h].origin
  OBVIOUS
<1>3. /\ hypotheses'[h].origin = o /\ (h \in InDemo => o = NoMessage)
      /\ h \notin InDemo => o \in Identifiers /\ IsProposed(o)'
  BY <1>1, <1>2 DEF Reasoned, Backed
<1>4. "hypothesis.promoted" \in published[h] =>
        /\ hypotheses'[h].grounds = Rules
        /\ \E i \in DemosOf(h)' : event'[i].promotable /\ event'[i].demoPeriodDays >= RequiredDays
  BY <1>1, <1>2 DEF Reasoned
<1>5. "hypothesis.promoted" \in decided[h] =>
        {"noReview", "declared"} \subseteq hypotheses'[h].grounds
  BY <1>1, <1>2 DEF Reasoned
<1>6. h \notin overwritten' =>
        /\ "hypothesis.promoted" \in published[h] \cup decided[h] => hypotheses'[h].status = "live"
        /\ "hypothesis.rejected" \in published[h] \cup decided[h] =>
             hypotheses'[h].status = "rejected"
  BY <1>1 DEF Reasoned, Kept, Verdicts
<1>7. hypotheses'[h].status # "draft"
  BY <1>2 DEF InTrial
<1> QED
  BY <1>1, <1>2, <1>3, <1>4, <1>5, <1>6, <1>7 DEF Reasoned, IsProposed

\* The rest of the hypotheses are as they were.
LEMMA SavesRest ==
  ASSUME FlowInv, NEW w \in Workers, NEW h \in Hypotheses, Saves(w, h),
         work[w].aggregate \in Aggregate,
         work[w].aggregate.origin = hypotheses[h].origin \/ hypotheses[h].status = "absent",
         hypotheses[h].status \in InTrial =>
           /\ work[w].aggregate.status \in InTrial
           /\ work[w].aggregate.grounds = hypotheses[h].grounds,
         \A s \in InTrial : Agreed(h, s) /\ hypotheses[h].status \in {"demo", s} =>
           work[w].aggregate.status \in {"demo", s},
         \A i \in DemosOf(h) : ~SeveralDemos(h) /\ hypotheses[h].status \in InTrial =>
           work[w].aggregate.status = Result(i, hypotheses[h].grounds)
  PROVE  /\ Grows /\ hypotheses'[h] = work[w].aggregate
         /\ \A g \in Hypotheses \ {h} : Reasoned(g)'
         /\ hypotheses' \in [Hypotheses -> Aggregate \cup {Absent}]
         /\ writer' \in [Hypotheses -> Writers] /\ writer'[h] = "lab"
         /\ overwritten \subseteq overwritten' /\ overwritten' \subseteq Hypotheses
<1>1. /\ hypotheses'[h] = work[w].aggregate
      /\ \A g \in Hypotheses \ {h} : hypotheses'[g] = hypotheses[g] /\ writer'[g] = writer[g]
      /\ hypotheses' \in [Hypotheses -> Aggregate \cup {Absent}]
      /\ writer' \in [Hypotheses -> Writers] /\ writer'[h] = "lab"
  BY DEF FlowInv, Types, Saves, Writers
<1>2. work[w].aggregate.status # "absent"
  BY DEF Aggregate, Statuses
<1>3. UNCHANGED <<event, failures, published, decided>>
  BY DEF Saves
<1>4. /\ overwritten \subseteq overwritten' /\ overwritten' \subseteq Hypotheses
      /\ hypotheses[h].status \in Verdicts /\ h \notin overwritten' =>
           work[w].aggregate.status = hypotheses[h].status
  BY WritesOverResult DEF Saves, FlowInv, Types
<1>5. Grows
  <2>1. Kept(h)
    BY <1>1, <1>2, <1>4 DEF Kept
  <2>2. \A g \in Hypotheses \ {h} : Kept(g)
    BY <1>1, KeptSame
  <2> QED
    BY <1>3, <1>4, <2>1, <2>2 DEF Grows
<1>6. ASSUME NEW g \in Hypotheses \ {h} PROVE Reasoned(g)'
  BY <1>1, <1>3, <1>4, ReasonedStable
<1> QED
  BY <1>1, <1>4, <1>5, <1>6

LEMMA SavesProposal ==
  ASSUME FlowInv, NEW w \in Workers, NEW h \in Hypotheses, Saves(w, h),
         NEW i \in Identifiers, IsProposed(i), TellsProposal(w, i, h)
  PROVE  /\ Grows /\ \A g \in Hypotheses : Reasoned(g)'
         /\ hypotheses' \in [Hypotheses -> Aggregate \cup {Absent}]
         /\ writer' \in [Hypotheses -> Writers] /\ overwritten' \subseteq Hypotheses
         /\ hypotheses'[h].origin = i
<1> PICK r : r = BacktestResult(FromProposedEvent(i), Passed(i))
  OBVIOUS
<1> PICK a : a = work[w].aggregate
  OBVIOUS
<1>1. hypotheses[h].status = "absent" /\ a = r.aggregate
  BY DEF TellsProposal, Saves
<1>2. Types
  BY DEF FlowInv
<1>3. /\ a \in Aggregate /\ a.origin = i
      /\ Passed(i) => a.status = "backtested"
      /\ ~Passed(i) => a.status = "rejected"
  BY <1>1, <1>2, BacktestLemma
<1>4. hypotheses[h].status \notin InTrial /\ \A s \in InTrial : hypotheses[h].status \notin {"demo", s}
  BY <1>1 DEF InTrial
<1>5. /\ Grows /\ hypotheses'[h] = a /\ \A g \in Hypotheses \ {h} : Reasoned(g)'
      /\ hypotheses' \in [Hypotheses -> Aggregate \cup {Absent}]
      /\ writer' \in [Hypotheses -> Writers] /\ writer'[h] = "lab"
      /\ overwritten \subseteq overwritten' /\ overwritten' \subseteq Hypotheses
  BY <1>1, <1>3, <1>4, SavesRest
<1>6. Reasoned(h) /\ h \notin InDemo /\ hypotheses[h].origin \notin Identifiers
  BY <1>1, <1>2, OriginLemma DEF FlowInv, Reasoned, InTrial
<1>7. UNCHANGED <<event, published, decided>>
  BY DEF Saves
<1>8. Passed(i)' = Passed(i) /\ IsProposed(i)' /\ DemosOf(h)' = DemosOf(h)
  BY <1>7, EventStable
<1>9. "hypothesis.promoted" \notin published'[h] \cup decided'[h]
  BY <1>1, <1>6, <1>7 DEF Reasoned, InTrial
<1>10. h \notin overwritten' => "hypothesis.rejected" \notin published'[h] \cup decided'[h]
  BY <1>1, <1>5, <1>6, <1>7 DEF Reasoned
<1>11. Passed(i) => Backed(h)'
  BY <1>3, <1>5, <1>8 DEF Backed, Passed, IsProposed
<1>12. Reasoned(h)'
  BY <1>3, <1>5, <1>6, <1>8, <1>9, <1>10, <1>11 DEF Reasoned, IsProposed
<1> QED
  BY <1>3, <1>5, <1>12

LEMMA SavesDemo ==
  ASSUME FlowInv, NEW w \in Workers, NEW h \in Hypotheses, Saves(w, h),
         NEW i \in Identifiers, ~IsProposed(i), TellsDemo(w, i, h), work[w] \in WorkType
  PROVE  /\ Grows /\ \A g \in Hypotheses : Reasoned(g)'
         /\ hypotheses' \in [Hypotheses -> Aggregate \cup {Absent}]
         /\ writer' \in [Hypotheses -> Writers] /\ overwritten' \subseteq Hypotheses
         /\ hypotheses'[h] = work[w].aggregate
<1> PICK a : a = work[w].aggregate
  OBVIOUS
<1>1. /\ hypotheses[h].status \in InTrial /\ Backed(h) /\ i \in DemosOf(h)
      /\ a.grounds = hypotheses[h].grounds /\ a.origin = hypotheses[h].origin
      /\ a.status = Result(i, hypotheses[h].grounds)
  BY DEF TellsDemo
<1>2. a.status \in InTrial /\ a \in Aggregate
  <2>1. a.status \in InTrial
    BY <1>1, ResultRange
  <2> QED
    BY <2>1 DEF InTrial, WorkType, Absent
<1>3. /\ \A s \in InTrial : Agreed(h, s) => a.status = s
      /\ \A j \in DemosOf(h) : ~SeveralDemos(h) => a.status = Result(j, hypotheses[h].grounds)
  BY <1>1 DEF SeveralDemos, Agreed
<1>4. /\ Grows /\ hypotheses'[h] = a /\ \A g \in Hypotheses \ {h} : Reasoned(g)'
      /\ hypotheses' \in [Hypotheses -> Aggregate \cup {Absent}]
      /\ writer' \in [Hypotheses -> Writers] /\ writer'[h] = "lab"
      /\ overwritten' \subseteq Hypotheses
  BY <1>1, <1>2, <1>3, SavesRest
<1>5. UNCHANGED <<published, decided>>
  BY DEF Saves
<1>6. Reasoned(h)'
  BY <1>1, <1>4, <1>5, TrialReasoned
<1> QED
  BY <1>4, <1>6

LEMMA SaveHypothesisFlow ==
  ASSUME FlowInv, NEW w \in Workers, SaveHypothesis(w)
  PROVE  FlowInv'
<1> PICK i : i = Identifier(w)
  OBVIOUS
<1> PICK h : h = work[w].hypothesis
  OBVIOUS
<1> PICK k : k = work[w]
  OBVIOUS
<1>1. /\ step[w] = "saveHypothesis" /\ step[w] \in TellSteps
      /\ Done(w, "saveRun") /\ "saveRun" \in WorkSteps \ {"reserved"} /\ Types
      /\ UNCHANGED <<deliveryVars, keys, event, failures, work, published, stage, decided>>
  BY DEF SaveHypothesis, TellSteps, WorkSteps, FlowInv, bff
<1>2. /\ i \in Identifiers /\ h \in Hypotheses /\ h # NoHypothesis
      /\ IF IsProposed(i) THEN TellsProposal(w, i, h) ELSE TellsDemo(w, i, h)
      /\ work[w] \in WorkType
  BY <1>1, AtWork
<1>3. Saves(w, h)
  BY <1>1 DEF SaveHypothesis, Saves, bff
<1>4. /\ Grows /\ (\A g \in Hypotheses : Reasoned(g)')
      /\ hypotheses' \in [Hypotheses -> Aggregate \cup {Absent}]
      /\ writer' \in [Hypotheses -> Writers] /\ overwritten' \subseteq Hypotheses
      /\ IsProposed(i) => hypotheses'[h].origin = i
      /\ ~IsProposed(i) => hypotheses'[h] = work[w].aggregate
  BY <1>2, <1>3, SavesProposal, SavesDemo
<1>5. DocumentTypes'
  BY <1>1, <1>4 DEF Types, DocumentTypes
<1>6. work' = [work EXCEPT ![w] = k] /\ work'[w] = k /\ k \in WorkType /\ k.hypothesis = h
  BY <1>1, <1>2 DEF Types
<1>7. \A v \in Workers : v # w => Spared(v)
  <2> SUFFICES ASSUME NEW v \in Workers, v # w, Unwritten(v) PROVE
        /\ hypotheses'[work[v].hypothesis].status = "absent"
        /\ \A u \in Workers : u # v => work'[u].hypothesis # work[v].hypothesis
    BY DEF Spared
  <2> PICK j : j = Identifier(v)
    OBVIOUS
  <2> PICK g : g = work[v].hypothesis
    OBVIOUS
  <2>1. step[v] = "saveHypothesis" /\ IsProposed(j)
    BY DEF Unwritten
  <2>2. TellsProposal(v, j, g)
    BY <2>1 DEF FlowInv, Knows, TellSteps
  <2>3. /\ hypotheses[g].status = "absent" /\ g \in Hypotheses
        /\ \A u \in Workers : u # v => work[u].hypothesis # g
    BY <2>1, <2>2 DEF TellsProposal
  <2>4. hypotheses'[g] = hypotheses[g]
    BY <1>3, <2>3 DEF Saves, FlowInv, Types
  <2> QED
    BY <1>1, <2>3, <2>4
<1>8. \A j \in Identifiers : IsProposed(j)' = IsProposed(j) /\ Passed(j)' = Passed(j)
  BY <1>1, EventStable
<1>9. step'[w] = "saveRun" => Tells(w, i, k)'
  <2> SUFFICES ASSUME step'[w] = "saveRun" PROVE Tells(w, i, k)'
    OBVIOUS
  <2>1. CASE IsProposed(i)
    <3>1. BacktestResult(FromProposedEvent(i), Passed(i))'
            = BacktestResult(FromProposedEvent(i), Passed(i))
      BY <1>1 DEF FromProposedEvent, Passed
    <3>2. TellsProposal(w, i, h)'
      BY <1>1, <1>2, <1>4, <2>1, <3>1 DEF TellsProposal
    <3> QED
      BY <1>2, <1>6, <1>8, <2>1, <3>2 DEF Tells
  <2>2. CASE ~IsProposed(i)
    <3>1. /\ TellsDemo(w, i, h) /\ hypotheses'[h] = k.aggregate /\ work' = work
          /\ k.aggregate.grounds = hypotheses[h].grounds
          /\ k.aggregate.status = Result(i, hypotheses[h].grounds)
      BY <1>1, <1>2, <1>4, <2>2 DEF TellsDemo
    <3>2. /\ DemosOf(h)' = DemosOf(h) /\ SeveralDemos(h)' = SeveralDemos(h)
          /\ Result(i, k.aggregate.grounds)' = Result(i, k.aggregate.grounds)
      BY <1>1, <1>2, EventStable
    <3>3. Backed(h)' /\ k.aggregate.status \in InTrial
      BY <1>1, <1>2, <1>4, <3>1, BackedStable, ResultRange DEF TellsDemo
    <3>4. TellsDemo(w, i, h)'
      BY <1>1, <1>2, <3>1, <3>2, <3>3 DEF TellsDemo
    <3> QED
      BY <1>2, <1>6, <1>8, <2>2, <3>4 DEF Tells
  <2> QED
    BY <2>1, <2>2
<1>10. UNCHANGED <<deliveryVars, keys>> /\ UNCHANGED stage
  BY <1>1
<1>11. step'[w] = "saveRun" /\ "saveRun" # "release" =>
         Tells(w, i, k)' /\ ("saveRun" # "settle" => k.hypothesis # NoHypothesis)
  BY <1>2, <1>6, <1>9
<1> QED
  BY <1>1, <1>4, <1>5, <1>6, <1>7, <1>10, <1>11, WorkFlow, ZenonT(60)

\* A handler that keeps to its hypothesis disturbs no other.
LEMMA SparedSame ==
  ASSUME FlowInv, NEW w \in Workers, UNCHANGED hypotheses,
         NEW k, work' = [work EXCEPT ![w] = k], k.hypothesis = work[w].hypothesis
  PROVE  \A v \in Workers : v # w => Spared(v)
<1>1. work'[w] = k /\ \A u \in Workers : u # w => work'[u] = work[u]
  BY DEF FlowInv, Types
<1>2. ASSUME NEW v \in Workers, v # w, Unwritten(v) PROVE work'[w].hypothesis # work[v].hypothesis
  <2> PICK j : j = Identifier(v)
    OBVIOUS
  <2>1. step[v] = "saveHypothesis" /\ IsProposed(j)
    BY <1>2 DEF Unwritten
  <2>2. TellsProposal(v, j, work[v].hypothesis)
    BY <2>1 DEF FlowInv, Knows, TellSteps
  <2> QED
    BY <1>1, <1>2, <2>1, <2>2 DEF TellsProposal
<1> QED
  BY <1>1, <1>2, SparedByAll

LEMMA HeadTail ==
  /\ \A a : Head(<<a>>) = a /\ Tail(<<a>>) = <<>> /\ <<a>> # <<>>
  /\ \A a, b : Head(<<a, b>>) = a /\ Tail(<<a, b>>) = <<b>> /\ <<a, b>> # <<>>
  /\ <<>> \in Seq(Events) /\ \A a \in Events : <<a>> \in Seq(Events)
  OBVIOUS

LEMMA NextEventResult ==
  ASSUME NEW events
  PROVE  /\ NextEvent(events) \in WorkSteps \ {"reserved", "release"}
         /\ NextEvent(events) = IF events = <<>> THEN "settle" ELSE "announce"
  BY DEF NextEvent, WorkSteps

LEMMA SaveRunFlow ==
  ASSUME FlowInv, NEW w \in Workers, SaveRun(w)
  PROVE  FlowInv'
<1> PICK i : i = Identifier(w)
  OBVIOUS
<1> PICK h : h = work[w].hypothesis
  OBVIOUS
<1> PICK k : k = work[w]
  OBVIOUS
<1> PICK next : next = NextEvent(k.events)
  OBVIOUS
<1>1. /\ step[w] = "saveRun" /\ step[w] \in TellSteps /\ Done(w, next) /\ Types
      /\ UNCHANGED <<deliveryVars, keys, event, hypotheses, writer, overwritten, failures, work,
                     published, stage, decided>>
  BY DEF SaveRun, TellSteps, FlowInv, documents, bff
<1>2. /\ i \in Identifiers /\ h \in Hypotheses /\ h # NoHypothesis
      /\ IF IsProposed(i) THEN TellsProposal(w, i, h) ELSE TellsDemo(w, i, h)
      /\ work[w] \in WorkType
  BY <1>1, AtWork
<1>3. Grows /\ \A g \in Hypotheses : Reasoned(g)'
  BY <1>1, OnlyFailures
<1>4. DocumentTypes'
  BY <1>1 DEF Types, DocumentTypes
<1>5. work' = [work EXCEPT ![w] = k] /\ work'[w] = k /\ k \in WorkType /\ k.hypothesis = h
  BY <1>1, <1>2 DEF Types
<1>6. \A v \in Workers : v # w => Spared(v)
  BY <1>1, <1>5, SparedSame
<1>7. /\ next \in WorkSteps \ {"reserved"} /\ next # "release"
      /\ next = IF k.events = <<>> THEN "settle" ELSE "announce"
  BY NextEventResult
<1>8. /\ \A j \in Identifiers : IsProposed(j)' = IsProposed(j) /\ Passed(j)' = Passed(j)
      /\ DemosOf(h)' = DemosOf(h) /\ SeveralDemos(h)' = SeveralDemos(h)
      /\ Contested(h)' = Contested(h) /\ LabReads(h)' = LabReads(h)
  BY <1>1, <1>2, EventStable DEF LabReads
<1>9. step'[w] = next => Tells(w, i, k)'
  <2> SUFFICES ASSUME step'[w] = next PROVE Tells(w, i, k)'
    OBVIOUS
  <2>1. CASE IsProposed(i)
    <3> PICK r : r = BacktestResult(FromProposedEvent(i), Passed(i))
      OBVIOUS
    <3>1. /\ hypotheses[h].origin = i /\ k.events = r.events
      BY <1>1, <1>2, <2>1 DEF TellsProposal
    <3>2. /\ Passed(i) => k.events = <<"hypothesis.backtested">>
          /\ ~Passed(i) => k.events = <<"hypothesis.backtested", "hypothesis.rejected">>
      BY <1>1, <1>2, <2>1, <3>1, BacktestLemma
    <3>3. next = "announce"
      BY <1>7, <3>2, HeadTail
    <3>4. TellsProposal(w, i, h)'
      BY <1>1, <1>2, <1>8, <3>1, <3>2, <3>3 DEF TellsProposal
    <3> QED
      BY <1>2, <1>5, <1>8, <2>1, <3>4 DEF Tells
  <2>2. CASE ~IsProposed(i)
    <3>1. TellsDemo(w, i, h) /\ k.events = ResultEvents(k.aggregate.status)
      BY <1>1, <1>2, <2>2 DEF TellsDemo
    <3>2. k.events = <<>> => k.aggregate.status \notin {"live", "rejected"}
      BY <3>1 DEF ResultEvents
    <3>3. Result(i, hypotheses[h].grounds)' = Result(i, hypotheses[h].grounds) /\ Backed(h)'
      BY <1>1, <1>2, <1>3, <3>1, EventStable, BackedStable DEF TellsDemo
    <3>4. TellsDemo(w, i, h)'
      BY <1>1, <1>2, <1>7, <1>8, <3>1, <3>2, <3>3 DEF TellsDemo
    <3> QED
      BY <1>2, <1>5, <1>8, <2>2, <3>4 DEF Tells
  <2> QED
    BY <2>1, <2>2
<1>10. UNCHANGED <<deliveryVars, keys>> /\ UNCHANGED stage
  BY <1>1
<1> QED
  BY <1>1, <1>2, <1>3, <1>4, <1>5, <1>6, <1>7, <1>9, <1>10, WorkFlow, ZenonT(60)

LEMMA RecordFailureFlow ==
  ASSUME FlowInv, NEW w \in Workers, RecordFailure(w)
  PROVE  FlowInv'
<1> PICK i : i = Identifier(w)
  OBVIOUS
<1> PICK h : h = work[w].hypothesis
  OBVIOUS
<1> PICK k : k = work[w]
  OBVIOUS
<1>1. /\ step[w] = "recordFailure" /\ step[w] \in TellSteps
      /\ Done(w, NextEvent(k.events)) /\ Types /\ failures' = failures \cup {h}
      /\ UNCHANGED <<deliveryVars, keys, event, hypotheses, writer, overwritten, work,
                     published, stage, decided>>
  BY DEF RecordFailure, TellSteps, FlowInv, bff
<1>2. /\ i \in Identifiers /\ h \in Hypotheses /\ h # NoHypothesis
      /\ IF IsProposed(i) THEN TellsProposal(w, i, h) ELSE TellsDemo(w, i, h)
      /\ work[w] \in WorkType
  BY <1>1, AtWork
<1>3. Grows /\ \A g \in Hypotheses : Reasoned(g)'
  BY <1>1, OnlyFailures
<1>4. DocumentTypes'
  BY <1>1, <1>2 DEF Types, DocumentTypes
<1>5. work' = [work EXCEPT ![w] = k] /\ work'[w] = k /\ k \in WorkType /\ k.hypothesis = h
  BY <1>1, <1>2 DEF Types
<1>6. \A v \in Workers : v # w => Spared(v)
  BY <1>1, <1>5, SparedSame
<1>7. k.events = <<>>
  BY <1>1, <1>2 DEF TellsProposal, TellsDemo
<1>8. Done(w, "settle") /\ "settle" \in WorkSteps \ {"reserved"}
  BY <1>1, <1>7, NextEventResult DEF WorkSteps
<1>9. /\ \A j \in Identifiers : IsProposed(j)' = IsProposed(j) /\ Passed(j)' = Passed(j)
      /\ DemosOf(h)' = DemosOf(h) /\ SeveralDemos(h)' = SeveralDemos(h)
      /\ Contested(h)' = Contested(h) /\ LabReads(h)' = LabReads(h)
  BY <1>1, <1>2, EventStable DEF LabReads
<1>10. step'[w] = "settle" => Tells(w, i, k)'
  <2> SUFFICES ASSUME step'[w] = "settle" PROVE Tells(w, i, k)'
    OBVIOUS
  <2>1. CASE IsProposed(i)
    <3>1. TellsProposal(w, i, h)'
      BY <1>1, <1>2, <1>9, <2>1 DEF TellsProposal
    <3> QED
      BY <1>2, <1>5, <1>9, <2>1, <3>1 DEF Tells
  <2>2. CASE ~IsProposed(i)
    <3>1. TellsDemo(w, i, h)
      BY <1>2, <2>2
    <3>2. Result(i, hypotheses[h].grounds)' = Result(i, hypotheses[h].grounds) /\ Backed(h)'
      BY <1>1, <1>2, <1>3, <3>1, EventStable, BackedStable DEF TellsDemo
    <3>3. TellsDemo(w, i, h)'
      BY <1>1, <1>2, <1>9, <3>1, <3>2 DEF TellsDemo
    <3> QED
      BY <1>2, <1>5, <1>9, <2>2, <3>3 DEF Tells
  <2> QED
    BY <2>1, <2>2
<1>11. UNCHANGED <<deliveryVars, keys>> /\ UNCHANGED stage
  BY <1>1
<1> QED
  BY <1>1, <1>2, <1>3, <1>4, <1>5, <1>6, <1>8, <1>10, <1>11, WorkFlow

\* A proposal that failed its backtest made a hypothesis that is rejected.
LEMMA FailedIsRejected ==
  ASSUME FlowInv, NEW h \in Hypotheses, NEW i \in Identifiers, hypotheses[h].origin = i, ~Passed(i)
  PROVE  hypotheses[h].status = "rejected"
<1>1. Types /\ Reasoned(h) /\ NoMessage \notin Identifiers
  BY LabAssumption DEF FlowInv
<1>2. h \notin InDemo /\ ~Backed(h)
  BY <1>1 DEF Reasoned, Backed
<1>3. hypotheses[h].status \in Statuses \cup {"absent"}
  BY <1>1 DEF Types, Aggregate, Absent
<1> QED
  BY <1>1, <1>2, <1>3, OriginLemma DEF Reasoned, Statuses

\* hypothesis-lab publishes e about h.
Publishes(h, e) ==
  /\ published' = [published EXCEPT ![h] = @ \cup {e}]
  /\ UNCHANGED <<event, hypotheses, writer, overwritten, failures, decided>>

LEMMA PublishesGrows ==
  ASSUME FlowInv, NEW h \in Hypotheses, NEW e \in Events, Publishes(h, e),
         e = "hypothesis.promoted" =>
           /\ hypotheses[h].status \in InTrial /\ Backed(h) /\ hypotheses[h].grounds = Rules
           /\ \E i \in DemosOf(h) : event[i].promotable /\ event[i].demoPeriodDays >= RequiredDays,
         h \notin overwritten =>
           /\ e = "hypothesis.promoted" => hypotheses[h].status = "live"
           /\ e = "hypothesis.rejected" => hypotheses[h].status = "rejected"
  PROVE  /\ Grows /\ \A g \in Hypotheses : Reasoned(g)'
         /\ published' \in [Hypotheses -> SUBSET Events]
         /\ e \in published'[h] /\ published[h] \subseteq published'[h]
<1>1. /\ published' \in [Hypotheses -> SUBSET Events]
      /\ published'[h] = published[h] \cup {e}
      /\ \A g \in Hypotheses \ {h} : published'[g] = published[g]
  BY DEF FlowInv, Types, Publishes
<1>2. UNCHANGED <<event, hypotheses, writer, overwritten, failures, decided>>
  BY DEF Publishes
<1>3. Grows
  <2>1. \A g \in Hypotheses : Kept(g)
    BY <1>2, KeptSame
  <2> QED
    BY <1>1, <1>2, <2>1 DEF Grows
<1>4. \A g \in Hypotheses \ {h} : Reasoned(g)'
  BY <1>1, <1>2, ReasonedStable
<1>5. Reasoned(h)'
  <2>1. DemosOf(h)' = DemosOf(h) /\ Backed(h)' = Backed(h) /\ Reasoned(h)
    BY <1>2 DEF DemosOf, Backed, IsProposed, Passed, FlowInv
  <2> QED
    BY <1>1, <1>2, <2>1 DEF Reasoned, IsProposed, Passed
<1> QED
  BY <1>1, <1>3, <1>4, <1>5

LEMMA AnnounceFlow ==
  ASSUME FlowInv, NEW w \in Workers, Announce(w)
  PROVE  FlowInv'
<1> PICK i : i = Identifier(w)
  OBVIOUS
<1> PICK h : h = work[w].hypothesis
  OBVIOUS
<1> PICK e : e = Head(work[w].events)
  OBVIOUS
<1> PICK rest : rest = Tail(work[w].events)
  OBVIOUS
<1> PICK next : next = IF e = "hypothesis.rejected" THEN "recordFailure" ELSE NextEvent(rest)
  OBVIOUS
<1>1. /\ step[w] = "announce" /\ step[w] \in TellSteps /\ Done(w, next) /\ Types
      /\ published' = [published EXCEPT ![h] = @ \cup {e}]
      /\ work' = [work EXCEPT ![w].events = rest]
      /\ UNCHANGED <<deliveryVars, keys, event, documents, bff>>
  BY DEF Announce, TellSteps, FlowInv
<1>2. UNCHANGED <<hypotheses, writer, overwritten, failures, stage, decided, deliveryVars, keys>>
  BY <1>1 DEF documents, bff
<1>3. /\ i \in Identifiers /\ h \in Hypotheses /\ h # NoHypothesis
      /\ IF IsProposed(i) THEN TellsProposal(w, i, h) ELSE TellsDemo(w, i, h)
      /\ work[w] \in WorkType
  BY <1>1, AtWork
<1>4. Publishes(h, e)
  BY <1>1, <1>2 DEF Publishes
<1> PICK a : a = work[w].aggregate
  OBVIOUS
<1>5. ASSUME rest \in Seq(Events)
      PROVE  \E k \in WorkType : /\ work' = [work EXCEPT ![w] = k] /\ work'[w] = k
                                 /\ k.hypothesis = h /\ k.aggregate = a /\ k.events = rest
  <2> PICK k : k = [work[w] EXCEPT !.events = rest]
    OBVIOUS
  <2>1. k \in WorkType /\ k.hypothesis = h /\ k.aggregate = a /\ k.events = rest
    BY <1>3, <1>5 DEF WorkType
  <2>2. work' = [work EXCEPT ![w] = k] /\ work'[w] = k
    BY <1>1 DEF Types
  <2> QED
    BY <2>1, <2>2
<1>6. /\ \A j \in Identifiers : IsProposed(j)' = IsProposed(j) /\ Passed(j)' = Passed(j)
      /\ DemosOf(h)' = DemosOf(h) /\ SeveralDemos(h)' = SeveralDemos(h)
      /\ Contested(h)' = Contested(h) /\ LabReads(h)' = LabReads(h)
  BY <1>1, <1>2, <1>3, EventStable DEF LabReads
<1>7. next # "release" /\ next \in WorkSteps \ {"reserved"}
  BY NextEventResult DEF WorkSteps
<1>8. /\ Done(w, next) /\ step[w] \in TellSteps \cup {"reserved"}
       /\ UNCHANGED <<deliveryVars, keys>> /\ UNCHANGED stage
  BY <1>1, <1>2
<1>9. CASE IsProposed(i)
  <2>1. /\ hypotheses[h].origin = i
        /\ \/ work[w].events = <<"hypothesis.backtested">> /\ Passed(i)
           \/ work[w].events = <<"hypothesis.backtested", "hypothesis.rejected">> /\ ~Passed(i)
           \/ /\ work[w].events = <<"hypothesis.rejected">> /\ ~Passed(i)
              /\ "hypothesis.backtested" \in published[h]
    BY <1>1, <1>3, <1>9 DEF TellsProposal
  <2>2. \/ e = "hypothesis.backtested" /\ rest = <<>> /\ Passed(i)
        \/ e = "hypothesis.backtested" /\ rest = <<"hypothesis.rejected">> /\ ~Passed(i)
        \/ /\ e = "hypothesis.rejected" /\ rest = <<>> /\ ~Passed(i)
           /\ "hypothesis.backtested" \in published[h]
    BY <2>1, HeadTail
  <2>3. e \in Events /\ rest \in Seq(Events)
    <3>1. "hypothesis.backtested" \in Events /\ "hypothesis.rejected" \in Events
      BY DEF Events
    <3> QED
      BY <2>2, <3>1, HeadTail DEF Events
  <2>4. /\ Grows /\ \A g \in Hypotheses : Reasoned(g)'
        /\ published' \in [Hypotheses -> SUBSET Events]
        /\ e \in published'[h] /\ published[h] \subseteq published'[h]
    <3>1. ~Passed(i) => hypotheses[h].status = "rejected"
      BY <1>3, <2>1, FailedIsRejected
    <3> QED
      BY <1>3, <1>4, <2>2, <2>3, <3>1, PublishesGrows
  <2>5. PICK k \in WorkType : /\ work' = [work EXCEPT ![w] = k] /\ work'[w] = k
                              /\ k.hypothesis = h /\ k.aggregate = a /\ k.events = rest
    BY <1>5, <2>3
  <2>6. next = IF e = "hypothesis.rejected" THEN "recordFailure"
               ELSE IF rest = <<>> THEN "settle" ELSE "announce"
    BY NextEventResult
  <2>7. step'[w] = next => TellsProposal(w, i, h)'
    <3> SUFFICES ASSUME step'[w] = next PROVE TellsProposal(w, i, h)'
      OBVIOUS
    <3>1. next \notin {"saveHypothesis", "saveRun"}
      BY <2>6
    <3>2. CASE e = "hypothesis.rejected"
      <4>1. rest = <<>> /\ ~Passed(i) /\ "hypothesis.backtested" \in published'[h]
        BY <2>2, <2>4, <3>2
      <4> QED
        BY <1>2, <1>3, <1>6, <2>1, <2>4, <2>5, <2>6, <3>2, <4>1 DEF TellsProposal
    <3>3. CASE e = "hypothesis.backtested" /\ rest = <<>>
      <4>1. next = "settle" /\ Passed(i)
        BY <2>2, <2>6, <3>3
      <4> QED
        BY <1>2, <1>3, <1>6, <2>1, <2>4, <3>3, <4>1 DEF TellsProposal
    <3>4. CASE e = "hypothesis.backtested" /\ rest = <<"hypothesis.rejected">>
      <4>1. next = "announce" /\ ~Passed(i)
        BY <2>2, <2>6, <3>4, HeadTail
      <4> QED
        BY <1>2, <1>3, <1>6, <2>1, <2>4, <2>5, <3>4, <4>1 DEF TellsProposal
    <3> QED
      BY <2>2, <3>2, <3>3, <3>4
  <2>8. step'[w] = next => Tells(w, i, k)'
    BY <1>3, <1>6, <1>9, <2>5, <2>7 DEF Tells
  <2>9. DocumentTypes'
    BY <1>1, <1>2, <2>4 DEF Types, DocumentTypes
  <2>10. \A v \in Workers : v # w => Spared(v)
    BY <1>2, <2>5, SparedSame
  <2> QED
    BY <1>3, <1>7, <1>8, <2>4, <2>5, <2>8, <2>9, <2>10, WorkFlow, ZenonT(60)
<1>10. CASE ~IsProposed(i)
  <2>1. /\ TellsDemo(w, i, h) /\ i \in DemosOf(h) /\ hypotheses[h].status \in InTrial /\ Backed(h)
        /\ a.status = Result(i, hypotheses[h].grounds)
        /\ work[w].events = ResultEvents(a.status) /\ work[w].events # <<>>
    BY <1>1, <1>3, <1>10 DEF TellsDemo
  <2>2. /\ rest = <<>>
        /\ \/ e = "hypothesis.rejected" /\ a.status = "rejected"
           \/ e = "hypothesis.promoted" /\ a.status = "live"
    BY <2>1, HeadTail DEF ResultEvents
  <2>3. e \in Events /\ rest \in Seq(Events)
    <3>1. "hypothesis.backtested" \in Events /\ "hypothesis.rejected" \in Events
      BY DEF Events
    <3> QED
      BY <2>2, <3>1, HeadTail DEF Events
  <2>4. h \notin overwritten => hypotheses[h].status = a.status
    BY <1>1, <1>3, <1>10, <2>2 DEF TellsDemo
  <2>5. a.status = "live" =>
          /\ hypotheses[h].grounds = Rules
          /\ event[i].promotable /\ event[i].demoPeriodDays >= RequiredDays
    BY <2>1 DEF Result
  <2>6. /\ Grows /\ \A g \in Hypotheses : Reasoned(g)'
        /\ published' \in [Hypotheses -> SUBSET Events]
        /\ e \in published'[h] /\ published[h] \subseteq published'[h]
    BY <1>3, <1>4, <2>1, <2>2, <2>3, <2>4, <2>5, PublishesGrows
  <2>7. PICK k \in WorkType : /\ work' = [work EXCEPT ![w] = k] /\ work'[w] = k
                              /\ k.hypothesis = h /\ k.aggregate = a /\ k.events = rest
    BY <1>5, <2>3
  <2>8. next = IF e = "hypothesis.rejected" THEN "recordFailure" ELSE "settle"
    BY <2>2, NextEventResult
  <2>9. Result(i, hypotheses[h].grounds)' = Result(i, hypotheses[h].grounds) /\ Backed(h)'
    BY <1>1, <1>2, <1>3, <2>1, <2>6, EventStable, BackedStable
  <2>10. step'[w] = next => TellsDemo(w, i, h)'
    BY <1>1, <1>2, <1>3, <1>6, <2>1, <2>2, <2>6, <2>7, <2>8, <2>9 DEF TellsDemo
  <2>11. step'[w] = next => Tells(w, i, k)'
    BY <1>3, <1>6, <1>10, <2>7, <2>10 DEF Tells
  <2>12. DocumentTypes'
    BY <1>1, <1>2, <2>6 DEF Types, DocumentTypes
  <2>13. \A v \in Workers : v # w => Spared(v)
    BY <1>2, <2>7, SparedSame
  <2> QED
    BY <1>3, <1>7, <1>8, <2>6, <2>7, <2>11, <2>12, <2>13, WorkFlow
<1> QED
  BY <1>9, <1>10

---------------------------------------------------------------------------------
(* The key, and the life of a handler.                                     *)

LEMMA StayTypes ==
  ASSUME FlowInv, UNCHANGED <<event, documents, published, bff>>
  PROVE  DocumentTypes' /\ Types
  BY DEF FlowInv, Types, DocumentTypes, documents, bff

LEMMA UseKeyFlow ==
  ASSUME FlowInv, NEW w \in Workers, UseKey(w)
  PROVE  FlowInv'
<1> PICK i : i = Identifier(w)
  OBVIOUS
<1>1. /\ Reserve(w) \/ SettleKey(w) \/ ReleaseKey(w)
      /\ UNCHANGED <<deliveryVars, event, documents, work, published, bff>>
      /\ step[w] \in ReserveSteps \cup {"settle", "release"}
  BY DEF UseKey, Reserve, CreateKey, LookAtKey, TakeKey, SettleKey, ReleaseKey, ReserveSteps
<1>2. step[w] \notin {"idle", "error"}
  BY <1>1 DEF ReserveSteps
<1>3. i \in Identifiers /\ Knows(w)
  BY <1>2, HandlerOf
<1> PICK s \in {"reserved", "look", "take", "ok", "error", "release"} :
      /\ step' = [step EXCEPT ![w] = s]
      /\ s \in {"look", "take"} => step[w] \in ReserveSteps
      /\ s = "reserved" => step[w] \in ReserveSteps
      /\ s = "ok" => keys[i] = "processed" \/ step[w] = "settle"
  BY <1>1, UseKeyResult DEF FlowInv
<1>4. KeyInv' /\ UNCHANGED held /\ UNCHANGED sub
  BY <1>1, UseKeyResult DEF FlowInv, deliveryVars
<1>5. step[w] = "settle" /\ IsProposed(i) => ProposalTold(i)
  <2> SUFFICES ASSUME step[w] = "settle", IsProposed(i) PROVE ProposalTold(i)
    OBVIOUS
  <2> PICK h : h = work[w].hypothesis
    OBVIOUS
  <2>1. TellsProposal(w, i, h)
    BY <1>3 DEF Knows
  <2> QED
    BY <2>1 DEF TellsProposal, ProposalTold, Passed
<1>6. \A j \in Identifiers : keys'[j] = "processed" /\ IsProposed(j) => ProposalTold(j)
  <2>1. \A j \in Identifiers : \/ keys'[j] = keys[j] \/ keys'[j] \in {"leased", "lapsed"}
                               \/ j = i /\ step[w] = "settle"
    BY <1>1, UseKeyResult DEF FlowInv
  <2> QED
    BY <1>5, <2>1 DEF FlowInv, ProposalsTold
<1>7. /\ Grows /\ (\A h \in Hypotheses : Reasoned(h)') /\ DocumentTypes' /\ Types
      /\ UNCHANGED <<hypotheses, writer, overwritten, failures, stage, decided>>
  BY <1>1, DocumentsStay, StayTypes
<1>8. /\ step'[w] = s /\ work' = work /\ Identifier(w)' = i
      /\ \A v \in Workers : v # w => SameHandler(v)
  BY <1>1, <1>4, <1>7 DEF Types, SameHandler, Identifier
<1>9. \A v \in Workers : v # w => Spared(v)
  <2>1. work' = [work EXCEPT ![w] = work[w]]
    BY <1>7, <1>8 DEF Types
  <2> QED
    BY <1>7, <2>1, SparedSame
<1>10. Types'
  BY <1>1, <1>7 DEF Types, DocumentTypes, Outside, ReserveSteps, WorkSteps
<1>11. s = "ok" /\ IsProposed(i)' => ProposalTold(i)'
  <2>1. IsProposed(i)' = IsProposed(i)
    BY <1>3, <1>7, EventStable DEF Grows
  <2>2. s = "ok" /\ IsProposed(i) => ProposalTold(i)
    BY <1>3, <1>5 DEF FlowInv, ProposalsTold
  <2> QED
    BY <1>3, <1>7, <2>1, <2>2, ToldStable
<1>12. s \in {"reserved", "look", "take"} => work[w] = NoWork
  BY <1>3 DEF Knows
<1>13. Knows(w)'
  BY <1>8, <1>11, <1>12 DEF Knows, TellSteps, ReserveSteps
<1> QED
  BY <1>4, <1>6, <1>7, <1>8, <1>9, <1>10, <1>13, FlowByHandler DEF FlowInv, ProposalsTold

LEMMA RequestFailsFlow ==
  ASSUME FlowInv, NEW w \in Workers, RequestFails(w)
  PROVE  FlowInv'
<1>1. /\ Fail(w) /\ step[w] \notin {"idle", "ok", "error"}
      /\ UNCHANGED <<deliveryVars, keys, event, documents, work, published, bff>>
  BY DEF RequestFails, Writes
<1> PICK s \in {"error", "release"} : step' = [step EXCEPT ![w] = s]
  BY <1>1, FailKey DEF FlowInv
<1>2. KeyInv' /\ UNCHANGED held /\ UNCHANGED sub
  BY <1>1, FailKey DEF FlowInv, deliveryVars
<1>3. /\ Grows /\ (\A h \in Hypotheses : Reasoned(h)') /\ DocumentTypes' /\ Types
      /\ UNCHANGED <<hypotheses, writer, overwritten, failures, stage, decided>>
  BY <1>1, DocumentsStay, StayTypes
<1>4. step'[w] = s /\ \A v \in Workers : v # w => SameHandler(v)
  BY <1>1, <1>2, <1>3 DEF Types, SameHandler
<1>5. \A v \in Workers : v # w => Spared(v)
  <2>1. work' = [work EXCEPT ![w] = work[w]]
    BY <1>1, <1>3 DEF Types
  <2> QED
    BY <1>3, <2>1, SparedSame
<1>6. Types'
  BY <1>1, <1>3 DEF Types, DocumentTypes, Outside, WorkSteps
<1>7. Knows(w)'
  BY <1>4 DEF Knows, TellSteps, ReserveSteps
<1> QED
  BY <1>1, <1>2, <1>3, <1>4, <1>5, <1>6, <1>7, FlowByHandler DEF FlowInv, ProposalsTold

LEMMA ReceiveFlow ==
  ASSUME FlowInv, NEW w \in Workers, NEW m \in Messages, Receive(w, m)
  PROVE  FlowInv'
<1>1. /\ ReceiveMessage(w, m) /\ step[w] = "idle"
      /\ UNCHANGED <<event, documents, work, published, bff>> /\ UNCHANGED keys
  BY DEF Receive, ReceiveMessage, keyVars
<1> PICK s \in {"create", "error"} : step' = [step EXCEPT ![w] = s]
  BY <1>1, ReceiveKey DEF FlowInv
<1>2. KeyInv' /\ held' = [held EXCEPT ![w] = m]
  BY <1>1, ReceiveKey DEF FlowInv
<1>3. /\ Grows /\ (\A h \in Hypotheses : Reasoned(h)') /\ DocumentTypes' /\ Types
      /\ UNCHANGED <<hypotheses, writer, overwritten, failures, stage, decided>>
  BY <1>1, DocumentsStay, StayTypes
<1>4. step'[w] = s /\ \A v \in Workers : v # w => SameHandler(v)
  BY <1>1, <1>2, <1>3
  DEF FlowInv, Types, KeyInv, KeyOK, LeasedKeyTypeOK, DeliveryTypeOK, SameHandler
<1>5. \A v \in Workers : v # w => Spared(v)
  <2>1. work' = [work EXCEPT ![w] = work[w]]
    BY <1>1, <1>3 DEF Types
  <2> QED
    BY <1>3, <2>1, SparedSame
<1>6. Types'
  BY <1>1, <1>3 DEF Types, DocumentTypes, Outside, ReserveSteps
<1>7. work'[w] = NoWork
  BY <1>1 DEF FlowInv, Knows
<1>8. Knows(w)'
  BY <1>4, <1>7 DEF Knows, TellSteps
<1>9. \A n \in WellFormed : sub'[n] = "acked" => sub[n] = "acked"
  BY <1>1, ElsewhereAcks, LeasedKeyAssumption DEF FlowInv
<1> QED
  BY <1>1, <1>2, <1>3, <1>4, <1>5, <1>6, <1>8, <1>9, FlowByHandler DEF FlowInv, ProposalsTold

LEMMA EndFlow ==
  ASSUME FlowInv, NEW w \in Workers, Reply(w) \/ Die(w)
  PROVE  FlowInv'
<1>1. /\ Answer(w) \/ Crash(w)
      /\ work' = [work EXCEPT ![w] = NoWork]
      /\ UNCHANGED <<event, documents, published, bff>> /\ UNCHANGED keys
  BY DEF Reply, Die, Forget, Answer, Crash, keyVars
<1>2. /\ KeyInv' /\ held' = [held EXCEPT ![w] = NoMessage]
      /\ step' = [step EXCEPT ![w] = "idle"]
  BY <1>1, AnswerKey, CrashKey DEF FlowInv
<1>3. /\ Grows /\ (\A h \in Hypotheses : Reasoned(h)') /\ DocumentTypes' /\ Types
      /\ UNCHANGED <<hypotheses, writer, overwritten, failures, stage, decided>>
  BY <1>1, DocumentsStay, StayTypes
<1>4. /\ step'[w] = "idle" /\ work'[w] = NoWork
      /\ \A u \in Workers : u # w => work'[u] = work[u]
      /\ \A v \in Workers : v # w => SameHandler(v)
  BY <1>1, <1>2, <1>3
  DEF FlowInv, Types, KeyInv, KeyOK, LeasedKeyTypeOK, DeliveryTypeOK, SameHandler
<1>5. \A v \in Workers : v # w => Spared(v)
  <2>1. \A v \in Workers : Unwritten(v) => work[v].hypothesis # NoHypothesis
    BY DEF FlowInv, Knows, Unwritten, TellSteps
  <2>2. work'[w].hypothesis = NoHypothesis
    BY <1>4 DEF NoWork
  <2> QED
    BY <1>3, <1>4, <2>1, <2>2, SparedByAll
<1>6. Types'
  <2>1. NoWork \in WorkType
    BY DEF NoWork, WorkType
  <2> QED
    BY <1>1, <1>2, <1>3, <2>1 DEF Types, DocumentTypes, Outside, WorkType
<1>7. Knows(w)'
  BY <1>4 DEF Knows, TellSteps
<1>8. ASSUME NEW n \in WellFormed, sub'[n] = "acked", IsProposed(IdentifierOf[n])
      PROVE  ProposalTold(IdentifierOf[n])
  <2>1. sub[n] = "acked" \/ (step[w] = "ok" /\ held[w] = n)
    BY <1>1, <1>8, AnswerAcks, LeasedKeyAssumption DEF FlowInv
  <2>2. step[w] = "ok" /\ IsProposed(Identifier(w)) => ProposalTold(Identifier(w))
    BY DEF FlowInv, Knows
  <2> QED
    BY <1>8, <2>1, <2>2 DEF Identifier, FlowInv, ProposalsTold
<1> QED
  BY <1>1, <1>2, <1>3, <1>4, <1>5, <1>6, <1>7, <1>8, FlowByHandler DEF FlowInv, ProposalsTold

(* A step that no handler makes.                                           *)
LEMMA FlowElsewhere ==
  ASSUME FlowInv, KeyInv', Types', Grows,
         \A v \in Workers : SameHandler(v) /\ Spared(v),
         \A r \in Requests : Asks(r)', \A h \in Hypotheses : Reasoned(h)',
         \A i \in Identifiers : keys'[i] = "processed" => keys[i] = "processed",
         \A m \in WellFormed : sub'[m] = "acked" => sub[m] = "acked"
  PROVE  FlowInv'
<1>1. \A v \in Workers : Knows(v)'
  BY KnowsStable
<1>2. Types /\ \A i \in Identifiers : IsProposed(i)' = IsProposed(i)
  BY EventStable DEF Grows, FlowInv
<1>3. \A i \in Identifiers : ProposalTold(i) => ProposalTold(i)'
  BY <1>2, ToldStable
<1>4. ProposalsTold'
  <2>1. ASSUME NEW m \in WellFormed, sub'[m] = "acked", IsProposed(IdentifierOf[m])'
        PROVE  ProposalTold(IdentifierOf[m])'
    <3>1. PICK i \in Identifiers : i = IdentifierOf[m]
      BY LeasedKeyAssumption
    <3>2. ProposalTold(i)
      BY <1>2, <2>1, <3>1 DEF FlowInv, ProposalsTold
    <3> QED
      BY <1>3, <3>1, <3>2
  <2>2. ASSUME NEW i \in Identifiers, IsProposed(i)', keys'[i] = "processed"
        PROVE  ProposalTold(i)'
    BY <1>2, <1>3, <2>2 DEF FlowInv, ProposalsTold
  <2> QED
    BY <2>1, <2>2 DEF ProposalsTold
<1> QED
  BY <1>1, <1>4 DEF FlowInv

(* What the environment does to the key and the subscription.              *)
LEMMA EnvironmentKey ==
  ASSUME FlowInv,
         \/ \E i \in Identifiers : LeaseRunsOut(i)
         \/ Subscription
         \/ UNCHANGED <<deliveryVars, step, keyVars>>
  PROVE  /\ KeyInv' /\ UNCHANGED <<held, step>> /\ disturbed \subseteq disturbed'
         /\ \A j \in Identifiers : \/ keys'[j] = keys[j]
                                   \/ keys[j] = "leased" /\ keys'[j] = "lapsed"
         /\ \A n \in WellFormed : sub'[n] = "acked" => sub[n] = "acked"
<1>1. CASE \E i \in Identifiers : LeaseRunsOut(i)
  <2>1. PICK i \in Identifiers : LeaseExpires(i)
    BY <1>1 DEF LeaseRunsOut
  <2>2. /\ keys' = [keys EXCEPT ![i] = "lapsed"] /\ keys[i] = "leased" /\ UNCHANGED sub
        /\ disturbed \subseteq disturbed'
    BY <2>1 DEF LeaseExpires, deliveryVars
  <2> QED
    BY <2>1, <2>2, LeaseExpiresKey DEF FlowInv, KeyInv, KeyOK, LeasedKeyTypeOK
<1>2. CASE Subscription
  <2>1. (\E m \in Messages : Expire(m) \/ Redeliver(m)) /\ UNCHANGED <<step, keyVars>>
    BY <1>2 DEF Subscription
  <2>2. keys' = keys /\ disturbed' = disturbed
    BY <2>1 DEF keyVars
  <2> QED
    BY <2>1, <2>2, ElsewhereKey, ElsewhereAcks, LeasedKeyAssumption DEF FlowInv
<1>3. CASE UNCHANGED <<deliveryVars, step, keyVars>>
  <2>1. UNCHANGED <<step, keyVars>> /\ UNCHANGED deliveryVars
    BY <1>3
  <2>2. keys' = keys /\ sub' = sub /\ disturbed' = disturbed
    BY <2>1 DEF keyVars, deliveryVars
  <2> QED
    BY <2>1, <2>2, ElsewhereKey DEF FlowInv
<1> QED
  BY <1>1, <1>2, <1>3

LEMMA EnvironmentFlow ==
  ASSUME FlowInv,
         (\E i \in Identifiers : LeaseRunsOut(i)) \/ Subscription \/ UNCHANGED vars
  PROVE  FlowInv'
<1>1. UNCHANGED <<event, work, documents, published, bff, step>>
  BY DEF LeaseRunsOut, LeaseExpires, Subscription, vars
<1>2. /\ KeyInv' /\ UNCHANGED held
      /\ \A j \in Identifiers : keys'[j] = "processed" => keys[j] = "processed"
      /\ \A n \in WellFormed : sub'[n] = "acked" => sub[n] = "acked"
  BY EnvironmentKey DEF vars
<1>3. /\ Grows /\ (\A h \in Hypotheses : Reasoned(h)') /\ DocumentTypes' /\ Types
      /\ UNCHANGED <<hypotheses, writer, overwritten, failures, stage, decided>>
  BY <1>1, DocumentsStay, StayTypes
<1>4. \A v \in Workers : SameHandler(v) /\ Spared(v)
  <2>1. \A v \in Workers : SameHandler(v)
    BY <1>1, <1>2 DEF SameHandler
  <2>2. ASSUME NEW v \in Workers PROVE Spared(v)
    <3> PICK j : j = Identifier(v)
      OBVIOUS
    <3>1. Unwritten(v) => TellsProposal(v, j, work[v].hypothesis) /\ step[v] = "saveHypothesis"
      BY DEF Unwritten, FlowInv, Knows, TellSteps
    <3> QED
      BY <1>1, <1>3, <3>1 DEF Spared, TellsProposal
  <2> QED
    BY <2>1, <2>2
<1>5. Types'
  BY <1>1, <1>3 DEF Types, DocumentTypes
<1>6. \A r \in Requests : Asks(r)'
  BY <1>3, AsksStable DEF FlowInv
<1> QED
  BY <1>2, <1>3, <1>4, <1>5, <1>6, FlowElsewhere

\* A demo is started: of a hypothesis that passed its backtest.
LEMMA StartDemoGrows ==
  ASSUME FlowInv, NEW h \in Hypotheses, StartDemo(h)
  PROVE  /\ hypotheses[h].status = "backtested"
         /\ hypotheses'[h].status = "demo" /\ hypotheses'[h].origin = hypotheses[h].origin
         /\ \A g \in Hypotheses \ {h} : hypotheses'[g] = hypotheses[g] /\ writer'[g] = writer[g]
         /\ hypotheses' \in [Hypotheses -> Aggregate \cup {Absent}]
         /\ writer' \in [Hypotheses -> Writers]
         /\ Grows
<1>1. PICK declared \in SUBSET {"declared"} :
        hypotheses' = [hypotheses EXCEPT ![h].status = "demo", ![h].grounds = @ \cup declared]
  BY DEF StartDemo
<1>2. /\ hypotheses[h].status = "backtested" /\ Types
      /\ UNCHANGED <<deliveryVars, step, keyVars, event, overwritten, failures, work,
                   published, stage, decided>>
  BY DEF StartDemo, FlowInv, bff
<1>3. hypotheses[h] \in Aggregate
  BY <1>2 DEF Types, Absent
<1>4. /\ hypotheses'[h].status = "demo" /\ hypotheses'[h].origin = hypotheses[h].origin
      /\ hypotheses'[h] \in Aggregate
      /\ \A g \in Hypotheses \ {h} : hypotheses'[g] = hypotheses[g]
      /\ hypotheses' \in [Hypotheses -> Aggregate \cup {Absent}]
  <2> PICK a : a = [status |-> "demo", origin |-> hypotheses[h].origin,
                    grounds |-> hypotheses[h].grounds \cup declared]
    OBVIOUS
  <2>1. a \in Aggregate
    BY <1>3 DEF Aggregate, Statuses, Rules
  <2>2. hypotheses'[h] = a
    BY <1>1, <1>2, <1>3 DEF Types, Aggregate
  <2>3. /\ DOMAIN hypotheses' = Hypotheses /\ hypotheses' = [g \in Hypotheses |-> hypotheses'[g]]
        /\ \A g \in Hypotheses \ {h} : hypotheses'[g] = hypotheses[g]
    BY <1>1, <1>2 DEF Types
  <2>4. hypotheses' \in [Hypotheses -> Aggregate \cup {Absent}]
    <3>1. \A g \in Hypotheses : hypotheses'[g] \in Aggregate \cup {Absent}
      BY <1>2, <2>1, <2>2, <2>3 DEF Types
    <3> QED
      BY <2>3, <3>1
  <2> QED
    BY <2>1, <2>2, <2>3, <2>4
<1>5. /\ \A g \in Hypotheses \ {h} : writer'[g] = writer[g]
      /\ writer' \in [Hypotheses -> Writers]
  BY <1>2 DEF StartDemo, Types, Writers
<1>6. Grows
  <2>1. Kept(h)
    BY <1>2, <1>4 DEF Kept, InTrial, Verdicts
  <2>2. \A g \in Hypotheses \ {h} : Kept(g)
    BY <1>4, <1>5, KeptSame
  <2> QED
    BY <1>2, <2>1, <2>2 DEF Grows
<1> QED
  BY <1>2, <1>4, <1>5, <1>6

\* A hypothesis that is not saved yet stays so, when nobody saves it.
LEMMA SparedElsewhere ==
  ASSUME FlowInv, UNCHANGED <<held, step, work>>,
         \A h \in Hypotheses : hypotheses[h].status = "absent" => hypotheses'[h].status = "absent"
  PROVE  \A v \in Workers : SameHandler(v) /\ Spared(v)
<1>1. ASSUME NEW v \in Workers PROVE Spared(v)
  <2> PICK j : j = Identifier(v)
    OBVIOUS
  <2>1. Unwritten(v) => TellsProposal(v, j, work[v].hypothesis) /\ step[v] = "saveHypothesis"
    BY DEF Unwritten, FlowInv, Knows, TellSteps
  <2> QED
    BY <2>1 DEF Spared, TellsProposal
<1> QED
  BY <1>1 DEF SameHandler

LEMMA StartDemoFlow ==
  ASSUME FlowInv, NEW h \in Hypotheses, StartDemo(h)
  PROVE  FlowInv'
<1>1. /\ hypotheses[h].status = "backtested" /\ Types /\ writer'[h] = "outside"
      /\ UNCHANGED <<deliveryVars, step, keyVars, event, overwritten, failures, work,
                   published, stage, decided>>
  BY DEF StartDemo, FlowInv, bff, Types
<1>2. /\ hypotheses'[h].status = "demo" /\ hypotheses'[h].origin = hypotheses[h].origin
      /\ \A g \in Hypotheses \ {h} : hypotheses'[g] = hypotheses[g] /\ writer'[g] = writer[g]
      /\ hypotheses' \in [Hypotheses -> Aggregate \cup {Absent}]
      /\ writer' \in [Hypotheses -> Writers]
  BY StartDemoGrows
<1>3. Grows
  BY StartDemoGrows
<1>4. \A g \in Hypotheses : Reasoned(g)'
  <2>1. \A g \in Hypotheses \ {h} : Reasoned(g)'
    BY <1>1, <1>2, ReasonedStable
  <2>2. Reasoned(h) /\ Backed(h) /\ Backed(h)'
    BY <1>1, <1>3, BackedStable DEF FlowInv, Reasoned
  <2>3. /\ h \notin InDemo /\ "hypothesis.promoted" \notin published'[h] \cup decided'[h]
        /\ h \notin overwritten' => "hypothesis.rejected" \notin published'[h] \cup decided'[h]
    BY <1>1, <2>2 DEF Reasoned, InTrial
  <2>4. Reasoned(h)'
    BY <1>1, <1>2, <2>2, <2>3 DEF Reasoned
  <2> QED
    BY <2>1, <2>4
<1>5. UNCHANGED <<deliveryVars, step, keyVars>>
  BY <1>1
<1>6. /\ KeyInv' /\ UNCHANGED <<held, step>>
      /\ \A n \in WellFormed : sub'[n] = "acked" => sub[n] = "acked"
      /\ \A j \in Identifiers : keys'[j] = "processed" => keys[j] = "processed"
  BY <1>5, EnvironmentKey
<1>7. \A v \in Workers : SameHandler(v) /\ Spared(v)
  <2>1. \A g \in Hypotheses : hypotheses[g].status = "absent" => hypotheses'[g].status = "absent"
    BY <1>1, <1>2
  <2> QED
    BY <1>1, <1>6, <2>1, SparedElsewhere
<1>8. Types'
  BY <1>1, <1>2 DEF Types
<1>9. \A r \in Requests : Asks(r)'
  BY <1>1, <1>3, AsksStable DEF FlowInv
<1> QED
  BY <1>3, <1>4, <1>6, <1>7, <1>8, <1>9, FlowElsewhere

---------------------------------------------------------------------------------
(* The requests of the BFF.                                                *)

(* A step of the request r: what is left to show of it.                    *)
LEMMA RequestFlow ==
  ASSUME FlowInv, NEW r \in Requests, NEW s \in Stages, stage' = [stage EXCEPT ![r] = s],
         UNCHANGED <<deliveryVars, step, keyVars>>, UNCHANGED work, Grows,
         hypotheses' \in [Hypotheses -> Aggregate \cup {Absent}],
         writer' \in [Hypotheses -> Writers], overwritten' \subseteq Hypotheses,
         failures' = failures, published' = published,
         decided' \in [Hypotheses -> SUBSET Events],
         \A h \in Hypotheses : hypotheses[h].status = "absent" => hypotheses'[h].status = "absent",
         Asks(r)', \A h \in Hypotheses : Reasoned(h)'
  PROVE  FlowInv'
<1>1. /\ KeyInv' /\ UNCHANGED <<held, step>>
      /\ \A n \in WellFormed : sub'[n] = "acked" => sub[n] = "acked"
      /\ \A j \in Identifiers : keys'[j] = "processed" => keys[j] = "processed"
  BY EnvironmentKey
<1>2. Types /\ event' = event /\ \A q \in Requests \ {r} : stage'[q] = stage[q]
  BY DEF FlowInv, Types, Grows
<1>3. Types'
  BY <1>1, <1>2 DEF Types
<1>4. \A q \in Requests : Asks(q)'
  BY <1>2, AsksStable DEF FlowInv
<1>5. \A v \in Workers : SameHandler(v) /\ Spared(v)
  BY <1>1, SparedElsewhere
<1> QED
  BY <1>1, <1>3, <1>4, <1>5, FlowElsewhere

\* A request that writes no document and publishes nothing.
LEMMA RequestMoves ==
  ASSUME FlowInv, NEW r \in Requests, NEW s \in Stages, stage' = [stage EXCEPT ![r] = s],
         UNCHANGED <<deliveryVars, step, keyVars, event, documents, work, published, decided>>,
         Asks(r)'
  PROVE  FlowInv'
<1>1. /\ UNCHANGED <<event, hypotheses, writer, overwritten, failures, published, decided>>
      /\ UNCHANGED <<deliveryVars, step, keyVars>> /\ UNCHANGED work
  BY DEF documents
<1>2. Grows /\ (\A h \in Hypotheses : Reasoned(h)') /\ Types
  BY <1>1, OnlyFailures DEF FlowInv
<1> QED
  BY <1>1, <1>2, RequestFlow DEF Types

\* The hypothesis that the request r, on its way, is for.
LEMMA RequestOf ==
  ASSUME FlowInv, NEW r \in Requests, stage[r] # "done", NEW h, h = event[r].hypothesis
  PROVE  h \in Hypotheses /\ r \in RequestsFor(h) /\ event[r].kind \in Actions
  BY DEF FlowInv, Asks, Request, RequestsFor

LEMMA FetchFlow ==
  ASSUME FlowInv, NEW r \in Requests, FetchHypothesis(r)
  PROVE  FlowInv'
<1> PICK h : h = event[r].hypothesis
  OBVIOUS
<1>1. /\ stage[r] = "fetch"
      /\ UNCHANGED <<deliveryVars, step, keyVars, event, documents, work, published, decided>>
  BY DEF FetchHypothesis
<1>2. PICK s \in {"write", "done"} :
        /\ stage' = [stage EXCEPT ![r] = s]
        /\ s = "write" => BffReads(h) /\ Validates(event[r].kind, hypotheses[h])
  BY DEF FetchHypothesis, Proceed
<1>3. stage'[r] = s /\ s \in Stages
  BY <1>2 DEF FlowInv, Types, Stages
<1>4. h \in Hypotheses /\ event[r] \in Request /\ Reasoned(h)
  BY <1>1, RequestOf DEF FlowInv, Asks
<1>5. s = "write" =>
        /\ hypotheses[h].status = "demo" /\ Backed(h)
        /\ event[r].kind = "promote" => {"noReview", "declared"} \subseteq hypotheses[h].grounds
  BY <1>2, <1>4 DEF BffReads, Reasoned, Validates
<1>6. Backed(h)' = Backed(h) /\ hypotheses' = hypotheses /\ event' = event
  BY <1>1 DEF documents, Backed, IsProposed, Passed
<1>7. Asks(r)'
  BY <1>3, <1>4, <1>5, <1>6 DEF Asks, InTrial
<1> QED
  BY <1>1, <1>2, <1>3, <1>7, RequestMoves

\* A hypothesis in its trial gets the status that the request asks for.
LEMMA UpdateGrows ==
  ASSUME FlowInv, NEW r \in Requests, UpdateHypothesis(r), NEW h, h = event[r].hypothesis,
         NEW s, s = StatusAfter(event[r].kind)
  PROVE  /\ h \in Hypotheses /\ event[r] \in Request /\ stage[r] = "write"
         /\ hypotheses[h].status \in InTrial /\ Backed(h) /\ s \in InTrial
         /\ hypotheses'[h].status = s /\ hypotheses'[h].origin = hypotheses[h].origin
         /\ hypotheses'[h].grounds = hypotheses[h].grounds /\ writer'[h] = "bff"
         /\ \A g \in Hypotheses \ {h} : hypotheses'[g] = hypotheses[g] /\ writer'[g] = writer[g]
         /\ hypotheses' \in [Hypotheses -> Aggregate \cup {Absent}]
         /\ writer' \in [Hypotheses -> Writers]
         /\ WritesOver(h, s) /\ Grows
         /\ UNCHANGED <<deliveryVars, step, keyVars>>
         /\ UNCHANGED <<event, failures, work, published, decided>>
<1>1. /\ stage[r] = "write" /\ Types /\ WritesOver(h, s)
      /\ hypotheses' = [hypotheses EXCEPT ![h].status = s]
      /\ writer' = [writer EXCEPT ![h] = "bff"]
      /\ UNCHANGED <<deliveryVars, step, keyVars>>
      /\ UNCHANGED <<event, failures, work, published, decided>>
  BY DEF UpdateHypothesis, FlowInv
<1>2. h \in Hypotheses /\ r \in RequestsFor(h) /\ event[r] \in Request /\ Asks(r)
  BY <1>1, RequestOf DEF FlowInv, Asks
<1>3. hypotheses[h].status \in InTrial /\ Backed(h)
  BY <1>1, <1>2 DEF Asks
<1>4. s \in Verdicts /\ s \in InTrial /\ s \in Statuses
  BY StatusAfterRange DEF Verdicts, InTrial, Statuses
<1>5. hypotheses[h] \in Aggregate
  BY <1>1, <1>2, <1>3 DEF Types, InTrial, Absent
<1>6. /\ hypotheses'[h].status = s /\ hypotheses'[h].origin = hypotheses[h].origin
      /\ hypotheses'[h].grounds = hypotheses[h].grounds /\ hypotheses'[h] \in Aggregate
  <2>1. hypotheses'[h] = [hypotheses[h] EXCEPT !.status = s]
    BY <1>1, <1>2 DEF Types
  <2> QED
    BY <1>4, <1>5, <2>1 DEF Aggregate
<1>7. \A g \in Hypotheses \ {h} : hypotheses'[g] = hypotheses[g] /\ writer'[g] = writer[g]
  BY <1>1 DEF Types
<1>8. /\ hypotheses' \in [Hypotheses -> Aggregate \cup {Absent}]
      /\ writer' \in [Hypotheses -> Writers] /\ writer'[h] = "bff"
  <2>1. \A g \in Hypotheses : hypotheses'[g] \in Aggregate \cup {Absent}
    BY <1>1, <1>6, <1>7 DEF Types
  <2>2. DOMAIN hypotheses' = Hypotheses /\ hypotheses' = [g \in Hypotheses |-> hypotheses'[g]]
    BY <1>1 DEF Types
  <2> QED
    BY <1>1, <1>2, <2>1, <2>2 DEF Types, Writers
<1>9. Grows
  <2>1. /\ overwritten \subseteq overwritten'
        /\ hypotheses[h].status \in Verdicts /\ h \notin overwritten' => hypotheses[h].status = s
    BY <1>1, WritesOverResult
  <2>2. Kept(h)
    BY <1>2, <1>3, <1>4, <1>6, <1>8, <2>1 DEF Kept, InTrial, Agreed
  <2>3. \A g \in Hypotheses \ {h} : Kept(g)
    BY <1>7, KeptSame
  <2> QED
    BY <1>1, <2>1, <2>2, <2>3 DEF Grows
<1> QED
  BY <1>1, <1>2, <1>3, <1>4, <1>6, <1>7, <1>8, <1>9

LEMMA UpdateFlow ==
  ASSUME FlowInv, NEW r \in Requests, UpdateHypothesis(r)
  PROVE  FlowInv'
<1> PICK h : h = event[r].hypothesis
  OBVIOUS
<1> PICK s : s = StatusAfter(event[r].kind)
  OBVIOUS
<1>1. /\ h \in Hypotheses /\ event[r] \in Request /\ stage[r] = "write"
      /\ hypotheses[h].status \in InTrial /\ Backed(h) /\ s \in InTrial
      /\ hypotheses'[h].status = s /\ hypotheses'[h].grounds = hypotheses[h].grounds
      /\ writer'[h] = "bff"
      /\ \A g \in Hypotheses \ {h} : hypotheses'[g] = hypotheses[g] /\ writer'[g] = writer[g]
      /\ hypotheses' \in [Hypotheses -> Aggregate \cup {Absent}]
      /\ writer' \in [Hypotheses -> Writers]
      /\ WritesOver(h, s)
  BY UpdateGrows
<1>2. /\ Grows /\ UNCHANGED <<deliveryVars, step, keyVars>>
      /\ UNCHANGED <<event, failures, work, published, decided>>
  BY UpdateGrows
<1>3. Asks(r) /\ Types
  BY DEF FlowInv
<1>4. PICK t \in {"write", "publish", "done"} :
        /\ stage' = [stage EXCEPT ![r] = t]
        /\ t = "publish" => event[r].kind # "declare"
  <2>1. stage = [stage EXCEPT ![r] = "write"]
    BY <1>1, <1>3 DEF Types
  <2>2. CASE stage' = stage
    BY <2>1, <2>2
  <2>3. CASE Proceed(r, "done")
    BY <2>3 DEF Proceed
  <2>4. CASE Proceed(r, IF event[r].kind = "declare" THEN "done" ELSE "publish")
    BY <2>4 DEF Proceed
  <2> QED
    BY <2>2, <2>3, <2>4 DEF UpdateHypothesis
<1>5. stage'[r] = t /\ t \in Stages
  BY <1>3, <1>4 DEF Types, Stages
<1>6. overwritten \subseteq overwritten' /\ overwritten' \subseteq Hypotheses
  BY <1>1, <1>3, WritesOverResult DEF Types
<1>7. \A g \in Hypotheses : Reasoned(g)'
  <2>1. \A g \in Hypotheses \ {h} : Reasoned(g)'
    BY <1>1, <1>2, <1>6, ReasonedStable
  <2>2. Reasoned(h)'
    BY <1>1, <1>2, TrialReasoned
  <2> QED
    BY <2>1, <2>2
<1>8. Asks(r)'
  <2>1. Backed(h)' /\ StatusAfter(event'[r].kind) = s /\ h = event'[r].hypothesis
    BY <1>1, <1>2, <1>3, BackedStable
  <2>2. event[r].kind = "promote" => {"noReview", "declared"} \subseteq hypotheses'[h].grounds
    BY <1>1, <1>3 DEF Asks
  <2> QED
    BY <1>1, <1>2, <1>4, <1>5, <2>1, <2>2 DEF Asks
<1>9. \A g \in Hypotheses : hypotheses[g].status = "absent" => hypotheses'[g].status = "absent"
  BY <1>1 DEF InTrial
<1>10. decided' \in [Hypotheses -> SUBSET Events] /\ UNCHANGED work
  BY <1>2, <1>3 DEF Types
<1> QED
  BY <1>1, <1>2, <1>4, <1>5, <1>6, <1>7, <1>8, <1>9, <1>10, RequestFlow

LEMMA PublishFlow ==
  ASSUME FlowInv, NEW r \in Requests, PublishDecision(r)
  PROVE  FlowInv'
<1> PICK h : h = event[r].hypothesis
  OBVIOUS
<1> PICK e : e = EventAfter(event[r].kind)
  OBVIOUS
<1>1. /\ stage[r] = "publish" /\ Types /\ stage' = [stage EXCEPT ![r] = "done"]
      /\ decided' = [decided EXCEPT ![h] = @ \cup {e}]
      /\ UNCHANGED <<deliveryVars, step, keyVars>> /\ UNCHANGED work
      /\ UNCHANGED <<event, hypotheses, writer, overwritten, failures, published>>
  BY DEF PublishDecision, Proceed, FlowInv, documents
<1>2. h \in Hypotheses /\ event[r].kind \in Actions /\ Asks(r) /\ Reasoned(h)
  BY <1>1, RequestOf DEF FlowInv
<1>3. e \in Events /\ e # "hypothesis.backtested"
  BY DEF EventAfter, Events
<1>4. /\ decided' \in [Hypotheses -> SUBSET Events] /\ decided'[h] = decided[h] \cup {e}
      /\ \A g \in Hypotheses \ {h} : decided'[g] = decided[g]
  BY <1>1, <1>2, <1>3 DEF Types
<1>5. Grows
  <2>1. \A g \in Hypotheses : Kept(g)
    BY <1>1, KeptSame
  <2> QED
    BY <1>1, <2>1 DEF Grows
<1>6. \A g \in Hypotheses \ {h} : Reasoned(g)'
  BY <1>1, <1>4, ReasonedStable
<1>7. Reasoned(h)'
  <2>1. /\ e = "hypothesis.promoted" =>
             /\ hypotheses[h].status \in InTrial /\ Backed(h)
             /\ {"noReview", "declared"} \subseteq hypotheses[h].grounds
             /\ h \notin overwritten => hypotheses[h].status = "live"
        /\ e = "hypothesis.rejected" /\ h \notin overwritten => hypotheses[h].status = "rejected"
    BY <1>1, <1>2 DEF Asks, EventAfter, StatusAfter, Actions
  <2>2. DemosOf(h)' = DemosOf(h) /\ Backed(h)' = Backed(h)
    BY <1>1 DEF DemosOf, Backed, IsProposed, Passed
  <2> QED
    BY <1>1, <1>2, <1>3, <1>4, <2>1, <2>2 DEF Reasoned, IsProposed, Passed
<1>8. Asks(r)'
  <2>1. stage'[r] = "done"
    BY <1>1 DEF Types
  <2> QED
    BY <2>1 DEF Asks
<1>9. "done" \in Stages
  BY DEF Stages
<1> QED
  <2>1. /\ UNCHANGED <<deliveryVars, step, keyVars>> /\ UNCHANGED work
        /\ stage' = [stage EXCEPT ![r] = "done"] /\ failures' = failures /\ published' = published
    BY <1>1
  <2>2. /\ hypotheses' = hypotheses /\ hypotheses' \in [Hypotheses -> Aggregate \cup {Absent}]
        /\ writer' \in [Hypotheses -> Writers] /\ overwritten' \subseteq Hypotheses
    BY <1>1 DEF Types
  <2>3. \A g \in Hypotheses : Reasoned(g)'
    BY <1>6, <1>7
  <2> QED
    BY <2>1, <2>2, <2>3, <1>4, <1>5, <1>8, <1>9, RequestFlow

LEMMA ServeFlow ==
  ASSUME FlowInv, NEW r \in Requests, Serve(r)
  PROVE  FlowInv'
<1>1. ASSUME RequestEnds(r) PROVE FlowInv'
  <2>1. /\ stage' = [stage EXCEPT ![r] = "done"] /\ "done" \in Stages
        /\ UNCHANGED <<deliveryVars, step, keyVars, event, documents, work, published, decided>>
    BY <1>1 DEF RequestEnds, Proceed, Stages
  <2>2. Asks(r)'
    BY <2>1 DEF Asks, FlowInv, Types
  <2> QED
    BY <2>1, <2>2, RequestMoves
<1> QED
  BY <1>1, FetchFlow, UpdateFlow, PublishFlow DEF Serve

(* What a request does to the documents.                                   *)
LEMMA ServeResult ==
  ASSUME FlowInv, NEW r \in Requests, Serve(r)
  PROVE  /\ Grows /\ UNCHANGED <<deliveryVars, step, keyVars>>
         /\ UNCHANGED <<event, work, failures, published>>
         /\ \A g \in Hypotheses :
              /\ hypotheses'[g].origin = hypotheses[g].origin
              /\ \/ hypotheses'[g] = hypotheses[g] /\ writer'[g] = writer[g]
                 \/ writer'[g] = "bff" /\ {hypotheses[g].status, hypotheses'[g].status} \subseteq InTrial
<1>1. CASE UpdateHypothesis(r)
  <2> PICK h : h = event[r].hypothesis
    OBVIOUS
  <2> PICK s : s = StatusAfter(event[r].kind)
    OBVIOUS
  <2>1. /\ hypotheses[h].status \in InTrial /\ s \in InTrial /\ writer'[h] = "bff"
        /\ hypotheses'[h].status = s /\ hypotheses'[h].origin = hypotheses[h].origin
        /\ \A g \in Hypotheses \ {h} : hypotheses'[g] = hypotheses[g] /\ writer'[g] = writer[g]
        /\ Grows /\ UNCHANGED <<deliveryVars, step, keyVars>>
        /\ UNCHANGED <<event, work, failures, published>>
    BY <1>1, UpdateGrows
  <2> QED
    BY <2>1
<1>2. CASE ~UpdateHypothesis(r)
  <2>1. /\ UNCHANGED <<event, hypotheses, writer, overwritten, failures, published>>
        /\ UNCHANGED <<deliveryVars, step, keyVars>>
        /\ UNCHANGED <<event, work, failures, published>>
    BY <1>2 DEF Serve, FetchHypothesis, PublishDecision, RequestEnds, documents
  <2>2. Grows
    <3>1. \A g \in Hypotheses : Kept(g)
      BY <2>1, KeptSame
    <3> QED
      BY <2>1, <3>1 DEF Grows
  <2> QED
    BY <2>1, <2>2
<1> QED
  BY <1>1, <1>2

---------------------------------------------------------------------------------
(* The theorems that hold whatever fails.                                  *)

LEMMA InitFlow == ASSUME Init PROVE FlowInv
<1>1. KeyInv
  BY InitKey DEF Init
<1>2. PICK g \in [InDemo -> Grounds] :
        hypotheses = [h \in Hypotheses |->
          IF h \in InDemo THEN [status |-> "demo", origin |-> NoMessage, grounds |-> g[h]]
          ELSE Absent]
  BY DEF Init
<1>3. hypotheses \in [Hypotheses -> Aggregate \cup {Absent}]
  BY <1>2, LabAssumption DEF Aggregate, Statuses
<1>4. /\ event \in Cases /\ failures = {}
      /\ step = [w \in Workers |-> "idle"] /\ work = [w \in Workers |-> NoWork]
  BY LabAssumption DEF Init, LeasedKeyInit
<1>5. \A h \in Hypotheses :
        /\ published[h] = IF h \in InDemo THEN {"hypothesis.backtested"} ELSE {}
        /\ decided[h] = {} /\ (writer[h] = "outside" => h \in InDemo)
  BY DEF Init
<1>6. /\ published \in [Hypotheses -> SUBSET Events] /\ decided \in [Hypotheses -> SUBSET Events]
      /\ writer \in [Hypotheses -> Writers] /\ overwritten = {}
      /\ stage \in [Requests -> Stages]
  BY DEF Init, Events, Writers, Stages
<1>7. Types
  <2>1. NoWork \in WorkType
    BY DEF NoWork, WorkType
  <2> QED
    BY <1>3, <1>4, <1>6, <2>1 DEF Types, WorkType, Outside
<1>8. ProposalsTold
  BY LeasedKeyAssumption DEF Init, LeasedKeyInit, DeliveryInit, ProposalsTold
<1>9. \A w \in Workers : Knows(w)
  BY <1>4 DEF Knows, TellSteps
<1>10. ASSUME NEW h \in Hypotheses PROVE Reasoned(h)
  <2>1. CASE h \in InDemo
    BY <1>2, <1>5, <2>1 DEF Reasoned, Backed, InTrial
  <2>2. CASE h \notin InDemo
    BY <1>2, <1>5, <2>2 DEF Reasoned, Absent
  <2> QED
    BY <2>1, <2>2
<1>11. ASSUME NEW r \in Requests PROVE Asks(r)
  <2>1. stage[r] = IF event[r] = NoRequest THEN "done" ELSE "fetch"
    BY DEF Init
  <2>2. event[r] \in Request \cup {NoRequest}
    BY <1>4, LabAssumption
  <2> QED
    BY <2>1, <2>2 DEF Asks
<1> QED
  BY <1>1, <1>7, <1>8, <1>9, <1>10, <1>11 DEF FlowInv

\* The steps of the handler w.
StepOf(w) ==
  (\E m \in Messages : Receive(w, m)) \/ Handle(w) \/ RequestFails(w) \/ Die(w)

LEMMA StepFlow == FlowInv /\ [Next]_vars => FlowInv'
<1> SUFFICES ASSUME FlowInv, [Next]_vars PROVE FlowInv'
  OBVIOUS
<1>1. CASE \E w \in Workers : StepOf(w)
  <2>1. PICK w \in Workers : StepOf(w)
    BY <1>1
  <2>2. CASE \E m \in Messages : Receive(w, m)
    BY <2>2, ReceiveFlow
  <2>3. CASE UseKey(w) \/ Reply(w) \/ Die(w) \/ RequestFails(w)
    BY <2>3, UseKeyFlow, EndFlow, RequestFailsFlow
  <2>4. CASE Propose(w) \/ FindHypothesis(w)
    BY <2>4, ProposeFlow, FindHypothesisFlow
  <2>5. CASE Tell(w)
    BY <2>5, SaveHypothesisFlow, SaveRunFlow, AnnounceFlow, RecordFailureFlow DEF Tell
  <2> QED
    BY <2>1, <2>2, <2>3, <2>4, <2>5 DEF StepOf, Handle
<1>2. CASE (\E i \in Identifiers : LeaseRunsOut(i)) \/ Subscription \/ UNCHANGED vars
  BY <1>2, EnvironmentFlow
<1>3. CASE \E h \in Hypotheses : StartDemo(h)
  BY <1>3, StartDemoFlow
<1>4. CASE \E r \in Requests : Serve(r)
  BY <1>4, ServeFlow
<1> QED
  BY <1>1, <1>2, <1>3, <1>4 DEF Next, StepOf

LEMMA AlwaysFlow == Spec => []FlowInv
  BY InitFlow, StepFlow, PTL DEF Spec

LEMMA FlowInvImplies ==
  ASSUME FlowInv
  PROVE  TypeOK /\ PromotedByTheRules /\ OneVerdict
<1>1. TypeOK
  BY DEF FlowInv, KeyInv, KeyOK, Types, TypeOK
<1>2. PromotedByTheRules
  BY DEF FlowInv, Reasoned, Backed, Passed, Tested, PromotedByTheRules
<1>3. OneVerdict
  BY DEF FlowInv, Reasoned, Announced, OneVerdict
<1> QED
  BY <1>1, <1>2, <1>3

---------------------------------------------------------------------------------
(* What is saved and told of a hypothesis is what the contract allows.     *)

contractVars == <<SavedStatus, published, decided, failures, overwritten>>

StepContract == Contract!Next \/ UNCHANGED contractVars

\* What a write of one document does to the saved statuses.
LEMMA SavedByOne ==
  ASSUME NEW h \in Hypotheses, NEW s, hypotheses'[h].status = s,
         \A g \in Hypotheses \ {h} : hypotheses'[g] = hypotheses[g]
  PROVE  SavedStatus' = [SavedStatus EXCEPT ![h] = s]
  BY DEF SavedStatus

(* A status is written to a hypothesis in its trial.                       *)
LEMMA WriteContract ==
  ASSUME Types, NEW h \in Hypotheses, NEW s \in InTrial, hypotheses[h].status \in InTrial,
         hypotheses'[h].status = s, \A g \in Hypotheses \ {h} : hypotheses'[g] = hypotheses[g],
         Contested(h) \/ hypotheses[h].status \in {"demo", s},
         WritesOver(h, s), UNCHANGED <<published, decided, failures>>
  PROVE  StepContract
<1>1. /\ SavedStatus' = [SavedStatus EXCEPT ![h] = s]
      /\ SavedStatus[h] = hypotheses[h].status
  BY SavedByOne DEF SavedStatus
<1>2. CASE hypotheses[h].status = "demo"
  <2>1. overwritten' = overwritten
    BY <1>2, WritesOverResult DEF Verdicts
  <2>2. Contract!Decide(h)
    BY <1>1, <1>2, <2>1 DEF Contract!Decide, Contract!InTrial, InTrial
  <2> QED
    BY <2>2 DEF StepContract, Contract!Next
<1>3. CASE hypotheses[h].status = s
  <2>1. overwritten' = overwritten
    BY <1>3, WritesOverResult
  <2>2. SavedStatus' = SavedStatus
    BY <1>1, <1>3 DEF SavedStatus
  <2> QED
    BY <2>1, <2>2 DEF StepContract, contractVars
<1>4. CASE hypotheses[h].status \notin {"demo", s}
  <2>1. overwritten' = overwritten \cup {h}
    BY <1>4, WritesOverResult DEF Verdicts, InTrial
  <2>2. h \in {g \in Hypotheses : Contested(g)}
    BY <1>4
  <2>3. Contract!Overwrite(h)
    BY <1>1, <2>1, <2>2 DEF Contract!Overwrite, Contract!InTrial, InTrial
  <2> QED
    BY <2>3 DEF StepContract, Contract!Next
<1> QED
  BY <1>2, <1>3, <1>4

LEMMA SaveContract ==
  ASSUME FlowInv, NEW w \in Workers, SaveHypothesis(w)
  PROVE  StepContract
<1> PICK i : i = Identifier(w)
  OBVIOUS
<1> PICK h : h = work[w].hypothesis
  OBVIOUS
<1> PICK s : s = work[w].aggregate.status
  OBVIOUS
<1>1. step[w] = "saveHypothesis" /\ step[w] \in TellSteps /\ Types
  BY DEF SaveHypothesis, TellSteps, FlowInv
<1>2. /\ i \in Identifiers /\ h \in Hypotheses
      /\ IF IsProposed(i) THEN TellsProposal(w, i, h) ELSE TellsDemo(w, i, h)
  BY <1>1, AtWork
<1>3. /\ hypotheses' = [hypotheses EXCEPT ![h] = work[w].aggregate]
      /\ UNCHANGED <<published, decided, failures>> /\ WritesOver(h, s)
  BY DEF SaveHypothesis, bff
<1>4. hypotheses'[h].status = s /\ \A g \in Hypotheses \ {h} : hypotheses'[g] = hypotheses[g]
  BY <1>1, <1>2, <1>3 DEF Types
<1>5. CASE IsProposed(i)
  <2>1. /\ hypotheses[h].status = "absent"
        /\ work[w].aggregate = BacktestResult(FromProposedEvent(i), Passed(i)).aggregate
    BY <1>1, <1>2, <1>5 DEF TellsProposal
  <2>2. s \in {"backtested", "rejected"}
    BY <1>1, <1>2, <1>5, <2>1, BacktestLemma
  <2>3. overwritten' = overwritten
    BY <1>3, <2>1, WritesOverResult DEF Verdicts
  <2>4. SavedStatus' = [SavedStatus EXCEPT ![h] = s] /\ SavedStatus[h] = "absent"
    BY <1>2, <1>4, <2>1, SavedByOne DEF SavedStatus
  <2>5. Contract!Backtest(h)
    BY <1>3, <2>2, <2>3, <2>4 DEF Contract!Backtest
  <2> QED
    BY <1>2, <2>5 DEF StepContract, Contract!Next
<1>6. CASE ~IsProposed(i)
  <2>1. /\ s = Result(i, hypotheses[h].grounds) /\ hypotheses[h].status \in InTrial
        /\ Contested(h) \/ hypotheses[h].status \in {"demo", s}
    BY <1>1, <1>2, <1>6 DEF TellsDemo
  <2>2. s \in InTrial
    BY <2>1, ResultRange
  <2> QED
    BY <1>1, <1>2, <1>3, <1>4, <2>1, <2>2, WriteContract
<1> QED
  BY <1>5, <1>6

LEMMA UpdateContract ==
  ASSUME FlowInv, NEW r \in Requests, UpdateHypothesis(r)
  PROVE  StepContract
<1> PICK h : h = event[r].hypothesis
  OBVIOUS
<1> PICK s : s = StatusAfter(event[r].kind)
  OBVIOUS
<1>1. /\ h \in Hypotheses /\ stage[r] = "write" /\ s \in InTrial
      /\ hypotheses[h].status \in InTrial /\ hypotheses'[h].status = s
      /\ \A g \in Hypotheses \ {h} : hypotheses'[g] = hypotheses[g]
      /\ WritesOver(h, s) /\ UNCHANGED <<published, decided, failures>>
  BY UpdateGrows
<1>2. Contested(h) \/ hypotheses[h].status \in {"demo", s}
  BY <1>1 DEF FlowInv, Asks
<1> QED
  BY <1>1, <1>2, WriteContract DEF FlowInv

LEMMA StartContract ==
  ASSUME FlowInv, NEW h \in Hypotheses, StartDemo(h)
  PROVE  StepContract
<1>1. /\ hypotheses[h].status = "backtested" /\ hypotheses'[h].status = "demo"
      /\ \A g \in Hypotheses \ {h} : hypotheses'[g] = hypotheses[g]
  BY StartDemoGrows
<1>2. UNCHANGED <<published, decided, failures, overwritten>>
  BY DEF StartDemo, bff
<1>3. SavedStatus' = [SavedStatus EXCEPT ![h] = "demo"] /\ SavedStatus[h] = "backtested"
  BY <1>1, SavedByOne DEF SavedStatus
<1>4. Contract!StartDemo(h)
  BY <1>2, <1>3 DEF Contract!StartDemo
<1> QED
  BY <1>4 DEF StepContract, Contract!Next

LEMMA AnnounceContract ==
  ASSUME FlowInv, NEW w \in Workers, Announce(w)
  PROVE  StepContract
<1> PICK i : i = Identifier(w)
  OBVIOUS
<1> PICK h : h = work[w].hypothesis
  OBVIOUS
<1> PICK e : e = Head(work[w].events)
  OBVIOUS
<1>1. step[w] = "announce" /\ step[w] \in TellSteps /\ Types
  BY DEF Announce, TellSteps, FlowInv
<1>2. /\ i \in Identifiers /\ h \in Hypotheses
      /\ IF IsProposed(i) THEN TellsProposal(w, i, h) ELSE TellsDemo(w, i, h)
  BY <1>1, AtWork
<1>3. /\ published' = [published EXCEPT ![h] = @ \cup {e}]
      /\ UNCHANGED <<hypotheses, failures, overwritten, decided>>
  BY DEF Announce, documents, bff
<1>4. UNCHANGED <<SavedStatus, failures, overwritten>> /\ SavedStatus[h] = hypotheses[h].status
  BY <1>2, <1>3 DEF SavedStatus
<1>5. \/ e = "hypothesis.backtested" /\ hypotheses[h].status # "absent"
      \/ e = "hypothesis.promoted" /\ Contract!Stands(h, "live")
      \/ e = "hypothesis.rejected" /\ Contract!Stands(h, "rejected")
  <2>1. CASE IsProposed(i)
    <3>1. /\ hypotheses[h].origin = i
          /\ \/ work[w].events = <<"hypothesis.backtested">>
             \/ work[w].events = <<"hypothesis.backtested", "hypothesis.rejected">>
             \/ work[w].events = <<"hypothesis.rejected">> /\ ~Passed(i)
      BY <1>1, <1>2, <2>1 DEF TellsProposal
    <3>2. e = "hypothesis.backtested" \/ (e = "hypothesis.rejected" /\ ~Passed(i))
      BY <3>1, HeadTail
    <3>3. hypotheses[h].status # "absent"
      BY <1>1, <1>2, <3>1, OriginLemma
    <3>4. ~Passed(i) => Contract!Stands(h, "rejected")
      BY <1>2, <1>4, <3>1, FailedIsRejected DEF Contract!Stands
    <3> QED
      BY <3>2, <3>3, <3>4
  <2>2. CASE ~IsProposed(i)
    <3> PICK s : s = work[w].aggregate.status
      OBVIOUS
    <3>1. /\ s # "demo" /\ h \notin overwritten => hypotheses[h].status = s
          /\ work[w].events = ResultEvents(s) /\ work[w].events # <<>>
      BY <1>1, <1>2, <2>2 DEF TellsDemo
    <3>2. \/ e = "hypothesis.rejected" /\ s = "rejected"
          \/ e = "hypothesis.promoted" /\ s = "live"
      BY <3>1, HeadTail DEF ResultEvents
    <3>3. Contract!Stands(h, s)
      BY <1>4, <3>1, <3>2 DEF Contract!Stands
    <3> QED
      BY <3>2, <3>3
  <2> QED
    BY <2>1, <2>2
<1>6. Contract!Announce(h, e)
  BY <1>3, <1>4, <1>5 DEF Contract!Announce
<1> QED
  BY <1>2, <1>5, <1>6 DEF StepContract, Contract!Next

LEMMA PublishContract ==
  ASSUME FlowInv, NEW r \in Requests, PublishDecision(r)
  PROVE  StepContract
<1> PICK h : h = event[r].hypothesis
  OBVIOUS
<1> PICK e : e = EventAfter(event[r].kind)
  OBVIOUS
<1>1. /\ stage[r] = "publish" /\ decided' = [decided EXCEPT ![h] = @ \cup {e}]
      /\ UNCHANGED <<hypotheses, failures, overwritten, published>>
  BY DEF PublishDecision, documents
<1>2. h \in Hypotheses /\ event[r].kind \in Actions /\ Asks(r)
  BY <1>1, RequestOf DEF FlowInv
<1>3. UNCHANGED <<SavedStatus, failures, overwritten>> /\ SavedStatus[h] = hypotheses[h].status
  BY <1>1, <1>2 DEF SavedStatus
<1>4. /\ e \in {"hypothesis.promoted", "hypothesis.rejected"}
      /\ e = "hypothesis.promoted" => Contract!Stands(h, "live")
      /\ e = "hypothesis.rejected" => Contract!Stands(h, "rejected")
  <2>1. h \notin overwritten =>
          /\ e = "hypothesis.promoted" => hypotheses[h].status = "live"
          /\ e = "hypothesis.rejected" => hypotheses[h].status = "rejected"
    BY <1>1, <1>2 DEF Asks, EventAfter, StatusAfter, Actions
  <2> QED
    BY <1>3, <2>1 DEF Contract!Stands, EventAfter
<1>5. Contract!Announce(h, e)
  BY <1>1, <1>3, <1>4 DEF Contract!Announce
<1> QED
  BY <1>2, <1>4, <1>5 DEF StepContract, Contract!Next

LEMMA RecordFailureContract ==
  ASSUME FlowInv, NEW w \in Workers, RecordFailure(w)
  PROVE  StepContract
<1> PICK i : i = Identifier(w)
  OBVIOUS
<1> PICK h : h = work[w].hypothesis
  OBVIOUS
<1>1. step[w] = "recordFailure" /\ step[w] \in TellSteps
  BY DEF RecordFailure, TellSteps
<1>2. /\ i \in Identifiers /\ h \in Hypotheses
      /\ IF IsProposed(i) THEN TellsProposal(w, i, h) ELSE TellsDemo(w, i, h)
  BY <1>1, AtWork
<1>3. failures' = failures \cup {h} /\ UNCHANGED <<hypotheses, published, decided, overwritten>>
  BY DEF RecordFailure, bff
<1>4. UNCHANGED <<SavedStatus, published, decided, overwritten>>
  BY <1>3 DEF SavedStatus
<1>5. "hypothesis.rejected" \in published[h]
  BY <1>1, <1>2 DEF TellsProposal, TellsDemo
<1>6. Contract!RecordFailure(h)
  BY <1>3, <1>4, <1>5 DEF Contract!RecordFailure
<1> QED
  BY <1>2, <1>6 DEF StepContract, Contract!Next

\* All other steps leave what the contract speaks of alone.
LEMMA SilentContract ==
  ASSUME UNCHANGED <<hypotheses, failures, published, decided, overwritten>>
  PROVE  StepContract
  BY DEF StepContract, contractVars, SavedStatus

LEMMA NextContract ==
  ASSUME FlowInv, [Next]_vars
  PROVE  StepContract
<1>1. CASE \E w \in Workers : StepOf(w)
  <2>1. PICK w \in Workers : StepOf(w)
    BY <1>1
  <2>2. CASE UseKey(w) \/ (\E m \in Messages : Receive(w, m)) \/ Reply(w) \/ Die(w)
    BY <2>2, SilentContract DEF UseKey, Receive, Reply, Die, documents, bff
  <2>3. CASE Propose(w) \/ FindHypothesis(w) \/ RequestFails(w) \/ SaveRun(w)
    BY <2>3, SilentContract DEF Propose, FindHypothesis, RequestFails, SaveRun, documents, bff
  <2>4. CASE SaveHypothesis(w) \/ Announce(w) \/ RecordFailure(w)
    BY <2>4, SaveContract, AnnounceContract, RecordFailureContract
  <2> QED
    BY <2>1, <2>2, <2>3, <2>4 DEF StepOf, Handle, Tell
<1>2. CASE (\E i \in Identifiers : LeaseRunsOut(i)) \/ Subscription \/ UNCHANGED vars
  BY <1>2, SilentContract DEF LeaseRunsOut, Subscription, vars, documents, bff
<1>3. CASE \E h \in Hypotheses : StartDemo(h)
  BY <1>3, StartContract
<1>4. CASE \E r \in Requests : Serve(r)
  <2>1. PICK r \in Requests : Serve(r)
    BY <1>4
  <2>2. CASE FetchHypothesis(r) \/ RequestEnds(r)
    BY <2>2, SilentContract DEF FetchHypothesis, RequestEnds, documents
  <2> QED
    BY <2>1, <2>2, UpdateContract, PublishContract DEF Serve
<1> QED
  BY <1>1, <1>2, <1>3, <1>4 DEF Next, StepOf

LEMMA InitContract == ASSUME Init PROVE Contract!Init
<1>1. SavedStatus = [h \in Hypotheses |-> IF h \in InDemo THEN "demo" ELSE "absent"]
  BY DEF Init, SavedStatus, Absent
<1> QED
  BY <1>1 DEF Init, Contract!Init

---------------------------------------------------------------------------------
(* Every variable of the module has its type.                              *)
THEOREM TypeCorrect == Spec => []TypeOK
  BY AlwaysFlow, FlowInvImplies, PTL

(* Whatever fails and however handlers and requests overlap, hypothesis-   *)
(* lab promotes only by all its rules, and the BFF only without a review   *)
(* pending and with the declaration; both only after the backtest passed.  *)
THEOREM PromotedByTheRulesOnly == Spec => []PromotedByTheRules
  BY AlwaysFlow, FlowInvImplies, PTL

(* Whatever fails and however handlers and requests overlap, no hypothesis *)
(* is told both to be promoted and rejected, by hypothesis-lab or the BFF, *)
(* unless one verdict on it was written over by another.                   *)
THEOREM NoTwoVerdicts == Spec => []OneVerdict
  BY AlwaysFlow, FlowInvImplies, PTL

(* Whatever fails and however handlers and requests overlap, hypothesis-   *)
(* lab and the BFF implement HypothesisContract: a hypothesis moves along  *)
(* the life cycle only; it is taken out of a verdict only when two demos   *)
(* or requests decide on it; and what is told of it was saved, unless that *)
(* was written over.                                                       *)
THEOREM ImplementsContract == Spec => ContractSpec
<1>1. FlowInv /\ [Next]_vars => [Contract!Next]_contractVars
  BY NextContract DEF StepContract
<1> QED
  BY <1>1, InitContract, AlwaysFlow, PTL DEF Spec, ContractSpec, Contract!Spec, contractVars

---------------------------------------------------------------------------------
(* The second invariant: the work under an undisturbed lease.              *)

\* i is the only event that reports a demo of its hypothesis.
OnlyDemo(i) == ~IsProposed(i) /\ DemosOf(event[i].hypothesis) = {i}

LEMMA DemoOf ==
  ASSUME Types, NEW i \in Identifiers, ~IsProposed(i)
  PROVE  event[i].hypothesis \in Hypotheses
  BY PayloadTypes DEF DemoResult

LEMMA UnsavedBack ==
  ASSUME NEW i, keys'[i] = "absent" => keys[i] = "absent",
         \A v \in Workers : step'[v] \in {"reserved", "saveHypothesis"} /\ Identifier(v)' = i =>
           \/ step[v] \in {"reserved", "saveHypothesis"} /\ Identifier(v) = i
           \/ keys[i] = "absent",
         Unsaved(i)'
  PROVE  Unsaved(i)
  BY DEF Unsaved, Owners, Working, Outside, ReserveSteps

(* A step that writes no hypothesis.                                       *)
LEMMA QuietStays ==
  ASSUME FlowInv, NEW i \in Identifiers, Quiet(i), UNCHANGED <<event, hypotheses, writer>>,
         Grows, Unsaved(i)' => Unsaved(i),
         \A v \in Workers : step'[v] = "settle" /\ Identifier(v)' = i /\ OnlyDemo(i) =>
           \/ step[v] = "settle" /\ Identifier(v) = i /\ work'[v] = work[v]
           \/ work'[v].hypothesis = event[i].hypothesis,
         keys'[i] = "processed" /\ OnlyDemo(i) =>
           \/ keys[i] = "processed"
           \/ LET h == event[i].hypothesis IN hypotheses[h].status \in InTrial /\ Told(h)
  PROVE  Quiet(i)'
<1> PICK h : h = event[i].hypothesis
  OBVIOUS
<1>1. IsProposed(i)' = IsProposed(i) /\ OnlyDemo(i)' = OnlyDemo(i) /\ event'[i].hypothesis = h
  BY DEF IsProposed, OnlyDemo, DemosOf
<1>2. ~IsProposed(i) => h \in Hypotheses
  BY DemoOf DEF FlowInv
<1>3. ~IsProposed(i) /\ Told(h) => Told(h)'
  BY <1>2 DEF Told, LabReads, Grows
<1>4. IsProposed(i)' =>
        /\ Unsaved(i)' => \A g \in Hypotheses : hypotheses'[g].origin # i
        /\ \A f, g \in Hypotheses : hypotheses'[f].origin = i /\ hypotheses'[g].origin = i => f = g
  BY <1>1 DEF Quiet
<1>5. ASSUME OnlyDemo(i)
      PROVE  /\ Unsaved(i)' /\ LabReads(h)' => hypotheses'[h].status # "live"
             /\ \A v \in Owners(i)' : step'[v] = "settle" => work'[v].hypothesis = h
             /\ keys'[i] = "processed" => hypotheses'[h].status \in InTrial /\ Told(h)'
  <2>1. /\ Unsaved(i) /\ LabReads(h) => hypotheses[h].status # "live"
        /\ \A v \in Owners(i) : step[v] = "settle" => work[v].hypothesis = h
        /\ keys[i] = "processed" => hypotheses[h].status \in InTrial /\ Told(h)
    BY <1>5 DEF Quiet, OnlyDemo
  <2>2. \A v \in Workers : step[v] = "settle" /\ Identifier(v) = i => v \in Owners(i)
    BY DEF Owners, Working, Outside, ReserveSteps
  <2>3. \A v \in Owners(i)' : v \in Workers /\ Identifier(v)' = i
    BY DEF Owners
  <2>4. \A v \in Owners(i)' : step'[v] = "settle" => work'[v].hypothesis = h
    BY <1>5, <2>1, <2>2, <2>3
  <2>5. keys'[i] = "processed" => hypotheses[h].status \in InTrial /\ Told(h)
    BY <1>5, <2>1
  <2> QED
    BY <1>3, <1>5, <2>1, <2>4, <2>5 DEF OnlyDemo, LabReads
<1> QED
  BY <1>1, <1>4, <1>5 DEF Quiet, OnlyDemo

(* A step of one handler that leaves hypotheses and keys alone.            *)
LEMMA QuietByHandler ==
  ASSUME QuietInv, NEW w \in Workers, NEW s, step'[w] = s,
         UNCHANGED <<keys, event, hypotheses, writer>>, Grows, disturbed \subseteq disturbed',
         \A v \in Workers : v # w => SameHandler(v),
         s \in {"reserved", "saveHypothesis", "settle"} => held'[w] = held[w],
         s \in {"reserved", "saveHypothesis"} => step[w] \in {"reserved", "saveHypothesis"},
         \A i \in Identifiers \ disturbed' : s = "settle" /\ i = Identifier(w) /\ OnlyDemo(i) =>
           work'[w].hypothesis = event[i].hypothesis
  PROVE  \A i \in Identifiers \ disturbed' : Quiet(i)'
<1> SUFFICES ASSUME NEW i \in Identifiers \ disturbed' PROVE Quiet(i)'
  OBVIOUS
<1>1. FlowInv /\ Quiet(i)
  BY DEF QuietInv
<1>2. \A v \in Workers : /\ v # w => step'[v] = step[v] /\ work'[v] = work[v]
                                     /\ Identifier(v)' = Identifier(v)
                         /\ held'[v] = held[v] => Identifier(v)' = Identifier(v)
  BY DEF SameHandler, Identifier
<1>3. Unsaved(i)' => Unsaved(i)
  <2>1. ASSUME NEW v \in Workers, step'[v] \in {"reserved", "saveHypothesis"}, Identifier(v)' = i
        PROVE  step[v] \in {"reserved", "saveHypothesis"} /\ Identifier(v) = i
    BY <1>2, <2>1
  <2> QED
    BY <2>1, UnsavedBack
<1>4. ASSUME NEW v \in Workers, step'[v] = "settle", Identifier(v)' = i, OnlyDemo(i)
      PROVE  \/ step[v] = "settle" /\ Identifier(v) = i /\ work'[v] = work[v]
             \/ work'[v].hypothesis = event[i].hypothesis
  <2>1. CASE v = w
    BY <1>2, <1>4, <2>1
  <2>2. CASE v # w
    BY <1>2, <1>4, <2>2
  <2> QED
    BY <2>1, <2>2
<1> QED
  BY <1>1, <1>3, <1>4, QuietStays

LEMMA QuietPropose ==
  ASSUME QuietInv, NEW w \in Workers, Propose(w)
  PROVE  \A i \in Identifiers \ disturbed' : Quiet(i)'
<1>1. /\ step[w] = "reserved" /\ FlowInv /\ UNCHANGED disturbed
      /\ UNCHANGED <<deliveryVars, keys, event, documents, published, bff>>
  BY DEF Propose, QuietInv, keyVars
<1>2. PICK s \in {"saveHypothesis", "release"} : step' = [step EXCEPT ![w] = s]
  BY DEF Propose, Goto
<1>3. \A u \in Workers : u # w => work'[u] = work[u]
  BY <1>1 DEF Propose, FlowInv, Types
<1>4. UNCHANGED <<held, keys, event, hypotheses, writer>> /\ Grows
  BY <1>1, DocumentsStay DEF deliveryVars
<1>5. step'[w] = s /\ \A v \in Workers : v # w => SameHandler(v)
  BY <1>1, <1>2, <1>3, <1>4 DEF FlowInv, Types, SameHandler
<1> QED
  BY <1>1, <1>4, <1>5, QuietByHandler

\* A handler of an undisturbed event that is about to save has not done so.
LEMMA QuietFindHypothesis ==
  ASSUME QuietInv, NEW w \in Workers, FindHypothesis(w)
  PROVE  \A i \in Identifiers \ disturbed' : Quiet(i)'
<1> PICK i : i = Identifier(w)
  OBVIOUS
<1> PICK h : h = event[i].hypothesis
  OBVIOUS
<1> PICK next : next = IF event[i].addressed THEN AfterFind(hypotheses[h], LabReads(h), event[i])
                       ELSE "release"
  OBVIOUS
<1>1. /\ step[w] = "reserved" /\ FlowInv /\ Done(w, next) /\ ~IsProposed(i)
      /\ UNCHANGED <<deliveryVars, keys, event, documents, published, bff>>
      /\ UNCHANGED <<deliveryVars, keys>>
  BY DEF FindHypothesis, QuietInv
<1>2. /\ next \in {"release", "settle", "saveHypothesis"}
      /\ next = "settle" => hypotheses[h].status = "live" /\ LabReads(h)
  BY DEF AfterFind
<1>3. Working(w) /\ next \notin Outside
  BY <1>1, <1>2 DEF Working, Outside, ReserveSteps
<1>4. disturbed \subseteq disturbed' /\ UNCHANGED held
  BY <1>1, <1>3, DoneWork DEF FlowInv
<1>5. PICK s \in {next, "release"} : step' = [step EXCEPT ![w] = s]
  BY <1>1, <1>3, DoneWork DEF FlowInv
<1>6. \A u \in Workers : u # w => work'[u] = work[u]
  <2>1. \E k : work' = IF next # "saveHypothesis" THEN work ELSE [work EXCEPT ![w] = k]
    BY DEF FindHypothesis
  <2> QED
    BY <1>1, <2>1 DEF FlowInv, Types
<1>7. UNCHANGED <<keys, event, hypotheses, writer>> /\ Grows
  BY <1>1, DocumentsStay
<1>8. step'[w] = s /\ \A v \in Workers : v # w => SameHandler(v)
  BY <1>1, <1>4, <1>5, <1>6 DEF FlowInv, Types, SameHandler
<1>9. ASSUME NEW j \in Identifiers \ disturbed', s = "settle", j = Identifier(w), OnlyDemo(j)
      PROVE  work'[w].hypothesis = event[j].hypothesis
  <2>1. Quiet(j) /\ j = i
    BY <1>4, <1>9 DEF QuietInv
  <2>2. Unsaved(j)
    BY <1>1, <1>3, <1>9 DEF Unsaved, Owners
  <2>3. LabReads(h) => hypotheses[h].status # "live"
    BY <1>9, <2>1, <2>2 DEF Quiet, OnlyDemo
  <2> QED
    BY <1>2, <1>9, <2>3
<1>10. s \in {"saveHypothesis", "settle", "release"}
  BY <1>2
<1> QED
  BY <1>1, <1>4, <1>7, <1>8, <1>9, <1>10, QuietByHandler

LEMMA QuietTell ==
  ASSUME QuietInv, NEW w \in Workers, SaveRun(w) \/ Announce(w) \/ RecordFailure(w),
         Grows, UNCHANGED <<hypotheses, writer>>
  PROVE  \A i \in Identifiers \ disturbed' : Quiet(i)'
<1> PICK i : i = Identifier(w)
  OBVIOUS
<1> PICK h : h = work[w].hypothesis
  OBVIOUS
<1>1. /\ step[w] \in {"saveRun", "announce", "recordFailure"} /\ step[w] \in TellSteps
      /\ FlowInv /\ UNCHANGED <<deliveryVars, keys>> /\ UNCHANGED <<deliveryVars, keys, event>>
      /\ \E next \in {"announce", "recordFailure", "settle"} : Done(w, next)
  BY DEF SaveRun, Announce, RecordFailure, TellSteps, QuietInv, NextEvent, documents
<1>2. /\ work' = work \/ \E rest : work' = [work EXCEPT ![w].events = rest]
  BY DEF SaveRun, Announce, RecordFailure, documents
<1>3. PICK next \in {"announce", "recordFailure", "settle"} : Done(w, next)
  BY <1>1
<1>4. Working(w) /\ next \notin Outside /\ step[w] # "release"
  BY <1>1 DEF Working, Outside, ReserveSteps
<1>5. disturbed \subseteq disturbed' /\ UNCHANGED held
  BY <1>1, <1>3, <1>4, DoneWork DEF FlowInv
<1>6. PICK s \in {next, "release"} : step' = [step EXCEPT ![w] = s]
  BY <1>1, <1>3, <1>4, DoneWork DEF FlowInv
<1>7. i \in Identifiers /\ IF IsProposed(i) THEN TellsProposal(w, i, h) ELSE TellsDemo(w, i, h)
  BY <1>1, AtWork
<1>8. /\ work'[w].hypothesis = h /\ \A u \in Workers : u # w => work'[u] = work[u]
  BY <1>1, <1>2 DEF FlowInv, Types
<1>9. step'[w] = s /\ \A v \in Workers : v # w => SameHandler(v)
  BY <1>1, <1>5, <1>6, <1>8 DEF FlowInv, Types, SameHandler
<1>10. ASSUME NEW j \in Identifiers \ disturbed', j = Identifier(w), OnlyDemo(j)
       PROVE  work'[w].hypothesis = event[j].hypothesis
  BY <1>7, <1>8, <1>10 DEF OnlyDemo, TellsDemo, DemosOf
<1> QED
  BY <1>1, <1>5, <1>9, <1>10, QuietByHandler

LEMMA QuietFails ==
  ASSUME QuietInv, NEW w \in Workers, RequestFails(w)
  PROVE  \A i \in Identifiers \ disturbed' : Quiet(i)'
<1>1. /\ Fail(w) /\ step[w] \notin {"idle", "ok", "error"} /\ FlowInv
      /\ UNCHANGED <<deliveryVars, keys, event, documents, work, published, bff>>
      /\ disturbed \subseteq disturbed'
  BY DEF RequestFails, Writes, QuietInv, Fail, Disturb
<1> PICK s \in {"error", "release"} : step' = [step EXCEPT ![w] = s]
  BY <1>1, FailKey DEF FlowInv
<1>2. UNCHANGED <<held, keys, event, hypotheses, writer>> /\ Grows
  BY <1>1, DocumentsStay DEF deliveryVars
<1>3. step'[w] = s /\ \A v \in Workers : v # w => SameHandler(v)
  BY <1>1, <1>2 DEF FlowInv, Types, SameHandler
<1> QED
  BY <1>1, <1>2, <1>3, QuietByHandler

LEMMA QuietLife ==
  ASSUME QuietInv, NEW w \in Workers, (\E m \in Messages : Receive(w, m)) \/ Reply(w) \/ Die(w)
  PROVE  \A i \in Identifiers \ disturbed' : Quiet(i)'
<1>1. /\ UNCHANGED <<event, documents, published, bff>> /\ UNCHANGED keys /\ FlowInv
      /\ disturbed \subseteq disturbed'
  BY DEF Receive, Reply, Die, ReceiveMessage, Answer, Crash, keyVars, QuietInv, Disturb
<1>2. UNCHANGED <<keys, event, hypotheses, writer>> /\ Grows
  BY <1>1, DocumentsStay
<1>3. work' = work \/ work' = [work EXCEPT ![w] = NoWork]
  BY DEF Receive, Reply, Die, Forget
<1>4. PICK s \in {"create", "error", "idle"}, m \in Messages \cup {NoMessage} :
        step' = [step EXCEPT ![w] = s] /\ held' = [held EXCEPT ![w] = m]
  <2>1. CASE \E m \in Messages : Receive(w, m)
    BY <1>1, <2>1, ReceiveKey DEF Receive, FlowInv
  <2>2. CASE Reply(w) \/ Die(w)
    BY <1>1, <2>2, AnswerKey, CrashKey DEF Reply, Die, FlowInv
  <2> QED
    BY <2>1, <2>2
<1>5. step'[w] = s /\ \A v \in Workers : v # w => SameHandler(v)
  BY <1>1, <1>3, <1>4
  DEF FlowInv, Types, KeyInv, KeyOK, LeasedKeyTypeOK, DeliveryTypeOK, SameHandler
<1> QED
  BY <1>1, <1>2, <1>5, QuietByHandler

\* The key is taken before a result is saved, and processed once it is told.
LEMMA QuietUseKey ==
  ASSUME QuietInv, NEW w \in Workers, UseKey(w)
  PROVE  \A i \in Identifiers \ disturbed' : Quiet(i)'
<1>1. /\ Reserve(w) \/ SettleKey(w) \/ ReleaseKey(w)
      /\ UNCHANGED <<deliveryVars, event, documents, work, published, bff>> /\ FlowInv
      /\ disturbed \subseteq disturbed' /\ step[w] # "idle"
  BY DEF UseKey, QuietInv, Reserve, CreateKey, LookAtKey, TakeKey, SettleKey, ReleaseKey,
         Done, Fail, Disturb
<1> PICK s \in {"reserved", "look", "take", "ok", "error", "release"} :
      /\ step' = [step EXCEPT ![w] = s]
      /\ s = "reserved" => keys[Identifier(w)] = "absent" \/ Identifier(w) \in disturbed'
  BY <1>1, UseKeyResult DEF FlowInv
<1>2. /\ UNCHANGED held
      /\ \A i \in Identifiers :
           /\ \/ keys'[i] = keys[i] \/ keys'[i] \in {"leased", "lapsed"}
              \/ i = Identifier(w) /\ step[w] = "settle"
           /\ keys'[i] = "absent" => keys[i] = "absent"
  BY <1>1, UseKeyResult DEF FlowInv
<1>3. UNCHANGED <<event, hypotheses, writer>> /\ Grows
  BY <1>1, DocumentsStay
<1>4. /\ step'[w] = s /\ work' = work
      /\ \A v \in Workers : Identifier(v)' = Identifier(v) /\ (v # w => step'[v] = step[v])
  BY <1>1, <1>2 DEF FlowInv, Types, Identifier
<1> SUFFICES ASSUME NEW i \in Identifiers \ disturbed' PROVE Quiet(i)'
  OBVIOUS
<1>5. FlowInv /\ Quiet(i)
  BY <1>1 DEF QuietInv
<1>6. Unsaved(i)' => Unsaved(i)
  <2>1. ASSUME NEW v \in Workers, step'[v] \in {"reserved", "saveHypothesis"}, Identifier(v)' = i
        PROVE  \/ step[v] \in {"reserved", "saveHypothesis"} /\ Identifier(v) = i
               \/ keys[i] = "absent"
    BY <1>4, <2>1
  <2> QED
    BY <1>2, <2>1, UnsavedBack
<1>7. \A v \in Workers : step'[v] = "settle" /\ Identifier(v)' = i =>
        step[v] = "settle" /\ Identifier(v) = i /\ work'[v] = work[v]
  BY <1>4
<1>8. ASSUME keys'[i] = "processed", OnlyDemo(i), keys[i] # "processed"
      PROVE  hypotheses[event[i].hypothesis].status \in InTrial /\ Told(event[i].hypothesis)
  <2> PICK h : h = event[i].hypothesis
    OBVIOUS
  <2>1. i = Identifier(w) /\ step[w] = "settle" /\ h \in Hypotheses /\ ~IsProposed(i)
    BY <1>2, <1>5, <1>8, DemoOf DEF FlowInv, OnlyDemo
  <2>2. w \in Owners(i)
    BY <2>1 DEF Owners, Working, Outside, ReserveSteps
  <2>3. work[w].hypothesis = h /\ h # NoHypothesis
    BY <1>5, <1>8, <2>1, <2>2, LabAssumption DEF Quiet, OnlyDemo
  <2>4. TellsDemo(w, i, h)
    BY <1>5, <2>1, <2>3 DEF FlowInv, Knows
  <2>5. ~SeveralDemos(h)
    BY <1>8 DEF SeveralDemos, OnlyDemo
  <2> QED
    BY <2>1, <2>4, <2>5 DEF TellsDemo, Told
<1> QED
  BY <1>3, <1>5, <1>6, <1>7, <1>8, QuietStays

LEMMA QuietEnvironment ==
  ASSUME QuietInv,
         (\E i \in Identifiers : LeaseRunsOut(i)) \/ Subscription \/ UNCHANGED vars
  PROVE  \A i \in Identifiers \ disturbed' : Quiet(i)'
<1>1. UNCHANGED <<event, work, documents, published, bff>> /\ FlowInv
  BY DEF LeaseRunsOut, LeaseExpires, Subscription, vars, QuietInv
<1>2. /\ UNCHANGED <<held, step>> /\ disturbed \subseteq disturbed'
      /\ \A j \in Identifiers : \/ keys'[j] = keys[j]
                                \/ keys[j] = "leased" /\ keys'[j] = "lapsed"
  BY <1>1, EnvironmentKey DEF vars
<1>3. UNCHANGED <<event, hypotheses, writer>> /\ Grows
  BY <1>1, DocumentsStay
<1>4. /\ step' = step /\ work' = work
      /\ \A v \in Workers : Identifier(v)' = Identifier(v)
  BY <1>1, <1>2 DEF Identifier
<1> SUFFICES ASSUME NEW i \in Identifiers \ disturbed' PROVE Quiet(i)'
  OBVIOUS
<1>5. FlowInv /\ Quiet(i)
  BY <1>1, <1>2 DEF QuietInv
<1>6. Unsaved(i)' => Unsaved(i)
  BY <1>2, <1>4, UnsavedBack
<1> QED
  BY <1>2, <1>3, <1>4, <1>5, <1>6, QuietStays

(* A step that saves a hypothesis, seen from an event i.                   *)
LEMMA QuietWrites ==
  ASSUME FlowInv, NEW i \in Identifiers, Quiet(i), UNCHANGED <<event, work, keys>>, Grows,
         UNCHANGED held,
         \A v \in Workers : Identifier(v) = i => step'[v] = step[v],
         \A g \in Hypotheses : hypotheses'[g].origin = i => hypotheses[g].origin = i,
         OnlyDemo(i) => LET g == event[i].hypothesis IN
           \/ hypotheses'[g] = hypotheses[g] /\ writer'[g] = writer[g]
           \/ hypotheses'[g].status # "live" /\ hypotheses[g].status \notin InTrial
           \/ writer'[g] = "bff" /\ {hypotheses[g].status, hypotheses'[g].status} \subseteq InTrial
  PROVE  Quiet(i)'
<1> PICK h : h = event[i].hypothesis
  OBVIOUS
<1>1. IsProposed(i)' = IsProposed(i) /\ OnlyDemo(i)' = OnlyDemo(i) /\ event'[i].hypothesis = h
  BY DEF IsProposed, OnlyDemo, DemosOf
<1>2. \A v \in Workers : Identifier(v)' = Identifier(v)
  BY DEF Identifier
<1>3. Unsaved(i)' => Unsaved(i)
  BY <1>2, UnsavedBack
<1>4. IsProposed(i)' =>
        /\ Unsaved(i)' => \A g \in Hypotheses : hypotheses'[g].origin # i
        /\ \A f, g \in Hypotheses : hypotheses'[f].origin = i /\ hypotheses'[g].origin = i => f = g
  BY <1>1, <1>3 DEF Quiet
<1>5. ASSUME OnlyDemo(i)
      PROVE  /\ Unsaved(i)' /\ LabReads(h)' => hypotheses'[h].status # "live"
             /\ \A v \in Owners(i)' : step'[v] = "settle" => work'[v].hypothesis = h
             /\ keys'[i] = "processed" => hypotheses'[h].status \in InTrial /\ Told(h)'
  <2>1. /\ Unsaved(i) /\ LabReads(h) => hypotheses[h].status # "live"
        /\ \A v \in Owners(i) : step[v] = "settle" => work[v].hypothesis = h
        /\ keys[i] = "processed" => hypotheses[h].status \in InTrial /\ Told(h)
    BY <1>5 DEF Quiet, OnlyDemo
  <2>2. \A v \in Owners(i)' : step'[v] = "settle" => v \in Owners(i) /\ step[v] = "settle"
    BY <1>2 DEF Owners, Working
  <2>3. h \in Hypotheses
    BY <1>5, DemoOf DEF OnlyDemo, FlowInv
  <2>4. CASE hypotheses'[h] = hypotheses[h] /\ writer'[h] = writer[h]
    <3>1. LabReads(h)' = LabReads(h) /\ (Told(h) => Told(h)')
      BY <2>3, <2>4 DEF Told, LabReads, Grows
    <3> QED
      BY <1>3, <1>5, <2>1, <2>2, <2>4, <3>1
  <2>5. CASE hypotheses'[h].status # "live" /\ hypotheses[h].status \notin InTrial
    BY <1>3, <1>5, <2>1, <2>2, <2>5
  <2>6. CASE writer'[h] = "bff" /\ {hypotheses[h].status, hypotheses'[h].status} \subseteq InTrial
    <3>1. ~LabReads(h)' /\ Told(h)'
      BY <2>6 DEF Told, LabReads
    <3> QED
      BY <1>5, <2>1, <2>2, <2>6, <3>1
  <2> QED
    BY <1>5, <2>4, <2>5, <2>6
<1> QED
  BY <1>1, <1>4, <1>5 DEF Quiet, OnlyDemo

LEMMA QuietStartDemo ==
  ASSUME QuietInv, NEW h \in Hypotheses, StartDemo(h)
  PROVE  \A i \in Identifiers \ disturbed' : Quiet(i)'
<1>1. /\ Types /\ FlowInv /\ UNCHANGED <<deliveryVars, step, keyVars, event, work>>
  BY DEF StartDemo, QuietInv, FlowInv
<1>2. UNCHANGED <<event, work, keys>> /\ UNCHANGED held /\ UNCHANGED disturbed /\ step' = step
  BY <1>1 DEF keyVars, deliveryVars
<1>3. /\ hypotheses[h].status = "backtested" /\ Grows
      /\ hypotheses'[h].status = "demo" /\ hypotheses'[h].origin = hypotheses[h].origin
      /\ \A g \in Hypotheses \ {h} : hypotheses'[g] = hypotheses[g] /\ writer'[g] = writer[g]
  BY <1>1, StartDemoGrows
<1> SUFFICES ASSUME NEW i \in Identifiers \ disturbed' PROVE Quiet(i)'
  OBVIOUS
<1>4. Quiet(i)
  BY <1>2 DEF QuietInv
<1>5. OnlyDemo(i) => event[i].hypothesis \in Hypotheses
  BY <1>1, DemoOf DEF OnlyDemo
<1> QED
  BY <1>1, <1>2, <1>3, <1>4, <1>5, QuietWrites DEF InTrial

\* What the BFF sets, hypothesis-lab does not read.
LEMMA QuietServe ==
  ASSUME QuietInv, NEW r \in Requests, Serve(r)
  PROVE  \A i \in Identifiers \ disturbed' : Quiet(i)'
<1>1. /\ FlowInv /\ Types /\ Grows /\ UNCHANGED <<deliveryVars, step, keyVars>>
      /\ UNCHANGED <<event, work, failures, published>>
      /\ \A g \in Hypotheses :
           /\ hypotheses'[g].origin = hypotheses[g].origin
           /\ \/ hypotheses'[g] = hypotheses[g] /\ writer'[g] = writer[g]
              \/ writer'[g] = "bff" /\ {hypotheses[g].status, hypotheses'[g].status} \subseteq InTrial
  BY ServeResult DEF QuietInv, FlowInv
<1>2. UNCHANGED <<event, work, keys>> /\ UNCHANGED held /\ UNCHANGED disturbed /\ step' = step
  BY <1>1 DEF keyVars, deliveryVars
<1> SUFFICES ASSUME NEW i \in Identifiers \ disturbed' PROVE Quiet(i)'
  OBVIOUS
<1>3. Quiet(i)
  BY <1>2 DEF QuietInv
<1>4. OnlyDemo(i) => event[i].hypothesis \in Hypotheses
  BY <1>1, DemoOf DEF OnlyDemo
<1> QED
  BY <1>1, <1>2, <1>3, <1>4, QuietWrites

LEMMA QuietSaveHypothesis ==
  ASSUME QuietInv, KeyInv', NEW w \in Workers, SaveHypothesis(w)
  PROVE  \A i \in Identifiers \ disturbed' : Quiet(i)'
<1> PICK i : i = Identifier(w)
  OBVIOUS
<1> PICK h : h = work[w].hypothesis
  OBVIOUS
<1>1. /\ step[w] = "saveHypothesis" /\ step[w] \in TellSteps /\ FlowInv /\ Types
      /\ Done(w, "saveRun") /\ UNCHANGED <<deliveryVars, keys>>
      /\ UNCHANGED <<deliveryVars, keys, event, failures, work, published, stage, decided>>
  BY DEF SaveHypothesis, TellSteps, QuietInv, FlowInv, bff
<1>2. /\ i \in Identifiers /\ h \in Hypotheses
      /\ IF IsProposed(i) THEN TellsProposal(w, i, h) ELSE TellsDemo(w, i, h)
      /\ work[w] \in WorkType
  BY <1>1, AtWork
<1>3. Saves(w, h)
  BY <1>1 DEF SaveHypothesis, Saves, bff
<1>4. /\ Grows
      /\ IsProposed(i) => hypotheses'[h].origin = i
      /\ ~IsProposed(i) => hypotheses'[h] = work[w].aggregate
  BY <1>1, <1>2, <1>3, SavesProposal, SavesDemo
<1>5. \A g \in Hypotheses \ {h} : hypotheses'[g] = hypotheses[g] /\ writer'[g] = writer[g]
  BY <1>1, <1>3 DEF Saves, Types
<1>6. Working(w) /\ "saveRun" \notin Outside
  BY <1>1 DEF Working, Outside, ReserveSteps
<1>7. disturbed \subseteq disturbed' /\ UNCHANGED held
  BY <1>1, <1>6, DoneWork DEF FlowInv
<1> PICK s \in {"saveRun", "release"} :
      step' = [step EXCEPT ![w] = s] /\ (s = "saveRun" \/ i \in disturbed')
  BY <1>1, <1>6, DoneWork DEF FlowInv
<1>8. /\ step'[w] = s /\ \A v \in Workers : v # w => step'[v] = step[v]
      /\ UNCHANGED <<event, work, keys>>
      /\ \A v \in Workers : Identifier(v)' = Identifier(v)
  BY <1>1, <1>7 DEF Types, Identifier
<1> SUFFICES ASSUME NEW j \in Identifiers \ disturbed' PROVE Quiet(j)'
  OBVIOUS
<1>9. Quiet(j) /\ Exclusive(j) /\ Exclusive(j)'
  BY <1>7, <1>1 DEF QuietInv, FlowInv, KeyInv
<1>10. CASE j = i
  <2>1. w \in Owners(j) /\ w \in Owners(j)'
    BY <1>6, <1>8, <1>10 DEF Owners, Working, Outside, ReserveSteps
  <2>2. s = "saveRun" /\ keys'[j] = "leased" /\ \A v \in Owners(j)' : v = w
    BY <1>9, <1>10, <2>1 DEF Exclusive
  <2>3. ~Unsaved(j)'
    BY <1>8, <2>2 DEF Unsaved
  <2>4. Unsaved(j)
    BY <1>1, <2>1 DEF Unsaved
  <2>5. IsProposed(j)' =>
          \A f, g \in Hypotheses : hypotheses'[f].origin = j /\ hypotheses'[g].origin = j => f = g
    <3>1. IsProposed(j)' => \A g \in Hypotheses : hypotheses[g].origin # j
      BY <1>8, <1>9, <2>4 DEF Quiet, IsProposed
    <3> QED
      BY <1>5, <3>1
  <2>6. \A v \in Owners(j)' : step'[v] # "settle"
    BY <1>8, <2>2
  <2> QED
    BY <2>2, <2>3, <2>5, <2>6 DEF Quiet
<1>11. CASE j # i
  <2>1. \A v \in Workers : Identifier(v) = j => step'[v] = step[v]
    BY <1>8, <1>11
  <2>2. \A g \in Hypotheses : hypotheses'[g].origin = j => hypotheses[g].origin = j
    BY <1>2, <1>4, <1>5, <1>11 DEF TellsDemo
  <2>3. ASSUME OnlyDemo(j), event[j].hypothesis = h
        PROVE  hypotheses'[h].status # "live" /\ hypotheses[h].status \notin InTrial
    <3>1. IsProposed(i)
      BY <1>2, <1>11, <2>3 DEF OnlyDemo, TellsDemo
    <3>2. /\ hypotheses[h].status = "absent"
          /\ hypotheses'[h] = BacktestResult(FromProposedEvent(i), Passed(i)).aggregate
      BY <1>1, <1>2, <1>3, <3>1 DEF TellsProposal, Saves, Types
    <3>3. hypotheses'[h].status \in {"backtested", "rejected"}
      BY <1>1, <1>2, <3>1, <3>2, BacktestLemma
    <3> QED
      BY <3>2, <3>3 DEF InTrial
  <2>4. OnlyDemo(j) => event[j].hypothesis \in Hypotheses
    BY <1>1, DemoOf DEF OnlyDemo
  <2>5. FlowInv
    BY <1>1
  <2> QED
    BY <1>4, <1>5, <1>7, <1>8, <1>9, <2>1, <2>2, <2>3, <2>4, <2>5, QuietWrites
<1> QED
  BY <1>10, <1>11

LEMMA InitQuiet == ASSUME Init PROVE QuietInv
<1>1. FlowInv
  BY InitFlow
<1>2. PICK g \in [InDemo -> Grounds] :
        hypotheses = [h \in Hypotheses |->
          IF h \in InDemo THEN [status |-> "demo", origin |-> NoMessage, grounds |-> g[h]]
          ELSE Absent]
  BY DEF Init
<1>3. \A h \in Hypotheses : hypotheses[h].status # "live" /\ hypotheses[h].origin \notin Identifiers
  BY <1>2, LabAssumption DEF Absent
<1>4. /\ \A i \in Identifiers : keys[i] = "absent"
      /\ \A w \in Workers : step[w] = "idle"
  BY DEF Init, LeasedKeyInit
<1>5. ASSUME NEW i \in Identifiers PROVE Quiet(i)
  <2>1. Owners(i) = {} /\ (~IsProposed(i) => event[i].hypothesis \in Hypotheses)
    BY <1>1, <1>4, DemoOf DEF Owners, Working, Outside, FlowInv
  <2> QED
    BY <1>3, <1>4, <2>1 DEF Quiet
<1> QED
  BY <1>1, <1>5 DEF QuietInv

LEMMA StepQuiet == QuietInv /\ [Next]_vars => QuietInv'
<1> SUFFICES ASSUME QuietInv, [Next]_vars PROVE QuietInv'
  OBVIOUS
<1>1. FlowInv /\ FlowInv' /\ KeyInv'
  BY StepFlow DEF QuietInv, FlowInv
<1>2. CASE \E w \in Workers : StepOf(w)
  <2>1. PICK w \in Workers : StepOf(w)
    BY <1>2
  <2>2. CASE (\E m \in Messages : Receive(w, m)) \/ Reply(w) \/ Die(w)
    BY <1>1, <2>2, QuietLife DEF QuietInv
  <2>3. CASE UseKey(w) \/ RequestFails(w)
    BY <1>1, <2>3, QuietUseKey, QuietFails DEF QuietInv
  <2>4. CASE Propose(w) \/ FindHypothesis(w)
    BY <1>1, <2>4, QuietPropose, QuietFindHypothesis DEF QuietInv
  <2>5. CASE SaveHypothesis(w)
    BY <1>1, <2>5, QuietSaveHypothesis DEF QuietInv
  <2>6. CASE SaveRun(w) \/ Announce(w) \/ RecordFailure(w)
    <3>1. UNCHANGED <<event, hypotheses, writer, overwritten>> /\ failures \subseteq failures'
      BY <2>6 DEF SaveRun, Announce, RecordFailure, documents
    <3>2. \/ published' = published
          \/ \E g, e : published' = [published EXCEPT ![g] = @ \cup {e}]
      BY <2>6 DEF SaveRun, Announce, RecordFailure
    <3>3. \A h \in Hypotheses : published[h] \subseteq published'[h]
      BY <1>1, <3>2 DEF FlowInv, Types
    <3>4. Grows
      <4>1. \A h \in Hypotheses : Kept(h)
        BY <3>1, KeptSame
      <4> QED
        BY <3>1, <3>3, <4>1 DEF Grows
    <3> QED
      BY <1>1, <2>6, <3>1, <3>4, QuietTell DEF QuietInv
  <2> QED
    BY <2>1, <2>2, <2>3, <2>4, <2>5, <2>6 DEF StepOf, Handle, Tell
<1>3. CASE (\E i \in Identifiers : LeaseRunsOut(i)) \/ Subscription \/ UNCHANGED vars
  BY <1>1, <1>3, QuietEnvironment DEF QuietInv
<1>4. CASE \E h \in Hypotheses : StartDemo(h)
  BY <1>1, <1>4, QuietStartDemo DEF QuietInv
<1>5. CASE \E r \in Requests : Serve(r)
  BY <1>1, <1>5, QuietServe DEF QuietInv
<1> QED
  BY <1>2, <1>3, <1>4, <1>5 DEF Next, StepOf

LEMMA AlwaysQuiet == Spec => []QuietInv
  BY InitQuiet, StepQuiet, PTL DEF Spec

LEMMA QuietImplies ==
  ASSUME QuietInv
  PROVE  AckedIsTold /\ OneHypothesisPerProposal
<1>1. FlowInv
  BY DEF QuietInv
<1>2. ASSUME NEW m \in WellFormed, NEW i \in Identifiers, i = IdentifierOf[m], sub[m] = "acked"
      PROVE  IF IsProposed(i) THEN ProposalTold(i)
             ELSE LET h == event[i].hypothesis IN i \notin disturbed /\ DemosOf(h) = {i} => Told(h)
  <2>1. IsProposed(i) => ProposalTold(i)
    BY <1>1, <1>2 DEF FlowInv, ProposalsTold
  <2>2. i \notin disturbed => Quiet(i) /\ keys[i] = "processed"
    BY <1>1, <1>2 DEF QuietInv, FlowInv, KeyInv, Exclusive
  <2> QED
    BY <2>1, <2>2 DEF Quiet
<1>3. AckedIsTold
  BY <1>2, LeasedKeyAssumption DEF AckedIsTold
<1>4. ASSUME NEW i \in Identifiers \ disturbed, NEW g \in Hypotheses, NEW h \in Hypotheses,
             hypotheses[g].origin = i, hypotheses[h].origin = i
      PROVE  g = h
  <2>1. IsProposed(i)
    <3>1. hypotheses[g].status \in Statuses
      BY <1>1, <1>4, OriginLemma DEF FlowInv, Types, Aggregate, Absent
    <3>2. Reasoned(g) /\ g \notin InDemo
      BY <1>1, <1>4, LabAssumption DEF FlowInv, Reasoned
    <3>3. hypotheses[g].status # "draft"
      BY <1>1 DEF FlowInv, Reasoned
    <3> QED
      BY <1>4, <3>1, <3>2, <3>3 DEF Reasoned, Statuses, Backed
  <2> QED
    BY <1>4, <2>1 DEF QuietInv, Quiet
<1> QED
  BY <1>3, <1>4 DEF OneHypothesisPerProposal

(* Whatever fails, a proposal is acknowledged only after its backtest was  *)
(* told; the result of a demo only after the verdict was, while nothing    *)
(* disturbs its handling, it is the only one of its hypothesis and the BFF *)
(* has not set the document since.                                         *)
THEOREM AcknowledgedIsTold == Spec => []AckedIsTold
  BY AlwaysQuiet, QuietImplies, PTL

(* However often a proposal is pushed, it becomes one hypothesis, as long  *)
(* as nothing disturbs its handling.                                       *)
THEOREM NoSecondHypothesis == Spec => []OneHypothesisPerProposal
  BY AlwaysQuiet, QuietImplies, PTL

---------------------------------------------------------------------------------
(* What the history is worth to proposals: as long as no request fails and *)
(* no instance dies, none that is complete is disturbed, however its       *)
(* deliveries overlap and whatever becomes of the demos.                   *)

Calm ==
  Faults \cap {"crash", "readError", "persistLost", "publishLost", "lostAnswer", "overrun"} = {}

Whole(i) == IsProposed(i) /\ event[i].complete

\* The handler w gives up only what is refused, and saves nothing of that.
Sound(w) ==
  /\ step[w] = "release" => ~Whole(Identifier(w))
  /\ step[w] = "saveHypothesis" /\ IsProposed(Identifier(w)) => Whole(Identifier(w))

CalmInv ==
  /\ QuietInv
  /\ \A i \in disturbed : ~Whole(i)
  /\ \A w \in Workers : Sound(w)
  /\ \A h \in Hypotheses : hypotheses[h].origin \in Identifiers => Whole(hypotheses[h].origin)

(* What is left to show of a step: which handler moved, and where to.      *)
LEMMA CalmByStep ==
  ASSUME CalmInv, QuietInv', event' = event,
         \A i \in disturbed' : i \in disturbed \/ ~Whole(i),
         \A v \in Workers : \/ step'[v] \notin {"release", "saveHypothesis"}
                            \/ step'[v] = step[v] /\ held'[v] = held[v]
                            \/ Sound(v)',
         \A h \in Hypotheses : \/ hypotheses'[h].origin = hypotheses[h].origin
                               \/ Whole(hypotheses'[h].origin)
  PROVE  CalmInv'
<1>1. \A i : Whole(i)' = Whole(i) /\ IsProposed(i)' = IsProposed(i)
  BY DEF Whole, IsProposed
<1>2. \A v \in Workers : Sound(v)'
  BY <1>1 DEF CalmInv, Sound, Identifier
<1> QED
  BY <1>1, <1>2 DEF CalmInv

LEMMA CalmResult ==
  ASSUME CalmInv, QuietInv', Calm, NEW w \in Workers, Propose(w) \/ FindHypothesis(w)
  PROVE  CalmInv'
<1> USE DEF CalmInv, QuietInv, FlowInv, Types
<1> PICK i : i = Identifier(w)
  OBVIOUS
<1>1. /\ UNCHANGED <<deliveryVars, event, documents>> /\ disturbed' = disturbed
      /\ \E s : step' = [step EXCEPT ![w] = s]
  BY DEF Propose, FindHypothesis, Done, Goto, Calm, keyVars
<1>2. /\ UNCHANGED <<held, event, hypotheses>>
      /\ Identifier(w)' = i
      /\ \A v \in Workers : v # w => step'[v] = step[v]
  BY <1>1 DEF deliveryVars, documents, Identifier
<1>3. Whole(i)' = Whole(i) /\ IsProposed(i)' = IsProposed(i)
  BY <1>2 DEF Whole, IsProposed
<1>4. step'[w] = "release" => ~Whole(i)
  BY DEF Propose, FindHypothesis, Done, Goto, Calm, Whole
<1>5. step'[w] = "saveHypothesis" /\ IsProposed(i) => Whole(i)
  BY DEF Propose, FindHypothesis, Done, Goto, Calm, Whole
<1>6. Sound(w)'
  BY <1>2, <1>3, <1>4, <1>5 DEF Sound
<1> QED
  BY <1>1, <1>2, <1>6, CalmByStep

LEMMA CalmTell ==
  ASSUME CalmInv, QuietInv', Calm, NEW w \in Workers, Tell(w)
  PROVE  CalmInv'
<1> USE DEF CalmInv, QuietInv, FlowInv, Types
<1> PICK i : i = Identifier(w)
  OBVIOUS
<1>1. PICK next \in {"saveRun", "announce", "recordFailure", "settle"} :
        step' = [step EXCEPT ![w] = next] /\ disturbed' = disturbed
  BY DEF Tell, SaveHypothesis, SaveRun, Announce, RecordFailure, NextEvent, Done, Goto, Calm
<1>2. UNCHANGED <<held, event>>
  BY DEF Tell, SaveHypothesis, SaveRun, Announce, RecordFailure, deliveryVars
<1>3. ASSUME NEW h \in Hypotheses
      PROVE  \/ hypotheses'[h].origin = hypotheses[h].origin
             \/ Whole(hypotheses'[h].origin)
  <2>1. CASE SaveHypothesis(w)
    <3> PICK k : k = work[w].hypothesis
      OBVIOUS
    <3>1. /\ step[w] = "saveHypothesis" /\ step[w] \in TellSteps
          /\ UNCHANGED <<deliveryVars, keys, event, failures, work, published, stage, decided>>
      BY <2>1 DEF SaveHypothesis, TellSteps, bff
    <3>2. /\ i \in Identifiers /\ k \in Hypotheses /\ work[w] \in WorkType
          /\ IF IsProposed(i) THEN TellsProposal(w, i, k) ELSE TellsDemo(w, i, k)
      BY <3>1, AtWork
    <3>3. Saves(w, k)
      BY <2>1, <3>1 DEF SaveHypothesis, Saves, bff
    <3>4. /\ IsProposed(i) => hypotheses'[k].origin = i
          /\ ~IsProposed(i) => hypotheses'[k] = work[w].aggregate
      BY <3>1, <3>2, <3>3, SavesProposal, SavesDemo
    <3>5. IsProposed(i) => Whole(i)
      BY <3>1 DEF Sound
    <3>6. h # k => hypotheses'[h] = hypotheses[h]
      BY <3>3 DEF Saves
    <3> QED
      BY <3>2, <3>4, <3>5, <3>6 DEF TellsDemo
  <2>2. CASE SaveRun(w) \/ Announce(w) \/ RecordFailure(w)
    BY <2>2 DEF SaveRun, Announce, RecordFailure, documents
  <2> QED
    BY <2>1, <2>2 DEF Tell
<1> QED
  BY <1>1, <1>2, <1>3, CalmByStep

LEMMA CalmLife ==
  ASSUME CalmInv, QuietInv', Calm, NEW w \in Workers,
         UseKey(w) \/ Reply(w) \/ \E m \in Messages : Receive(w, m)
  PROVE  CalmInv'
<1> USE DEF CalmInv, QuietInv, FlowInv, Types
<1>1. UNCHANGED <<event, hypotheses>>
  BY DEF UseKey, Reply, Receive, documents
<1>2. CASE UseKey(w)
  <2>1. /\ Reserve(w) \/ SettleKey(w) \/ ReleaseKey(w)
        /\ UNCHANGED deliveryVars
    BY <1>2 DEF UseKey
  <2>2. UNCHANGED held
    BY <1>2 DEF UseKey, deliveryVars
  <2>3. PICK s \in {"reserved", "look", "take", "ok", "error"} : step' = [step EXCEPT ![w] = s]
    BY <1>2
    DEF UseKey, Reserve, CreateKey, LookAtKey, TakeKey, SettleKey, ReleaseKey, AfterLook, Done,
        Goto, Calm
  <2>4. \A j \in disturbed' : j \in disturbed \/ ~Whole(j)
    BY <1>2
    DEF UseKey, Reserve, CreateKey, LookAtKey, TakeKey, SettleKey, ReleaseKey, Done, Goto, Calm,
        Disturb, Sound
  <2> QED
    BY <1>1, <2>2, <2>3, <2>4, CalmByStep
<1>3. CASE Reply(w)
  <2>1. Answer(w) /\ UNCHANGED disturbed
    BY <1>3 DEF Reply, Answer, keyVars
  <2>2. /\ step' = [step EXCEPT ![w] = "idle"] /\ held' = [held EXCEPT ![w] = NoMessage]
    BY <2>1, AnswerKey
  <2>3. \A v \in Workers : step'[v] = "idle" \/ (step'[v] = step[v] /\ held'[v] = held[v])
    BY <2>2 DEF KeyInv, KeyOK, LeasedKeyTypeOK, DeliveryTypeOK
  <2> QED
    BY <1>1, <2>1, <2>3, CalmByStep
<1>4. CASE \E m \in Messages : Receive(w, m)
  <2>1. PICK m \in Messages : Receive(w, m)
    BY <1>4
  <2>2. ReceiveMessage(w, m) /\ UNCHANGED disturbed
    BY <2>1 DEF Receive, ReceiveMessage, keyVars
  <2>3. PICK s \in {"create", "error"} : step' = [step EXCEPT ![w] = s]
    BY <2>2, ReceiveKey
  <2>4. held' = [held EXCEPT ![w] = m]
    BY <2>2, ReceiveKey
  <2>5. \A v \in Workers : step'[v] = s \/ (step'[v] = step[v] /\ held'[v] = held[v])
    BY <2>3, <2>4 DEF KeyInv, KeyOK, LeasedKeyTypeOK, DeliveryTypeOK
  <2> QED
    BY <1>1, <2>2, <2>5, CalmByStep
<1> QED
  BY <1>2, <1>3, <1>4

LEMMA CalmEnvironment ==
  ASSUME CalmInv, QuietInv', Calm,
         \/ \E i \in Identifiers : LeaseRunsOut(i)
         \/ \E h \in Hypotheses : StartDemo(h)
         \/ \E r \in Requests : Serve(r)
         \/ Subscription \/ UNCHANGED vars
  PROVE  CalmInv'
<1> USE DEF CalmInv, QuietInv, FlowInv, KeyInv, KeyOK, LeasedKeyTypeOK, Types
<1>1. CASE \E i \in Identifiers : LeaseRunsOut(i)
  <2>1. UNCHANGED <<step, held, disturbed, event, hypotheses>>
    BY <1>1 DEF LeaseRunsOut, LeaseExpires, Calm, deliveryVars, documents
  <2> QED
    BY <2>1, CalmByStep
<1>2. CASE \E h \in Hypotheses : StartDemo(h)
  <2>1. PICK h \in Hypotheses : StartDemo(h)
    BY <1>2
  <2>2. /\ hypotheses'[h].origin = hypotheses[h].origin
        /\ \A g \in Hypotheses \ {h} : hypotheses'[g] = hypotheses[g]
    BY <2>1, StartDemoGrows
  <2>3. UNCHANGED <<step, held, disturbed, event>>
    BY <2>1 DEF StartDemo, deliveryVars, keyVars
  <2> QED
    BY <2>2, <2>3, CalmByStep
<1>3. CASE Subscription
  <2>1. UNCHANGED <<step, held, disturbed, event, hypotheses>>
    BY <1>3, SubscriptionType DEF Subscription, keyVars, documents
  <2> QED
    BY <2>1, CalmByStep
<1>4. CASE UNCHANGED vars
  <2>1. UNCHANGED <<step, held, disturbed, event, hypotheses>>
    BY <1>4 DEF vars, keyVars, deliveryVars, documents
  <2> QED
    BY <2>1, CalmByStep
<1>5. CASE \E r \in Requests : Serve(r)
  <2>1. PICK r \in Requests : Serve(r)
    BY <1>5
  <2>2. /\ UNCHANGED <<deliveryVars, step, keyVars>> /\ UNCHANGED <<event, work, failures, published>>
        /\ \A g \in Hypotheses : hypotheses'[g].origin = hypotheses[g].origin
    BY <2>1, ServeResult
  <2>3. UNCHANGED <<step, held, disturbed, event>>
    BY <2>2 DEF deliveryVars, keyVars
  <2> QED
    BY <2>2, <2>3, CalmByStep
<1> QED
  BY <1>1, <1>2, <1>3, <1>4, <1>5

(* However often a proposal is pushed, by however many messages and        *)
(* however far their deliveries overlap, it becomes one hypothesis when no *)
(* request fails (RULE-HL-006).                                            *)
THEOREM OneHypothesisWhenCalm ==
  ASSUME Calm
  PROVE  Spec => [](\A i \in Identifiers : \A g, h \in Hypotheses :
                      hypotheses[g].origin = i /\ hypotheses[h].origin = i => g = h)
<1>1. Init => CalmInv
  <2> SUFFICES ASSUME Init PROVE CalmInv
    OBVIOUS
  <2>1. \A h \in Hypotheses : hypotheses[h].origin = NoMessage
    BY DEF Init, Absent
  <2>2. disturbed = {} /\ \A w \in Workers : step[w] = "idle"
    BY DEF Init, LeasedKeyInit
  <2> QED
    BY <2>1, <2>2, InitQuiet, LabAssumption DEF CalmInv, Sound
<1>2. CalmInv /\ [Next]_vars => CalmInv'
  <2> SUFFICES ASSUME CalmInv, [Next]_vars PROVE CalmInv'
    OBVIOUS
  <2>1. QuietInv'
    BY StepQuiet DEF CalmInv
  <2>2. \A w \in Workers : ~RequestFails(w) /\ ~Die(w)
    BY DEF Calm, RequestFails, Die, Crash
  <2>3. CASE \E w \in Workers : StepOf(w)
    BY <2>1, <2>2, <2>3, CalmResult, CalmTell, CalmLife DEF StepOf, Handle
  <2>4. CASE \/ \E i \in Identifiers : LeaseRunsOut(i)
             \/ \E h \in Hypotheses : StartDemo(h)
             \/ \E r \in Requests : Serve(r)
             \/ Subscription \/ UNCHANGED vars
    BY <2>1, <2>4, CalmEnvironment
  <2> QED
    BY <2>3, <2>4 DEF Next, StepOf
<1>3. CalmInv => \A i \in Identifiers : \A g, h \in Hypotheses :
                   hypotheses[g].origin = i /\ hypotheses[h].origin = i => g = h
  BY QuietImplies DEF CalmInv, OneHypothesisPerProposal
<1> QED
  BY <1>1, <1>2, <1>3, PTL DEF Spec

=================================================================================
