------------------------ MODULE FeatureGenerationProofs -------------------------
(***************************************************************************)
(* Theorems about FeatureGeneration, for any number of messages, events,   *)
(* handlers and deliveries, and any days the insights may be of.           *)
(***************************************************************************)
EXTENDS FeatureGeneration, LeasedKeyProofs

---------------------------------------------------------------------------------
(* The outcome of an event is a function of what its message says.         *)

Verdict(p) ==
  IF ~p.hasPath THEN Failed("REQUEST_VALIDATION_FAILED")
  ELSE IF ~p.healthy THEN Failed("DEPENDENCY_UNAVAILABLE")
  ELSE IF ~p.valid THEN Failed("REQUEST_VALIDATION_FAILED") ELSE Generated

(* No insight of a later day is ever read, so none can spoil the outcome.  *)
LEMMA OutcomeIsVerdict ==
  ASSUME NEW p \in Payloads, NEW days \in SUBSET InsightDays
  PROVE  Outcome(p, days) = Verdict(p)
<1>1. Consistent(Query(days))
  BY DEF Consistent, Query
<1> QED
  BY <1>1 DEF Outcome, Verdict

LEMMA VerdictResult ==
  ASSUME NEW p \in Payloads
  PROVE  /\ Verdict(p) \in Generations /\ Verdict(p) # NoGeneration
         /\ Verdict(p) = Generated <=> p.hasPath /\ p.healthy /\ p.valid
         /\ Verdict(p).status = IF Verdict(p) = Generated THEN "GENERATED" ELSE "FAILED"
  BY DEF Verdict, Generations, Generated, Failed, NoGeneration, ReasonCodes

LEMMA DueResult ==
  ASSUME NEW i \in Identifiers, payload[i] \in Payloads
  PROVE  /\ Due(i) \in Events /\ Undue(i) \in Events /\ Due(i) # Undue(i)
         /\ EventOf(Verdict(payload[i])) = Due(i)
         /\ Due(i) = "features.generated" <=> Verdict(payload[i]) = Generated
  BY VerdictResult DEF Due, Undue, Events, EventOf, Healthy

---------------------------------------------------------------------------------
(* The first inductive invariant: what a handler knows at each step, and   *)
(* what the documents say of one another.                                  *)

\* The outcome of i was published.
Told(i) == published[i][Due(i)] > 0

Types ==
  /\ step \in [Workers -> Outside \cup WorkSteps]
  /\ payload \in [Identifiers -> Payloads]
  /\ found \in [Workers -> Found]
  /\ generations \in [Identifiers -> Generations]
  /\ artifacts \subseteq Identifiers
  /\ dispatches \in [Identifiers -> Dispatches]
  /\ outbox \in [Identifiers -> Outboxes]
  /\ published \in [Identifiers -> [Events -> Nat]]

\* The steps of the work, but for the release that ends it when it failed.
Active == WorkSteps \ {"release"}

AfterOutcome == {"writeArtifact", "saveGeneration"}

AfterGeneration ==
  {"saveDispatch", "saveOutbox", "publish", "markDispatch", "markOutbox", "adoptOutbox",
   "adoptDispatch", "settle"}

AfterPublication == {"markDispatch", "markOutbox", "adoptOutbox", "adoptDispatch", "settle"}

\* What the handler w, at work on i, has found is true.
Holds(w, i) ==
  /\ found[w].generation \in {NoGeneration, Verdict(payload[i])}
  /\ step[w] \in AfterOutcome \cup AfterGeneration => found[w].generation # NoGeneration
  /\ IF step[w] = "writeArtifact" THEN found[w].generation = Generated
     ELSE found[w].generation = Generated => i \in artifacts
  /\ found[w].generation # NoGeneration /\ step[w] \notin AfterOutcome =>
       generations[i] = Verdict(payload[i])
  /\ found[w].outbox # NoOutbox => found[w].outbox.event = Due(i)
  /\ step[w] = "publish" => found[w].outbox # NoOutbox
  /\ found[w].dispatch = "PUBLISHED" \/ found[w].outbox.status = "PUBLISHED" => Told(i)

Knows(w) ==
  /\ step[w] \in {"idle"} \cup ReserveSteps => found[w] = NothingFound
  /\ step[w] \in Active => Holds(w, Identifier(w))
  /\ step[w] \in AfterPublication \cup {"ok"} => Told(Identifier(w))

\* The documents of i and the publications about it agree.
Agrees(i) ==
  /\ generations[i] \in {NoGeneration, Verdict(payload[i])}
  /\ generations[i] = Generated => i \in artifacts
  /\ outbox[i] # NoOutbox => outbox[i].event = Due(i)
  /\ dispatches[i] = "PUBLISHED" \/ outbox[i].status = "PUBLISHED" => Told(i)
  /\ keys[i] = "processed" => Told(i)
  /\ published[i][Undue(i)] = 0
  /\ Told(i) => generations[i] = Verdict(payload[i])

AckedIsTold == \A m \in WellFormed : sub[m] = "acked" => Told(IdentifierOf[m])

FlowInv ==
  /\ KeyInv /\ Types /\ AckedIsTold
  /\ \A w \in Workers : Knows(w)
  /\ \A i \in Identifiers : Agrees(i)

LEMMA FlowInvImplies ==
  ASSUME FlowInv
  PROVE  TypeOK /\ AckedIsPublished /\ NeverMarkedUnpublished
<1>1. TypeOK
  BY DEF FlowInv, KeyInv, KeyOK, Types, TypeOK
<1>2. AckedIsPublished
  BY DEF FlowInv, AckedIsTold, Told, AckedIsPublished
<1>3. NeverMarkedUnpublished
  BY DEF FlowInv, Agrees, Told, NeverMarkedUnpublished
<1> QED
  BY <1>1, <1>2, <1>3

---------------------------------------------------------------------------------
(* A step of one handler leaves what the others know true.                 *)

DocumentTypes ==
  /\ payload \in [Identifiers -> Payloads]
  /\ generations \in [Identifiers -> Generations]
  /\ artifacts \subseteq Identifiers
  /\ dispatches \in [Identifiers -> Dispatches]
  /\ outbox \in [Identifiers -> Outboxes]
  /\ published \in [Identifiers -> [Events -> Nat]]

SameHandler(v) == step'[v] = step[v] /\ held'[v] = held[v] /\ found'[v] = found[v]

\* What was published, stored or decided stays.
Grows ==
  /\ payload' = payload
  /\ artifacts \subseteq artifacts'
  /\ \A i \in Identifiers :
       /\ Told(i) => Told(i)'
       /\ generations[i] = Verdict(payload[i]) => generations'[i] = Verdict(payload[i])

LEMMA FoundBy ==
  ASSUME FlowInv, NEW w \in Workers, step[w] \notin {"idle", "error"},
         NEW i, i = Identifier(w)
  PROVE  /\ i \in Identifiers /\ held[w] \in Messages /\ held[w] \in WellFormed
         /\ found[w] \in Found /\ payload[i] \in Payloads
         /\ Agrees(i) /\ Knows(w)
  BY EventOfHandler DEF FlowInv, KeyInv, Types

LEMMA KnowsStable ==
  ASSUME FlowInv, NEW v \in Workers, SameHandler(v), Grows
  PROVE  Knows(v)'
<1>1. step[v] \in Active \cup AfterPublication \cup {"ok"} => Identifier(v) \in Identifiers
  BY FoundBy DEF Active, WorkSteps, AfterPublication
<1>2. Identifier(v)' = Identifier(v) /\ UNCHANGED payload
  BY DEF SameHandler, Identifier, Grows
<1>3. \A i \in Identifiers : Due(i)' = Due(i)
  BY <1>2 DEF Due, Healthy
<1>4. ASSUME NEW i \in Identifiers, Holds(v, i) PROVE Holds(v, i)'
  BY <1>2, <1>3, <1>4 DEF Holds, SameHandler, Grows
<1> QED
  BY <1>1, <1>2, <1>4 DEF FlowInv, Knows, SameHandler, Grows

LEMMA FlowByHandler ==
  ASSUME FlowInv, KeyInv', Types', NEW w \in Workers, Grows, Knows(w)',
         \A v \in Workers : v # w => SameHandler(v),
         \A i \in Identifiers : Agrees(i)',
         \A m \in WellFormed : sub'[m] = "acked" => sub[m] = "acked" \/ Told(IdentifierOf[m])
  PROVE  FlowInv'
<1>1. \A v \in Workers : Knows(v)'
  BY KnowsStable
<1>2. AckedIsTold'
  <2> SUFFICES ASSUME NEW m \in WellFormed, sub'[m] = "acked"
               PROVE  Told(IdentifierOf[m])'
    BY DEF AckedIsTold
  <2>1. PICK i \in Identifiers : i = IdentifierOf[m]
    BY LeasedKeyAssumption
  <2>2. Told(i)
    BY <2>1 DEF FlowInv, AckedIsTold
  <2> QED
    BY <2>1, <2>2 DEF Grows
<1> QED
  BY <1>1, <1>2 DEF FlowInv

(* Steps that touch no document but the key.                               *)
LEMMA DocumentsStay ==
  ASSUME FlowInv, UNCHANGED <<payload, documents, published>>,
         \A i \in Identifiers : keys'[i] = "processed" => Told(i)
  PROVE  Grows /\ DocumentTypes' /\ \A i \in Identifiers : Agrees(i)'
<1>1. UNCHANGED <<payload, generations, artifacts, dispatches, outbox, published>>
  BY DEF documents
<1>2. \A i \in Identifiers : Due(i)' = Due(i) /\ Undue(i)' = Undue(i)
  BY <1>1 DEF Due, Undue, Healthy
<1>3. \A i \in Identifiers : Told(i)' <=> Told(i)
  BY <1>1, <1>2 DEF Told
<1> QED
  BY <1>1, <1>2, <1>3 DEF FlowInv, Types, DocumentTypes, Grows, Agrees

(* A request of the work: what is left to show of it.                      *)
LEMMA WorkFlow ==
  ASSUME FlowInv, NEW w \in Workers, step[w] \in Active, NEW i, i = Identifier(w),
         NEW next \in Active \cup {"release"}, Done(w, next), UNCHANGED <<deliveryVars, keys>>,
         NEW f \in Found, found' = [found EXCEPT ![w] = f],
         DocumentTypes', Grows, \A j \in Identifiers : Agrees(j)',
         step'[w] = next /\ next \in Active => Holds(w, i)' /\ (next \in AfterPublication => Told(i)')
  PROVE  FlowInv'
<1>1. Working(w) /\ step[w] # "release" /\ next \notin Outside
  BY DEF Active, WorkSteps, Working, Outside, ReserveSteps
<1> PICK s \in {next, "release"} : step' = [step EXCEPT ![w] = s]
  BY <1>1, DoneWork DEF FlowInv
<1>2. KeyInv' /\ UNCHANGED held /\ UNCHANGED sub
  BY <1>1, DoneWork DEF FlowInv, deliveryVars
<1>3. /\ step'[w] = s /\ found'[w] = f /\ i = Identifier(w)'
      /\ \A v \in Workers : v # w => SameHandler(v)
  BY <1>2 DEF FlowInv, Types, SameHandler, Identifier
<1>4. Types'
  BY DEF FlowInv, Types, DocumentTypes, Active, WorkSteps
<1>5. Knows(w)'
  BY <1>3 DEF Knows, Active, WorkSteps, AfterPublication, ReserveSteps
<1> QED
  BY <1>2, <1>3, <1>4, <1>5, FlowByHandler

---------------------------------------------------------------------------------
(* The three reads, and what they lead to.                                 *)

\* What the handler w, at one of its work steps, has found about i.
LEMMA AtWork ==
  ASSUME FlowInv, NEW w \in Workers, step[w] \in Active, NEW i, i = Identifier(w)
  PROVE  /\ i \in Identifiers /\ found[w] \in Found /\ payload[i] \in Payloads
         /\ Agrees(i) /\ Holds(w, i)
         /\ step[w] \in AfterPublication => Told(i)
<1>1. step[w] \notin {"idle", "error"}
  BY DEF Active, WorkSteps
<1> QED
  BY <1>1, FoundBy DEF Knows

LEMMA FoundFields ==
  ASSUME NEW f \in Found
  PROVE  /\ f.generation \in Generations /\ f.dispatch \in Dispatches /\ f.outbox \in Outboxes
         /\ f.dispatch \in {"NONE", "PENDING", "PUBLISHED"}
         /\ f.outbox.status \in {"NONE", "PENDING", "PUBLISHED"}
         /\ f.outbox.status = "NONE" <=> f.outbox = NoOutbox
         /\ f.outbox # NoOutbox => f.outbox.event \in Events
  BY DEF Found, Dispatches, Outboxes, NoOutbox

\* What a handler that goes on with f will know of i.
Warranted(f, i) ==
  /\ f.generation # NoGeneration /\ f.generation = Verdict(payload[i])
  /\ f.generation = Generated => i \in artifacts
  /\ generations[i] = Verdict(payload[i])
  /\ f.outbox # NoOutbox => f.outbox.event = Due(i)
  /\ f.dispatch = "PUBLISHED" \/ f.outbox.status = "PUBLISHED" => Told(i)

(* The next step of a handler that has found the generation.               *)
LEMMA NextWriteResult ==
  ASSUME NEW f \in Found
  PROVE  /\ NextWrite(f) \in Active
         /\ NextWrite(f) \in AfterGeneration
         /\ NextWrite(f) = "publish" => f.outbox # NoOutbox
         /\ NextWrite(f) \in AfterPublication =>
              f.dispatch = "PUBLISHED" \/ f.outbox.status = "PUBLISHED"
         /\ NextWrite(f) # "writeArtifact" /\ NextWrite(f) # "saveGeneration"
  BY FoundFields DEF NextWrite, Repair, Active, WorkSteps, AfterGeneration, AfterPublication

LEMMA RepairResult ==
  ASSUME NEW f \in Found, f.outbox # NoOutbox
  PROVE  /\ Repair(f) \in {"publish", "adoptDispatch", "adoptOutbox", "settle"}
         /\ Repair(f) # "publish" => f.dispatch = "PUBLISHED" \/ f.outbox.status = "PUBLISHED"
  BY FoundFields DEF Repair

LEMMA FindGenerationFlow ==
  ASSUME FlowInv, NEW w \in Workers, FindGeneration(w)
  PROVE  FlowInv'
<1> PICK i : i = Identifier(w)
  OBVIOUS
<1> PICK f \in Found : f = [found[w] EXCEPT !.generation = generations[i]]
  BY AtWork DEF FindGeneration, Active, WorkSteps, Found, FlowInv, Types
<1>1. /\ step[w] = "reserved" /\ found' = [found EXCEPT ![w] = f]
      /\ Done(w, "findDispatch")
      /\ UNCHANGED <<deliveryVars, keys, payload, documents, published>>
  BY DEF FindGeneration
<1>2. /\ i \in Identifiers /\ Agrees(i) /\ Holds(w, i) /\ found[w] \in Found
      /\ payload[i] \in Payloads
  BY <1>1, AtWork DEF Active, WorkSteps
<1>3. f.generation = generations[i] /\ f.outbox = found[w].outbox /\ f.dispatch = found[w].dispatch
  BY <1>2 DEF Found
<1>4. Grows /\ DocumentTypes' /\ \A j \in Identifiers : Agrees(j)'
  BY <1>1, DocumentsStay DEF FlowInv, Agrees
<1>5. UNCHANGED <<payload, generations, artifacts>> /\ found'[w] = f
  BY <1>1 DEF documents, FlowInv, Types
<1>6. Due(i)' = Due(i)
  BY <1>5 DEF Due, Healthy
<1>7. step[w] \in Active /\ "findDispatch" \in Active \ AfterPublication
  BY <1>1 DEF Active, WorkSteps, AfterPublication
<1>8. step'[w] = "findDispatch" => Holds(w, i)'
  BY <1>2, <1>3, <1>4, <1>5, <1>6
  DEF Holds, Agrees, Grows, AfterOutcome, AfterGeneration
<1> QED
  BY <1>1, <1>4, <1>7, <1>8, WorkFlow

LEMMA FindDispatchFlow ==
  ASSUME FlowInv, NEW w \in Workers, FindDispatch(w)
  PROVE  FlowInv'
<1> PICK i : i = Identifier(w)
  OBVIOUS
<1> PICK f \in Found : f = [found[w] EXCEPT !.dispatch = dispatches[i]]
  BY AtWork DEF FindDispatch, Active, WorkSteps, Found, FlowInv, Types
<1>1. /\ step[w] = "findDispatch" /\ found' = [found EXCEPT ![w] = f]
      /\ Done(w, "findOutbox")
      /\ UNCHANGED <<deliveryVars, keys, payload, documents, published>>
  BY DEF FindDispatch
<1>2. /\ i \in Identifiers /\ Agrees(i) /\ Holds(w, i) /\ found[w] \in Found
      /\ payload[i] \in Payloads
  BY <1>1, AtWork DEF Active, WorkSteps
<1>3. f.generation = found[w].generation /\ f.outbox = found[w].outbox /\ f.dispatch = dispatches[i]
  BY <1>2 DEF Found
<1>4. Grows /\ DocumentTypes' /\ \A j \in Identifiers : Agrees(j)'
  BY <1>1, DocumentsStay DEF FlowInv, Agrees
<1>5. UNCHANGED <<payload, generations, artifacts>> /\ found'[w] = f
  BY <1>1 DEF documents, FlowInv, Types
<1>6. Due(i)' = Due(i)
  BY <1>5 DEF Due, Healthy
<1>7. step[w] \in Active /\ "findOutbox" \in Active \ AfterPublication
  BY <1>1 DEF Active, WorkSteps, AfterPublication
<1>8. step'[w] = "findOutbox" => Holds(w, i)'
  BY <1>1, <1>2, <1>3, <1>4, <1>5, <1>6
  DEF Holds, Agrees, Grows, AfterOutcome, AfterGeneration
<1> QED
  BY <1>1, <1>4, <1>7, <1>8, WorkFlow

(* What is warranted before a step is known after it.                      *)
LEMMA WarrantedHolds ==
  ASSUME NEW w \in Workers, NEW i \in Identifiers, NEW f \in Found, Warranted(f, i), Grows,
         found'[w] = f, step'[w] \in AfterGeneration,
         step'[w] = "publish" => f.outbox # NoOutbox
  PROVE  Holds(w, i)'
<1>1. Due(i)' = Due(i)
  BY DEF Due, Healthy, Grows
<1> QED
  BY <1>1 DEF Holds, Warranted, Grows, AfterGeneration, AfterOutcome

LEMMA FindOutboxFlow ==
  ASSUME FlowInv, NEW w \in Workers, FindOutbox(w)
  PROVE  FlowInv'
<1> PICK i : i = Identifier(w)
  OBVIOUS
<1>1. step[w] = "findOutbox" /\ step[w] \in Active
  BY DEF FindOutbox, Active, WorkSteps
<1>2. /\ i \in Identifiers /\ Agrees(i) /\ Holds(w, i) /\ found[w] \in Found
      /\ payload[i] \in Payloads
  BY <1>1, AtWork
<1> PICK f \in Found : f = [found[w] EXCEPT !.outbox = outbox[i]]
  BY <1>2 DEF Found, FlowInv, Types
<1>3. f.generation = found[w].generation /\ f.outbox = outbox[i] /\ f.dispatch = found[w].dispatch
  BY <1>2 DEF Found
<1> PICK next :
      next = IF f.generation # NoGeneration THEN NextWrite(f)
             ELSE IF f.dispatch = "NONE" /\ f.outbox = NoOutbox THEN "collect" ELSE "release"
  OBVIOUS
<1>4. /\ found' = [found EXCEPT ![w] = f] /\ Done(w, next)
      /\ UNCHANGED <<deliveryVars, keys, payload, documents, published>>
  BY DEF FindOutbox
<1>5. Grows /\ DocumentTypes' /\ \A j \in Identifiers : Agrees(j)'
  BY <1>4, DocumentsStay DEF FlowInv, Agrees
<1>6. found'[w] = f /\ UNCHANGED <<payload, generations, artifacts>>
  BY <1>4 DEF documents, FlowInv, Types
<1>7. Warranted(f, i) \/ f.generation = NoGeneration
  BY <1>1, <1>2, <1>3 DEF Warranted, Holds, Agrees, AfterOutcome
<1>8. CASE f.generation # NoGeneration
  <2>1. /\ next \in Active /\ next \in AfterGeneration
        /\ next = "publish" => f.outbox # NoOutbox
        /\ next \in AfterPublication => f.dispatch = "PUBLISHED" \/ f.outbox.status = "PUBLISHED"
    BY <1>8, NextWriteResult
  <2>2. step'[w] = next => Holds(w, i)'
    BY <1>2, <1>5, <1>6, <1>7, <1>8, <2>1, WarrantedHolds
  <2>3. next \in AfterPublication => Told(i)'
    BY <1>2, <1>5, <1>7, <1>8, <2>1 DEF Warranted, Grows
  <2> QED
    BY <1>1, <1>4, <1>5, <2>1, <2>2, <2>3, WorkFlow
<1>9. CASE f.generation = NoGeneration
  <2>1. next \in {"collect", "release"} /\ (next = "collect" => f.dispatch = "NONE" /\ f.outbox = NoOutbox)
    BY <1>9
  <2>2. step'[w] = "collect" /\ next = "collect" => Holds(w, i)'
    BY <1>6, <1>9, <2>1
    DEF Holds, AfterOutcome, AfterGeneration, NoGeneration, Generated, NoOutbox
  <2>3. next \in Active \cup {"release"} /\ next \notin AfterPublication
    BY <2>1 DEF Active, WorkSteps, AfterPublication
  <2>4. next \in Active => next = "collect"
    BY <2>1 DEF Active
  <2> QED
    BY <1>1, <1>4, <1>5, <2>2, <2>3, <2>4, WorkFlow
<1> QED
  BY <1>8, <1>9

---------------------------------------------------------------------------------
(* The documents are written one by one.                                   *)

LEMMA CollectFlow ==
  ASSUME FlowInv, NEW w \in Workers, Collect(w)
  PROVE  FlowInv'
<1> PICK i : i = Identifier(w)
  OBVIOUS
<1>1. step[w] = "collect" /\ step[w] \in Active
  BY DEF Collect, Active, WorkSteps
<1>2. /\ i \in Identifiers /\ Agrees(i) /\ Holds(w, i) /\ found[w] \in Found
      /\ payload[i] \in Payloads
  BY <1>1, AtWork
<1> PICK g \in Generations : g = Verdict(payload[i]) /\ g # NoGeneration
  BY <1>2, VerdictResult
<1> PICK f \in Found : f = [found[w] EXCEPT !.generation = g]
  BY <1>2 DEF Found
<1> PICK next \in {"writeArtifact", "saveGeneration"} :
      next = IF g = Generated THEN "writeArtifact" ELSE "saveGeneration"
  OBVIOUS
<1>3. f.generation = g /\ f.outbox = found[w].outbox /\ f.dispatch = found[w].dispatch
  BY <1>2 DEF Found
<1>4. /\ found' = [found EXCEPT ![w].generation = g] /\ Done(w, next)
      /\ UNCHANGED <<deliveryVars, keys, payload, documents, published>>
  BY <1>2, OutcomeIsVerdict DEF Collect
<1>5. found' = [found EXCEPT ![w] = f]
  BY <1>4
<1>6. Grows /\ DocumentTypes' /\ \A j \in Identifiers : Agrees(j)'
  BY <1>4, DocumentsStay DEF FlowInv, Agrees
<1>7. found'[w] = f /\ UNCHANGED <<payload, generations, artifacts>> /\ Due(i)' = Due(i)
  BY <1>4, <1>5 DEF documents, FlowInv, Types, Due, Healthy
<1>8. step'[w] = next => Holds(w, i)'
  BY <1>1, <1>2, <1>3, <1>6, <1>7 DEF Holds, Grows, AfterOutcome, AfterGeneration
<1>9. next \in Active /\ next \notin AfterPublication
  BY DEF Active, WorkSteps, AfterPublication
<1> QED
  BY <1>1, <1>4, <1>5, <1>6, <1>8, <1>9, WorkFlow

LEMMA WriteArtifactFlow ==
  ASSUME FlowInv, NEW w \in Workers, WriteArtifact(w)
  PROVE  FlowInv'
<1> PICK i : i = Identifier(w)
  OBVIOUS
<1>1. step[w] = "writeArtifact" /\ step[w] \in Active
  BY DEF WriteArtifact, Active, WorkSteps
<1>2. /\ i \in Identifiers /\ Agrees(i) /\ Holds(w, i) /\ found[w] \in Found
      /\ payload[i] \in Payloads
  BY <1>1, AtWork
<1>3. /\ artifacts' = artifacts \cup {i} /\ Done(w, "saveGeneration")
      /\ UNCHANGED <<deliveryVars, keys, payload, found, generations, dispatches, outbox,
                     published>>
  BY DEF WriteArtifact
<1>4. found' = [found EXCEPT ![w] = found[w]]
  BY <1>3 DEF FlowInv, Types
<1>5. \A j \in Identifiers : Due(j)' = Due(j) /\ Undue(j)' = Undue(j)
  BY <1>3 DEF Due, Undue, Healthy
<1>6. \A j \in Identifiers : Told(j)' <=> Told(j)
  BY <1>3, <1>5 DEF Told
<1>7. Grows /\ DocumentTypes' /\ \A j \in Identifiers : Agrees(j)'
  BY <1>2, <1>3, <1>5, <1>6 DEF Grows, DocumentTypes, FlowInv, Types, Agrees
<1>8. step'[w] = "saveGeneration" => Holds(w, i)'
  BY <1>1, <1>2, <1>3, <1>5, <1>6 DEF Holds, AfterOutcome, AfterGeneration
<1>9. "saveGeneration" \in Active \ AfterPublication
  BY DEF Active, WorkSteps, AfterPublication
<1> QED
  BY <1>1, <1>2, <1>3, <1>4, <1>7, <1>8, <1>9, WorkFlow

LEMMA SaveGenerationFlow ==
  ASSUME FlowInv, NEW w \in Workers, SaveGeneration(w)
  PROVE  FlowInv'
<1> PICK i : i = Identifier(w)
  OBVIOUS
<1>1. step[w] = "saveGeneration" /\ step[w] \in Active
  BY DEF SaveGeneration, Active, WorkSteps
<1>2. /\ i \in Identifiers /\ Agrees(i) /\ Holds(w, i) /\ found[w] \in Found
      /\ payload[i] \in Payloads
  BY <1>1, AtWork
<1> PICK g \in Generations : g = Verdict(payload[i]) /\ g # NoGeneration
  BY <1>2, VerdictResult
<1> PICK next : next = NextWrite(found[w])
  OBVIOUS
<1>3. found[w].generation = g
  BY <1>1, <1>2 DEF Holds, AfterOutcome
<1>4. /\ generations' = [generations EXCEPT ![i] = g] /\ Done(w, next)
      /\ UNCHANGED <<deliveryVars, keys, payload, found, artifacts, dispatches, outbox,
                     published>>
  BY <1>3 DEF SaveGeneration
<1>5. found' = [found EXCEPT ![w] = found[w]]
  BY <1>4 DEF FlowInv, Types
<1>6. \A j \in Identifiers : Due(j)' = Due(j) /\ Undue(j)' = Undue(j)
  BY <1>4 DEF Due, Undue, Healthy
<1>7. \A j \in Identifiers : Told(j)' <=> Told(j)
  BY <1>4, <1>6 DEF Told
<1>8. g = Generated => i \in artifacts
  BY <1>1, <1>2, <1>3 DEF Holds
<1>9. Grows /\ DocumentTypes' /\ \A j \in Identifiers : Agrees(j)'
  BY <1>2, <1>4, <1>6, <1>7, <1>8 DEF Grows, DocumentTypes, FlowInv, Types, Agrees
<1>10. generations'[i] = g
  BY <1>2, <1>4 DEF FlowInv, Types
<1>11. /\ next \in Active /\ next \in AfterGeneration
       /\ next = "publish" => found[w].outbox # NoOutbox
       /\ next \in AfterPublication =>
            found[w].dispatch = "PUBLISHED" \/ found[w].outbox.status = "PUBLISHED"
  BY <1>2, NextWriteResult
<1>12. step'[w] = next => Holds(w, i)'
  BY <1>1, <1>2, <1>3, <1>4, <1>6, <1>7, <1>8, <1>10, <1>11
  DEF Holds, AfterOutcome, AfterGeneration
<1>13. next \in AfterPublication => Told(i)'
  BY <1>2, <1>7, <1>11 DEF Holds
<1> QED
  BY <1>1, <1>2, <1>4, <1>5, <1>9, <1>11, <1>12, <1>13, WorkFlow

LEMMA SaveDispatchFlow ==
  ASSUME FlowInv, NEW w \in Workers, SaveDispatch(w)
  PROVE  FlowInv'
<1> PICK i : i = Identifier(w)
  OBVIOUS
<1>1. step[w] = "saveDispatch" /\ step[w] \in Active
  BY DEF SaveDispatch, Active, WorkSteps
<1>2. /\ i \in Identifiers /\ Agrees(i) /\ Holds(w, i) /\ found[w] \in Found
      /\ payload[i] \in Payloads
  BY <1>1, AtWork
<1> PICK f \in Found : f = [found[w] EXCEPT !.dispatch = "PENDING"]
  BY <1>2 DEF Found, Dispatches
<1> PICK next : next = NextWrite(f)
  OBVIOUS
<1>3. f.generation = found[w].generation /\ f.outbox = found[w].outbox /\ f.dispatch = "PENDING"
  BY <1>2 DEF Found
<1>4. /\ dispatches' = [dispatches EXCEPT ![i] = "PENDING"] /\ Done(w, next)
      /\ found' = [found EXCEPT ![w] = f]
      /\ UNCHANGED <<deliveryVars, keys, payload, generations, artifacts, outbox, published>>
  BY DEF SaveDispatch
<1>5. \A j \in Identifiers : Due(j)' = Due(j) /\ Undue(j)' = Undue(j)
  BY <1>4 DEF Due, Undue, Healthy
<1>6. \A j \in Identifiers : Told(j)' <=> Told(j)
  BY <1>4, <1>5 DEF Told
<1>7. \A j \in Identifiers : dispatches'[j] = "PUBLISHED" => dispatches[j] = "PUBLISHED"
  BY <1>2, <1>4 DEF FlowInv, Types
<1>8. Grows /\ DocumentTypes' /\ \A j \in Identifiers : Agrees(j)'
  BY <1>2, <1>4, <1>5, <1>6, <1>7 DEF Grows, DocumentTypes, FlowInv, Types, Agrees, Dispatches
<1>9. Warranted(f, i)
  BY <1>1, <1>2, <1>3 DEF Warranted, Holds, AfterOutcome, AfterGeneration
<1>10. /\ next \in Active /\ next \in AfterGeneration
       /\ next = "publish" => f.outbox # NoOutbox
       /\ next \in AfterPublication => f.dispatch = "PUBLISHED" \/ f.outbox.status = "PUBLISHED"
  BY NextWriteResult
<1>11. found'[w] = f
  BY <1>4 DEF FlowInv, Types
<1>12. step'[w] = next => Holds(w, i)'
  BY <1>2, <1>8, <1>9, <1>10, <1>11, WarrantedHolds
<1>13. next \in AfterPublication => Told(i)'
  BY <1>2, <1>6, <1>9, <1>10 DEF Warranted
<1> QED
  BY <1>1, <1>4, <1>8, <1>10, <1>12, <1>13, WorkFlow

LEMMA SaveOutboxFlow ==
  ASSUME FlowInv, NEW w \in Workers, SaveOutbox(w)
  PROVE  FlowInv'
<1> PICK i : i = Identifier(w)
  OBVIOUS
<1>1. step[w] = "saveOutbox" /\ step[w] \in Active
  BY DEF SaveOutbox, Active, WorkSteps
<1>2. /\ i \in Identifiers /\ Agrees(i) /\ Holds(w, i) /\ found[w] \in Found
      /\ payload[i] \in Payloads
  BY <1>1, AtWork
<1>3. EventOf(found[w].generation) = Due(i) /\ Due(i) \in Events
  BY <1>1, <1>2, DueResult DEF Holds, AfterOutcome, AfterGeneration
<1> PICK entry \in Outboxes : entry = [status |-> "PENDING", event |-> Due(i)]
  BY <1>3 DEF Outboxes
<1> PICK f \in Found : f = [found[w] EXCEPT !.outbox = entry]
  BY <1>2 DEF Found
<1> PICK next : next = Repair(f)
  OBVIOUS
<1>4. f.generation = found[w].generation /\ f.outbox = entry /\ f.dispatch = found[w].dispatch
  BY <1>2 DEF Found
<1>5. /\ outbox' = [outbox EXCEPT ![i] = entry] /\ Done(w, next)
      /\ found' = [found EXCEPT ![w] = f]
      /\ UNCHANGED <<deliveryVars, keys, payload, generations, artifacts, dispatches, published>>
  BY <1>3 DEF SaveOutbox
<1>6. \A j \in Identifiers : Due(j)' = Due(j) /\ Undue(j)' = Undue(j)
  BY <1>5 DEF Due, Undue, Healthy
<1>7. \A j \in Identifiers : Told(j)' <=> Told(j)
  BY <1>5, <1>6 DEF Told
<1>8. entry.event = Due(i) /\ entry.status = "PENDING" /\ entry # NoOutbox
  BY DEF NoOutbox
<1>9. \A j \in Identifiers : /\ j # i => outbox'[j] = outbox[j]
                             /\ j = i => outbox'[j] = entry
  BY <1>5 DEF FlowInv, Types
<1>10. Grows /\ DocumentTypes' /\ \A j \in Identifiers : Agrees(j)'
  BY <1>2, <1>5, <1>6, <1>7, <1>8, <1>9 DEF Grows, DocumentTypes, FlowInv, Types, Agrees
<1>11. Warranted(f, i)
  BY <1>1, <1>2, <1>4, <1>8 DEF Warranted, Holds, AfterOutcome, AfterGeneration
<1>12. /\ next \in {"publish", "adoptDispatch", "adoptOutbox", "settle"}
       /\ next # "publish" => f.dispatch = "PUBLISHED" \/ f.outbox.status = "PUBLISHED"
  BY <1>4, <1>8, RepairResult
<1>13. /\ next \in Active /\ next \in AfterGeneration
       /\ next \in AfterPublication => next # "publish"
  BY <1>12 DEF Active, WorkSteps, AfterGeneration, AfterPublication
<1>14. found'[w] = f
  BY <1>5 DEF FlowInv, Types
<1>15. step'[w] = next => Holds(w, i)'
  BY <1>2, <1>4, <1>8, <1>10, <1>11, <1>13, <1>14, WarrantedHolds
<1>16. next \in AfterPublication => Told(i)'
  BY <1>2, <1>7, <1>11, <1>12, <1>13 DEF Warranted
<1> QED
  BY <1>1, <1>5, <1>10, <1>13, <1>15, <1>16, WorkFlow

---------------------------------------------------------------------------------
(* The publication, and what records it.                                   *)

\* What a publication of the event e about i leaves.
PublishedBy(i, e) ==
  \A j \in Identifiers : \A d \in Events :
    published'[j][d] = IF j = i /\ d = e THEN published[j][d] + 1 ELSE published[j][d]

LEMMA PublishResult ==
  ASSUME Types, NEW i \in Identifiers, NEW e \in Events,
         published' = [published EXCEPT ![i][e] = @ + 1]
  PROVE  published' \in [Identifiers -> [Events -> Nat]] /\ PublishedBy(i, e)
<1>1. published \in [Identifiers -> [Events -> Nat]]
  BY DEF Types
<1>2. published' = [published EXCEPT ![i] = [published[i] EXCEPT ![e] = published[i][e] + 1]]
  OBVIOUS
<1>3. published[i] \in [Events -> Nat]
  BY <1>1
<1>4. [published[i] EXCEPT ![e] = published[i][e] + 1] \in [Events -> Nat]
  BY <1>3
<1>5. published' \in [Identifiers -> [Events -> Nat]]
  BY <1>1, <1>2, <1>4
<1> QED
  BY <1>1, <1>2, <1>3, <1>5 DEF PublishedBy

\* What the handler w publishes.
LEMMA PublishedEvent ==
  ASSUME FlowInv, NEW w \in Workers, Publish(w), NEW i, i = Identifier(w)
  PROVE  /\ i \in Identifiers
         /\ published' = [published EXCEPT ![i][Due(i)] = @ + 1]
         /\ published' \in [Identifiers -> [Events -> Nat]] /\ PublishedBy(i, Due(i))
<1>1. step[w] = "publish" /\ step[w] \in Active
  BY DEF Publish, Active, WorkSteps
<1>2. i \in Identifiers /\ Holds(w, i) /\ payload[i] \in Payloads
  BY <1>1, AtWork
<1>3. found[w].outbox.event = Due(i) /\ Due(i) \in Events
  BY <1>1, <1>2, DueResult DEF Holds
<1>4. published' = [published EXCEPT ![i][Due(i)] = @ + 1]
  BY <1>3 DEF Publish
<1> QED
  BY <1>2, <1>3, <1>4, PublishResult DEF FlowInv

LEMMA PublishFlow ==
  ASSUME FlowInv, NEW w \in Workers, Publish(w)
  PROVE  FlowInv'
<1> PICK i : i = Identifier(w)
  OBVIOUS
<1>1. step[w] = "publish" /\ step[w] \in Active
  BY DEF Publish, Active, WorkSteps
<1>2. /\ i \in Identifiers /\ Agrees(i) /\ Holds(w, i) /\ found[w] \in Found
      /\ payload[i] \in Payloads
  BY <1>1, AtWork
<1>3. published' \in [Identifiers -> [Events -> Nat]] /\ PublishedBy(i, Due(i))
  BY PublishedEvent
<1>4. /\ Done(w, "markDispatch")
      /\ UNCHANGED <<deliveryVars, keys, payload, found, generations, artifacts, dispatches, outbox>>
  BY DEF Publish, documents
<1>5. found' = [found EXCEPT ![w] = found[w]]
  BY <1>4 DEF FlowInv, Types
<1>6. \A j \in Identifiers : /\ Due(j)' = Due(j) /\ Undue(j)' = Undue(j)
                             /\ Due(j) \in Events /\ Undue(j) \in Events /\ Due(j) # Undue(j)
  BY <1>4, DueResult DEF Due, Undue, Healthy, FlowInv, Types
<1>7. \A j \in Identifiers : published[j][Due(j)] \in Nat
  BY <1>6 DEF FlowInv, Types
<1>8. /\ \A j \in Identifiers : Told(j) => Told(j)'
      /\ \A j \in Identifiers : Told(j)' => Told(j) \/ j = i
      /\ Told(i)'
      /\ \A j \in Identifiers : published'[j][Undue(j)] = published[j][Undue(j)]
  BY <1>2, <1>3, <1>6, <1>7 DEF Told, PublishedBy
<1>9. generations[i] = Verdict(payload[i])
  BY <1>1, <1>2 DEF Holds, AfterOutcome, AfterGeneration
<1>10. Grows /\ DocumentTypes' /\ \A j \in Identifiers : Agrees(j)'
  BY <1>2, <1>3, <1>4, <1>6, <1>8, <1>9 DEF Grows, DocumentTypes, FlowInv, Types, Agrees
<1>11. step'[w] = "markDispatch" => Holds(w, i)'
  BY <1>1, <1>2, <1>4, <1>6, <1>8 DEF Holds, AfterOutcome, AfterGeneration
<1>12. "markDispatch" \in Active
  BY DEF Active, WorkSteps
<1> QED
  BY <1>1, <1>2, <1>4, <1>5, <1>8, <1>10, <1>11, <1>12, WorkFlow

LEMMA MarkDispatchFlow ==
  ASSUME FlowInv, NEW w \in Workers, MarkDispatch(w)
  PROVE  FlowInv'
<1> PICK i : i = Identifier(w)
  OBVIOUS
<1> PICK next \in {"markOutbox", "settle"} :
      next = IF step[w] = "markDispatch" THEN "markOutbox" ELSE "settle"
  OBVIOUS
<1>1. step[w] \in {"markDispatch", "adoptOutbox"} /\ step[w] \in Active /\ step[w] \in AfterPublication
  BY DEF MarkDispatch, Active, WorkSteps, AfterPublication
<1>2. /\ i \in Identifiers /\ Agrees(i) /\ Holds(w, i) /\ found[w] \in Found
      /\ payload[i] \in Payloads /\ Told(i)
  BY <1>1, AtWork
<1>3. /\ dispatches' = [dispatches EXCEPT ![i] = "PUBLISHED"] /\ Done(w, next)
      /\ UNCHANGED <<deliveryVars, keys, payload, found, generations, artifacts, outbox, published>>
  BY DEF MarkDispatch
<1>4. found' = [found EXCEPT ![w] = found[w]]
  BY <1>3 DEF FlowInv, Types
<1>5. \A j \in Identifiers : Due(j)' = Due(j) /\ Undue(j)' = Undue(j)
  BY <1>3 DEF Due, Undue, Healthy
<1>6. \A j \in Identifiers : Told(j)' <=> Told(j)
  BY <1>3, <1>5 DEF Told
<1>7. \A j \in Identifiers : dispatches'[j] = dispatches[j] \/ j = i
  BY <1>3 DEF FlowInv, Types
<1>8. Grows /\ DocumentTypes' /\ \A j \in Identifiers : Agrees(j)'
  BY <1>2, <1>3, <1>5, <1>6, <1>7 DEF Grows, DocumentTypes, FlowInv, Types, Agrees, Dispatches
<1>9. step'[w] = next => Holds(w, i)'
  BY <1>1, <1>2, <1>3, <1>5, <1>6 DEF Holds, AfterOutcome, AfterGeneration
<1>10. next \in Active
  BY DEF Active, WorkSteps
<1>11. Told(i)'
  BY <1>2, <1>6
<1> QED
  BY <1>1, <1>2, <1>3, <1>4, <1>8, <1>9, <1>10, <1>11, WorkFlow

LEMMA MarkOutboxFlow ==
  ASSUME FlowInv, NEW w \in Workers, MarkOutbox(w)
  PROVE  FlowInv'
<1> PICK i : i = Identifier(w)
  OBVIOUS
<1>1. step[w] \in {"markOutbox", "adoptDispatch"} /\ step[w] \in Active /\ step[w] \in AfterPublication
  BY DEF MarkOutbox, Active, WorkSteps, AfterPublication
<1>2. /\ i \in Identifiers /\ Agrees(i) /\ Holds(w, i) /\ found[w] \in Found
      /\ payload[i] \in Payloads /\ Told(i)
  BY <1>1, AtWork
<1>3. outbox[i] \in Outboxes
  BY <1>2 DEF FlowInv, Types
<1> PICK entry \in Outboxes :
      /\ entry = [outbox[i] EXCEPT !.status = IF @ = "NONE" THEN @ ELSE "PUBLISHED"]
      /\ entry.event = outbox[i].event
      /\ entry # NoOutbox => outbox[i] # NoOutbox
  <2>1. CASE outbox[i] = NoOutbox
    BY <2>1 DEF Outboxes, NoOutbox
  <2>2. CASE outbox[i] # NoOutbox
    <3>1. outbox[i] \in [status : {"PENDING", "PUBLISHED"}, event : Events]
      BY <1>3, <2>2 DEF Outboxes
    <3>2. /\ [outbox[i] EXCEPT !.status = "PUBLISHED"] \in Outboxes
          /\ [outbox[i] EXCEPT !.status = "PUBLISHED"].event = outbox[i].event
      BY <3>1 DEF Outboxes
    <3>3. outbox[i].status # "NONE"
      BY <3>1
    <3> QED
      BY <2>2, <3>2, <3>3
  <2> QED
    BY <2>1, <2>2
<1>4. /\ outbox' = [outbox EXCEPT ![i] = entry] /\ Done(w, "settle")
      /\ UNCHANGED <<deliveryVars, keys, payload, found, generations, artifacts, dispatches, published>>
  BY DEF MarkOutbox
<1>5. found' = [found EXCEPT ![w] = found[w]]
  BY <1>4 DEF FlowInv, Types
<1>6. \A j \in Identifiers : Due(j)' = Due(j) /\ Undue(j)' = Undue(j)
  BY <1>4 DEF Due, Undue, Healthy
<1>7. \A j \in Identifiers : Told(j)' <=> Told(j)
  BY <1>4, <1>6 DEF Told
<1>8. \A j \in Identifiers : /\ j # i => outbox'[j] = outbox[j]
                             /\ j = i => outbox'[j] = entry
  BY <1>4 DEF FlowInv, Types
<1>9. Grows /\ DocumentTypes' /\ \A j \in Identifiers : Agrees(j)'
  BY <1>2, <1>4, <1>6, <1>7, <1>8 DEF Grows, DocumentTypes, FlowInv, Types, Agrees
<1>10. step'[w] = "settle" => Holds(w, i)'
  BY <1>1, <1>2, <1>4, <1>6, <1>7 DEF Holds, AfterOutcome, AfterGeneration
<1>11. "settle" \in Active
  BY DEF Active, WorkSteps
<1>12. Told(i)'
  BY <1>2, <1>7
<1> QED
  BY <1>1, <1>2, <1>4, <1>5, <1>9, <1>10, <1>11, <1>12, WorkFlow

---------------------------------------------------------------------------------
(* The key, and the life of a handler.                                     *)

\* A handler that ends, and one that does not work, know nothing.
LEMMA UseKeyFlow ==
  ASSUME FlowInv, NEW w \in Workers, UseKey(w)
  PROVE  FlowInv'
<1> PICK i : i = Identifier(w)
  OBVIOUS
<1>1. /\ Reserve(w) \/ SettleKey(w) \/ ReleaseKey(w)
      /\ UNCHANGED <<deliveryVars, payload, found, documents, published>>
      /\ step[w] \in ReserveSteps \cup {"settle", "release"}
  BY DEF UseKey, Reserve, CreateKey, LookAtKey, TakeKey, SettleKey, ReleaseKey, ReserveSteps
<1>2. step[w] \notin {"idle", "error"}
  BY <1>1 DEF ReserveSteps
<1>3. i \in Identifiers /\ found[w] \in Found /\ Agrees(i) /\ Knows(w)
  BY <1>2, FoundBy
<1> PICK s \in {"reserved", "look", "take", "ok", "error", "release"} :
      /\ step' = [step EXCEPT ![w] = s]
      /\ s \in {"look", "take"} => step[w] \in ReserveSteps
      /\ s = "reserved" => step[w] \in ReserveSteps
      /\ s = "ok" => keys[i] = "processed" \/ step[w] = "settle"
  BY <1>1, UseKeyResult DEF FlowInv
<1>4. KeyInv' /\ UNCHANGED held /\ UNCHANGED sub
  BY <1>1, UseKeyResult DEF FlowInv, deliveryVars
<1>5. step[w] = "settle" => Told(i)
  BY <1>3 DEF Knows, AfterPublication
<1>6. \A j \in Identifiers : keys'[j] = "processed" => Told(j)
  <2>1. \A j \in Identifiers : \/ keys'[j] = keys[j] \/ keys'[j] \in {"leased", "lapsed"}
                               \/ j = i /\ step[w] = "settle"
    BY <1>1, UseKeyResult DEF FlowInv
  <2> QED
    BY <1>5, <2>1 DEF FlowInv, Agrees
<1>7. Grows /\ DocumentTypes' /\ \A j \in Identifiers : Agrees(j)'
  BY <1>1, <1>6, DocumentsStay
<1>8. /\ step'[w] = s /\ found' = found /\ Identifier(w)' = i
      /\ \A v \in Workers : v # w => SameHandler(v)
  BY <1>1, <1>4 DEF FlowInv, Types, SameHandler, Identifier
<1>9. Types'
  BY <1>1, <1>7 DEF FlowInv, Types, DocumentTypes, Outside, ReserveSteps, WorkSteps
<1>10. s = "ok" => Told(i)'
  BY <1>3, <1>5, <1>7 DEF Agrees, Grows
<1>11. s = "reserved" => Holds(w, i)'
  <2>1. s = "reserved" => found'[w] = NothingFound
    BY <1>3, <1>8 DEF Knows
  <2> QED
    BY <1>8, <2>1
    DEF Holds, NothingFound, AfterOutcome, AfterGeneration, NoGeneration, NoOutbox, Generated
<1>12. Knows(w)'
  BY <1>3, <1>8, <1>10, <1>11 DEF Knows, Active, WorkSteps, AfterPublication, ReserveSteps
<1> QED
  BY <1>4, <1>7, <1>8, <1>9, <1>12, FlowByHandler

LEMMA RequestFailsFlow ==
  ASSUME FlowInv, NEW w \in Workers, RequestFails(w)
  PROVE  FlowInv'
<1>1. /\ Fail(w) /\ step[w] \notin {"idle", "ok", "error"}
      /\ UNCHANGED <<deliveryVars, keys, payload, found, documents, published>>
  BY DEF RequestFails, Reads, Writes
<1> PICK s \in {"error", "release"} : step' = [step EXCEPT ![w] = s]
  BY <1>1, FailKey DEF FlowInv
<1>2. KeyInv' /\ UNCHANGED held /\ UNCHANGED sub
  BY <1>1, FailKey DEF FlowInv, deliveryVars
<1>3. Grows /\ DocumentTypes' /\ \A j \in Identifiers : Agrees(j)'
  BY <1>1, DocumentsStay DEF FlowInv, Agrees
<1>4. step'[w] = s /\ \A v \in Workers : v # w => SameHandler(v)
  BY <1>1, <1>2 DEF FlowInv, Types, SameHandler
<1>5. Types'
  BY <1>1, <1>3 DEF FlowInv, Types, DocumentTypes, Outside, WorkSteps
<1>6. Knows(w)'
  BY <1>4 DEF Knows, Active, WorkSteps, AfterPublication, ReserveSteps
<1> QED
  BY <1>2, <1>3, <1>4, <1>5, <1>6, FlowByHandler

LEMMA ReceiveFlow ==
  ASSUME FlowInv, NEW w \in Workers, NEW m \in Messages, Receive(w, m)
  PROVE  FlowInv'
<1>1. ReceiveMessage(w, m) /\ UNCHANGED <<payload, found, documents, published, keys>>
  BY DEF Receive, ReceiveMessage, keyVars
<1> PICK s \in {"create", "error"} : step' = [step EXCEPT ![w] = s]
  BY <1>1, ReceiveKey DEF FlowInv
<1>2. KeyInv' /\ held' = [held EXCEPT ![w] = m]
  BY <1>1, ReceiveKey DEF FlowInv
<1>3. Grows /\ DocumentTypes' /\ \A j \in Identifiers : Agrees(j)'
  BY <1>1, DocumentsStay DEF FlowInv, Agrees
<1>4. step'[w] = s /\ \A v \in Workers : v # w => SameHandler(v)
  BY <1>1, <1>2
  DEF FlowInv, Types, KeyInv, KeyOK, LeasedKeyTypeOK, DeliveryTypeOK, SameHandler
<1>5. Types'
  BY <1>1, <1>3 DEF FlowInv, Types, DocumentTypes, Outside, ReserveSteps
<1>6. found'[w] = NothingFound
  BY <1>1 DEF FlowInv, Knows, ReceiveMessage
<1>7. Knows(w)'
  BY <1>4, <1>6 DEF Knows, Active, WorkSteps, AfterPublication
<1>8. \A n \in WellFormed : sub'[n] = "acked" => sub[n] = "acked"
  BY <1>1, ElsewhereAcks, LeasedKeyAssumption DEF FlowInv
<1> QED
  BY <1>2, <1>3, <1>4, <1>5, <1>7, <1>8, FlowByHandler

LEMMA EndFlow ==
  ASSUME FlowInv, NEW w \in Workers, Reply(w) \/ Die(w)
  PROVE  FlowInv'
<1>1. /\ Answer(w) \/ Crash(w)
      /\ found' = [found EXCEPT ![w] = NothingFound]
      /\ UNCHANGED <<payload, documents, published, keys>>
  BY DEF Reply, Die, Forget, Answer, Crash, keyVars
<1>2. /\ KeyInv' /\ held' = [held EXCEPT ![w] = NoMessage]
      /\ step' = [step EXCEPT ![w] = "idle"]
  BY <1>1, AnswerKey, CrashKey DEF FlowInv
<1>3. Grows /\ DocumentTypes' /\ \A j \in Identifiers : Agrees(j)'
  BY <1>1, DocumentsStay DEF FlowInv, Agrees
<1>4. /\ step'[w] = "idle" /\ found'[w] = NothingFound
      /\ \A v \in Workers : v # w => SameHandler(v)
  BY <1>1, <1>2
  DEF FlowInv, Types, KeyInv, KeyOK, LeasedKeyTypeOK, DeliveryTypeOK, SameHandler
<1>5. NothingFound \in Found
  BY DEF NothingFound, Found, Generations, Dispatches, Outboxes
<1>6. Types'
  BY <1>1, <1>2, <1>3, <1>5 DEF FlowInv, Types, DocumentTypes, Outside
<1>7. Knows(w)'
  BY <1>4 DEF Knows, Active, WorkSteps, AfterPublication
<1>8. ASSUME NEW n \in WellFormed, sub'[n] = "acked"
      PROVE  sub[n] = "acked" \/ Told(IdentifierOf[n])
  <2>1. sub[n] = "acked" \/ (step[w] = "ok" /\ held[w] = n)
    BY <1>1, <1>8, AnswerAcks, LeasedKeyAssumption DEF FlowInv
  <2>2. step[w] = "ok" => Told(Identifier(w))
    BY DEF FlowInv, Knows
  <2> QED
    BY <2>1, <2>2 DEF Identifier
<1> QED
  BY <1>2, <1>3, <1>4, <1>6, <1>7, <1>8, FlowByHandler

(* The steps of the environment leave the handlers alone.                  *)
LEMMA EnvironmentFlow ==
  ASSUME FlowInv,
         (\E i \in Identifiers : LeaseRunsOut(i)) \/ Subscription \/ UNCHANGED vars
  PROVE  FlowInv'
<1>1. UNCHANGED <<payload, found, documents, published, step>>
  BY DEF LeaseRunsOut, LeaseExpires, Subscription, vars
<1>2. /\ KeyInv' /\ UNCHANGED held
      /\ \A j \in Identifiers : keys'[j] = "processed" => keys[j] = "processed"
      /\ \A n \in WellFormed : sub'[n] = "acked" => sub[n] = "acked"
  <2>1. CASE \E i \in Identifiers : LeaseRunsOut(i)
    <3>1. PICK i \in Identifiers : LeaseExpires(i)
      BY <2>1 DEF LeaseRunsOut
    <3>2. keys' = [keys EXCEPT ![i] = "lapsed"] /\ UNCHANGED sub
      BY <3>1 DEF LeaseExpires, deliveryVars
    <3> QED
      BY <3>1, <3>2, LeaseExpiresKey DEF FlowInv, KeyInv, KeyOK, LeasedKeyTypeOK
  <2>2. CASE Subscription
    <3>1. (\E m \in Messages : Expire(m) \/ Redeliver(m)) /\ UNCHANGED <<step, keyVars>>
      BY <2>2 DEF Subscription
    <3>2. keys' = keys
      BY <3>1 DEF keyVars
    <3> QED
      BY <3>1, <3>2, ElsewhereKey, ElsewhereAcks, LeasedKeyAssumption DEF FlowInv
  <2>3. CASE UNCHANGED vars
    <3>1. UNCHANGED <<step, keyVars>> /\ UNCHANGED deliveryVars
      BY <2>3 DEF vars
    <3>2. keys' = keys /\ sub' = sub
      BY <3>1 DEF keyVars, deliveryVars
    <3> QED
      BY <3>1, <3>2, ElsewhereKey DEF FlowInv
  <2> QED
    BY <2>1, <2>2, <2>3
<1>3. Grows /\ DocumentTypes' /\ \A j \in Identifiers : Agrees(j)'
  BY <1>1, <1>2, DocumentsStay DEF FlowInv, Agrees
<1>4. \A v \in Workers : SameHandler(v)
  BY <1>1, <1>2 DEF SameHandler
<1>5. Types'
  BY <1>1, <1>3 DEF FlowInv, Types, DocumentTypes
<1>6. \A v \in Workers : Knows(v)'
  BY <1>3, <1>4, KnowsStable
<1>7. AckedIsTold'
  <2> SUFFICES ASSUME NEW m \in WellFormed, sub'[m] = "acked"
               PROVE  Told(IdentifierOf[m])'
    BY DEF AckedIsTold
  <2>1. PICK i \in Identifiers : i = IdentifierOf[m]
    BY LeasedKeyAssumption
  <2> QED
    BY <1>2, <1>3, <2>1 DEF FlowInv, AckedIsTold, Grows
<1> QED
  BY <1>2, <1>3, <1>5, <1>6, <1>7 DEF FlowInv

---------------------------------------------------------------------------------
(* The theorems that hold whatever fails.                                  *)

LEMMA InitFlow == ASSUME Init PROVE FlowInv
<1>1. KeyInv
  BY InitKey DEF Init
<1>2. NothingFound \in Found
  BY DEF NothingFound, Found, Generations, Dispatches, Outboxes
<1>3. Types
  BY <1>2 DEF Init, LeasedKeyInit, Types, Outside, Generations, Dispatches, Outboxes
<1>4. AckedIsTold
  BY LeasedKeyAssumption DEF Init, LeasedKeyInit, DeliveryInit, AckedIsTold
<1>5. \A w \in Workers : Knows(w)
  BY DEF Init, LeasedKeyInit, Knows, Active, WorkSteps, AfterPublication
<1>6. \A i \in Identifiers : Agrees(i)
  <2> SUFFICES ASSUME NEW i \in Identifiers PROVE Agrees(i)
    OBVIOUS
  <2>1. \A e \in Events : published[i][e] = 0
    BY DEF Init
  <2>2. ~Told(i) /\ published[i][Undue(i)] = 0
    BY <1>3, <2>1, DueResult DEF Told, Types
  <2> QED
    BY <2>2 DEF Init, LeasedKeyInit, Agrees, NoGeneration, NoOutbox, Generated
<1> QED
  BY <1>1, <1>3, <1>4, <1>5, <1>6 DEF FlowInv

\* The steps of the handler w.
StepOf(w) ==
  (\E m \in Messages : Receive(w, m)) \/ Handle(w) \/ RequestFails(w) \/ Die(w)

LEMMA StepFlow == FlowInv /\ [Next]_vars => FlowInv'
<1> SUFFICES ASSUME FlowInv, [Next]_vars PROVE FlowInv'
  OBVIOUS
<1>1. CASE \E w \in Workers : StepOf(w)
  <2>1. PICK w \in Workers : StepOf(w)
    BY <1>1
  <2>2. CASE \E m \in Messages : Receive(w, m)
    BY <2>2, ReceiveFlow
  <2>3. CASE UseKey(w) \/ Reply(w) \/ Die(w) \/ RequestFails(w)
    BY <2>3, UseKeyFlow, EndFlow, RequestFailsFlow
  <2>4. CASE Find(w)
    BY <2>4, FindGenerationFlow, FindDispatchFlow, FindOutboxFlow DEF Find
  <2>5. CASE Complete(w)
    BY <2>5, CollectFlow, WriteArtifactFlow, SaveGenerationFlow, SaveDispatchFlow,
       SaveOutboxFlow DEF Complete
  <2>6. CASE Announce(w)
    BY <2>6, PublishFlow, MarkDispatchFlow, MarkOutboxFlow DEF Announce
  <2> QED
    BY <2>1, <2>2, <2>3, <2>4, <2>5, <2>6 DEF StepOf, Handle
<1>2. CASE (\E i \in Identifiers : LeaseRunsOut(i)) \/ Subscription \/ UNCHANGED vars
  BY <1>2, EnvironmentFlow
<1> QED
  BY <1>1, <1>2 DEF Next, StepOf

LEMMA AlwaysFlow == Spec => []FlowInv
  BY InitFlow, StepFlow, PTL DEF Spec

(* Every variable of feature-engineering has its type.                     *)
THEOREM TypeCorrect == Spec => []TypeOK
  BY AlwaysFlow, FlowInvImplies, PTL

(* Whatever fails, market.collected is acknowledged only after its outcome *)
(* was published: no step between the documents, the publication and the   *)
(* key can lose it.                                                        *)
THEOREM AcknowledgedIsPublished == Spec => []AckedIsPublished
  BY AlwaysFlow, FlowInvImplies, PTL

(* Whatever fails, a dispatch, an outbox or a key that says that the       *)
(* outcome was published is right.                                         *)
THEOREM MarksAreTrue == Spec => []NeverMarkedUnpublished
  BY AlwaysFlow, FlowInvImplies, PTL

---------------------------------------------------------------------------------
(* The second invariant: the work under an undisturbed lease.              *)

BeforePublication ==
  {"reserved", "findDispatch", "findOutbox", "collect", "writeArtifact", "saveGeneration",
   "saveDispatch", "saveOutbox", "publish"}

Publications(i) == published[i][Due(i)]

\* Nothing is published twice about i, and nothing before a handler gets to it.
Once(i) ==
  /\ keys[i] = "absent" => Publications(i) = 0
  /\ \A w \in Owners(i) : step[w] \in BeforePublication => Publications(i) = 0
  /\ Publications(i) <= 1

OnceInv == FlowInv /\ \A i \in Identifiers \ disturbed : Once(i)

(* A step that publishes nothing, and brings no handler before its         *)
(* publication that was not there, unless it created the key.              *)
LEMMA OnceStable ==
  ASSUME OnceInv, NEW i \in Identifiers, i \notin disturbed, UNCHANGED <<payload, published>>,
         keys'[i] = "absent" => keys[i] = "absent",
         \A v \in Workers : (v \in Owners(i))' /\ step'[v] \in BeforePublication =>
           \/ v \in Owners(i) /\ step[v] \in BeforePublication
           \/ keys[i] = "absent"
  PROVE  Once(i)'
<1>1. Once(i) /\ Publications(i)' = Publications(i)
  BY DEF OnceInv, Publications, Due, Healthy
<1>2. \A v : (v \in Owners(i))' => v \in Workers
  BY DEF Owners
<1> QED
  BY <1>1, <1>2 DEF Once

\* What the handler w does to its own step and to the keys.
Backs(w) ==
  /\ UNCHANGED <<payload, published>> /\ disturbed \subseteq disturbed'
  /\ \A v \in Workers : v # w => step'[v] = step[v] /\ held'[v] = held[v]
  /\ \A i \in Identifiers : keys'[i] = "absent" => keys[i] = "absent"
  /\ step'[w] \in BeforePublication =>
       /\ held'[w] = held[w]
       /\ \/ step[w] \in BeforePublication
          \/ keys[Identifier(w)] = "absent" \/ Identifier(w) \in disturbed'

LEMMA BacksOnce ==
  ASSUME OnceInv, NEW w \in Workers, Backs(w), NEW i \in Identifiers \ disturbed'
  PROVE  Once(i)'
<1>1. i \notin disturbed
  BY DEF Backs
<1>2. ASSUME NEW v \in Workers, (v \in Owners(i))', step'[v] \in BeforePublication
      PROVE  \/ v \in Owners(i) /\ step[v] \in BeforePublication
             \/ keys[i] = "absent"
  <2>1. held'[v] = held[v] /\ Identifier(v) = i
    BY <1>2 DEF Backs, Owners, Identifier
  <2>2. \/ step[v] \in BeforePublication
        \/ keys[i] = "absent"
    BY <1>2, <2>1 DEF Backs
  <2> QED
    BY <2>1, <2>2 DEF Owners, Working, BeforePublication, Outside, ReserveSteps
<1> QED
  BY <1>1, <1>2, OnceStable DEF Backs

(* A request of the work backs what holds, unless it publishes.            *)
LEMMA DoneBacks ==
  ASSUME FlowInv, NEW w \in Workers, step[w] \in Active,
         NEW next \in Active \cup {"release"}, Done(w, next),
         UNCHANGED <<deliveryVars, keys, payload, published>>,
         next \in BeforePublication => step[w] \in BeforePublication
  PROVE  Backs(w)
<1>1. Working(w) /\ step[w] # "release" /\ next \notin Outside
  BY DEF Active, WorkSteps, Working, Outside, ReserveSteps
<1> PICK s \in {next, "release"} : step' = [step EXCEPT ![w] = s]
  BY <1>1, DoneWork DEF FlowInv
<1>2. UNCHANGED held /\ disturbed \subseteq disturbed'
  BY <1>1, DoneWork DEF FlowInv
<1> QED
  BY <1>2 DEF Backs, FlowInv, Types, BeforePublication

LEMMA WorkBacks ==
  ASSUME OnceInv, NEW w \in Workers, Find(w) \/ Complete(w) \/ MarkDispatch(w) \/ MarkOutbox(w)
  PROVE  Backs(w)
<1> USE DEF OnceInv, Active, WorkSteps, BeforePublication
<1>1. CASE FindGeneration(w)
  BY <1>1, DoneBacks DEF FindGeneration
<1>2. CASE FindDispatch(w)
  BY <1>2, DoneBacks DEF FindDispatch
<1>3. CASE FindOutbox(w)
  <2>1. step[w] = "findOutbox"
    BY <1>3 DEF FindOutbox
  <2> PICK i : i = Identifier(w)
    OBVIOUS
  <2>2. found[w] \in Found /\ i \in Identifiers
    BY <2>1, AtWork
  <2> PICK f \in Found : f = [found[w] EXCEPT !.outbox = outbox[i]]
    BY <2>2 DEF Found, FlowInv, Types
  <2> PICK next : next = IF f.generation # NoGeneration THEN NextWrite(f)
                         ELSE IF f.dispatch = "NONE" /\ f.outbox = NoOutbox THEN "collect"
                         ELSE "release"
    OBVIOUS
  <2>3. next \in Active \cup {"release"}
    BY NextWriteResult
  <2>4. Done(w, next) /\ UNCHANGED <<deliveryVars, keys, payload, published>>
    BY <1>3 DEF FindOutbox
  <2> QED
    BY <2>1, <2>3, <2>4, DoneBacks
<1>4. CASE Collect(w)
  <2>1. PICK next \in {"writeArtifact", "saveGeneration"} : Done(w, next)
    BY <1>4 DEF Collect
  <2> QED
    BY <1>4, <2>1, DoneBacks DEF Collect
<1>5. CASE WriteArtifact(w)
  BY <1>5, DoneBacks DEF WriteArtifact
<1>6. CASE SaveGeneration(w)
  <2>1. step[w] = "saveGeneration" /\ found[w] \in Found
    BY <1>6 DEF SaveGeneration, FlowInv, Types
  <2> PICK next \in Active : next = NextWrite(found[w])
    BY <2>1, NextWriteResult
  <2> QED
    BY <1>6, <2>1, DoneBacks DEF SaveGeneration
<1>7. CASE SaveDispatch(w)
  <2>1. step[w] = "saveDispatch" /\ found[w] \in Found
    BY <1>7 DEF SaveDispatch, FlowInv, Types
  <2> PICK f \in Found : f = [found[w] EXCEPT !.dispatch = "PENDING"]
    BY <2>1 DEF Found, Dispatches
  <2> PICK next \in Active : next = NextWrite(f)
    BY NextWriteResult
  <2> QED
    BY <1>7, <2>1, DoneBacks DEF SaveDispatch
<1>8. CASE SaveOutbox(w)
  <2>1. step[w] = "saveOutbox" /\ UNCHANGED <<deliveryVars, keys, payload, published>>
    BY <1>8 DEF SaveOutbox
  <2>2. PICK next : Done(w, next) /\ \E f : next = Repair(f)
    BY <1>8 DEF SaveOutbox
  <2>3. next \in Active
    BY <2>2 DEF Repair
  <2> QED
    BY <2>1, <2>2, <2>3, DoneBacks
<1>9. CASE MarkDispatch(w)
  <2>1. PICK next \in {"markOutbox", "settle"} : Done(w, next)
    BY <1>9 DEF MarkDispatch
  <2> QED
    BY <1>9, <2>1, DoneBacks DEF MarkDispatch
<1>10. CASE MarkOutbox(w)
  BY <1>10, DoneBacks DEF MarkOutbox
<1> QED
  BY <1>1, <1>2, <1>3, <1>4, <1>5, <1>6, <1>7, <1>8, <1>9, <1>10 DEF Find, Complete

LEMMA LifeBacks ==
  ASSUME OnceInv, NEW w \in Workers,
         \/ UseKey(w) \/ RequestFails(w) \/ Reply(w) \/ Die(w)
         \/ \E m \in Messages : Receive(w, m)
  PROVE  Backs(w)
<1> USE DEF OnceInv, FlowInv
<1>1. CASE UseKey(w)
  <2>1. /\ Reserve(w) \/ SettleKey(w) \/ ReleaseKey(w)
        /\ UNCHANGED deliveryVars /\ UNCHANGED <<payload, published>>
    BY <1>1 DEF UseKey
  <2>2. /\ UNCHANGED held
        /\ \A i \in Identifiers : keys'[i] = "absent" => keys[i] = "absent"
    BY <2>1, UseKeyResult
  <2>3. PICK s \in {"reserved", "look", "take", "ok", "error", "release"} :
          /\ step' = [step EXCEPT ![w] = s]
          /\ s = "reserved" => \/ keys[Identifier(w)] = "absent"
                               \/ Identifier(w) \in disturbed'
    BY <2>1, UseKeyResult
  <2>4. disturbed \subseteq disturbed'
    BY <2>1
    DEF Reserve, CreateKey, LookAtKey, TakeKey, SettleKey, ReleaseKey, Done, Fail, Disturb
  <2> QED
    BY <2>1, <2>2, <2>3, <2>4 DEF Backs, Types, BeforePublication
<1>2. CASE RequestFails(w)
  <2>1. /\ Fail(w) /\ step[w] \notin {"idle", "ok", "error"}
        /\ UNCHANGED <<deliveryVars, keys, payload, published>>
    BY <1>2 DEF RequestFails, Reads, Writes
  <2>2. PICK s \in {"error", "release"} : step' = [step EXCEPT ![w] = s] /\ UNCHANGED held
    BY <2>1, FailKey
  <2> QED
    BY <2>1, <2>2 DEF Backs, Types, BeforePublication, Fail, Disturb
<1>3. CASE Reply(w) \/ Die(w)
  <2>1. /\ Answer(w) \/ Crash(w)
        /\ UNCHANGED <<payload, published, keys>> /\ disturbed \subseteq disturbed'
    BY <1>3 DEF Reply, Die, Answer, Crash, Disturb, keyVars
  <2>2. step' = [step EXCEPT ![w] = "idle"] /\ held' = [held EXCEPT ![w] = NoMessage]
    BY <2>1, AnswerKey, CrashKey
  <2> QED
    BY <2>1, <2>2
    DEF Backs, Types, BeforePublication, KeyInv, KeyOK, LeasedKeyTypeOK, DeliveryTypeOK
<1>4. CASE \E m \in Messages : Receive(w, m)
  <2>1. PICK m \in Messages : Receive(w, m)
    BY <1>4
  <2>2. ReceiveMessage(w, m) /\ UNCHANGED <<payload, published, keys, disturbed>>
    BY <2>1 DEF Receive, ReceiveMessage, keyVars
  <2>3. PICK s \in {"create", "error"} : step' = [step EXCEPT ![w] = s]
    BY <2>2, ReceiveKey
  <2>4. held' = [held EXCEPT ![w] = m]
    BY <2>2, ReceiveKey
  <2> QED
    BY <2>2, <2>3, <2>4
    DEF Backs, Types, BeforePublication, KeyInv, KeyOK, LeasedKeyTypeOK, DeliveryTypeOK
<1> QED
  BY <1>1, <1>2, <1>3, <1>4

(* The publication itself, by the one handler that works on its event.     *)
LEMMA PublishOnce ==
  ASSUME OnceInv, NEW w \in Workers, Publish(w), NEW i \in Identifiers \ disturbed'
  PROVE  Once(i)'
<1> USE DEF OnceInv, FlowInv
<1> PICK k : k = Identifier(w)
  OBVIOUS
<1>1. k \in Identifiers /\ PublishedBy(k, Due(k))
  BY PublishedEvent
<1>2. /\ step[w] = "publish" /\ step[w] \in Active /\ Working(w) /\ step[w] # "release"
      /\ Done(w, "markDispatch") /\ UNCHANGED <<deliveryVars, keys>> /\ payload' = payload
      /\ "markDispatch" \notin Outside
  BY DEF Publish, Active, WorkSteps, Working, Outside, ReserveSteps
<1>3. PICK s \in {"markDispatch", "release"} :
        step' = [step EXCEPT ![w] = s] /\ (s = "markDispatch" \/ k \in disturbed')
  BY <1>2, DoneWork
<1>4. UNCHANGED held /\ i \notin disturbed
  BY <1>2, DoneWork
<1>5. Once(i) /\ Exclusive(i) /\ Due(i)' = Due(i) /\ Due(i) \in Events
  BY <1>2, <1>4, DueResult DEF KeyInv, Due, Healthy, Types
<1>6. \A v \in Workers : Identifier(v)' = Identifier(v)
  BY <1>4 DEF Identifier
<1>7. \A v \in Workers : v # w => step'[v] = step[v]
  BY <1>3 DEF Types
<1>8. CASE i = k
  <2>1. w \in Owners(i)
    BY <1>2, <1>8 DEF Owners
  <2>2. Publications(i) = 0
    BY <1>2, <1>5, <2>1 DEF Once, BeforePublication
  <2>3. Publications(i)' = 1
    BY <1>1, <1>5, <1>8, <2>2 DEF Publications, PublishedBy
  <2>4. step'[w] \notin BeforePublication
    BY <1>3 DEF Types, BeforePublication
  <2>5. \A v \in Workers : (v \in Owners(i))' => v = w
    BY <1>5, <1>6, <1>7, <2>1 DEF Exclusive, Owners, Working
  <2>6. \A v : (v \in Owners(i))' => v \in Workers
    BY DEF Owners
  <2>7. keys'[i] # "absent"
    BY <1>2, <1>5, <2>1 DEF Exclusive
  <2> QED
    BY <2>3, <2>4, <2>5, <2>6, <2>7 DEF Once
<1>9. CASE i # k
  <2>1. Publications(i)' = Publications(i)
    BY <1>1, <1>5, <1>9 DEF Publications, PublishedBy
  <2>2. \A v \in Workers : (v \in Owners(i))' => v \in Owners(i) /\ step'[v] = step[v]
    BY <1>6, <1>7, <1>9 DEF Owners, Working
  <2>3. \A v : (v \in Owners(i))' => v \in Workers
    BY DEF Owners
  <2> QED
    BY <1>2, <1>5, <2>1, <2>2, <2>3 DEF Once
<1> QED
  BY <1>8, <1>9

LEMMA EnvironmentOnce ==
  ASSUME OnceInv, (\E i \in Identifiers : LeaseRunsOut(i)) \/ Subscription \/ UNCHANGED vars,
         NEW j \in Identifiers \ disturbed'
  PROVE  Once(j)'
<1>1. UNCHANGED <<payload, published, step>> /\ j \notin disturbed
  BY DEF LeaseRunsOut, LeaseExpires, Subscription, vars, keyVars
<1>2. UNCHANGED held /\ (keys'[j] = "absent" => keys[j] = "absent")
  <2>1. CASE \E i \in Identifiers : LeaseRunsOut(i)
    BY <2>1 DEF LeaseRunsOut, LeaseExpires, deliveryVars, OnceInv, FlowInv, KeyInv, KeyOK,
                LeasedKeyTypeOK
  <2>2. CASE Subscription
    BY <2>2, SubscriptionType DEF Subscription, keyVars, Expire, Redeliver
  <2>3. CASE UNCHANGED vars
    BY <2>3 DEF vars, deliveryVars, keyVars
  <2> QED
    BY <2>1, <2>2, <2>3
<1>3. Owners(j)' = Owners(j)
  BY <1>1, <1>2 DEF Owners, Working, Identifier
<1> QED
  BY <1>1, <1>2, <1>3, OnceStable

LEMMA StepOnce == OnceInv /\ [Next]_vars => OnceInv'
<1> SUFFICES ASSUME OnceInv, [Next]_vars PROVE OnceInv'
  OBVIOUS
<1>1. FlowInv'
  BY StepFlow DEF OnceInv
<1>2. ASSUME NEW w \in Workers, StepOf(w), NEW i \in Identifiers \ disturbed'
      PROVE  Once(i)'
  BY <1>2, WorkBacks, LifeBacks, BacksOnce, PublishOnce DEF StepOf, Handle, Announce
<1>3. CASE \E w \in Workers : StepOf(w)
  BY <1>1, <1>2, <1>3 DEF OnceInv
<1>4. CASE (\E i \in Identifiers : LeaseRunsOut(i)) \/ Subscription \/ UNCHANGED vars
  BY <1>1, <1>4, EnvironmentOnce DEF OnceInv
<1> QED
  BY <1>3, <1>4 DEF Next, StepOf

LEMMA OnceImplies == OnceInv => ExclusiveUnlessDisturbed
  BY DEF OnceInv, FlowInv, KeyInv, Exclusive, Once, Publications, ExclusiveUnlessDisturbed

LEMMA InitOnce == ASSUME Init PROVE OnceInv
<1> SUFFICES ASSUME NEW i \in Identifiers PROVE Once(i)
  BY InitFlow DEF OnceInv
<1>1. Publications(i) = 0
  BY InitFlow, DueResult DEF Init, Publications, FlowInv, Types
<1>2. Owners(i) = {}
  BY DEF Init, LeasedKeyInit, Owners, Working, Outside
<1> QED
  BY <1>1, <1>2 DEF Once

(* However often an event is pushed, one handler at a time works on it and *)
(* its outcome is published at most once, as long as nothing disturbs it.  *)
THEOREM OneHandlerAtATime == Spec => []ExclusiveUnlessDisturbed
  BY InitOnce, StepOnce, OnceImplies, PTL DEF Spec

---------------------------------------------------------------------------------
(* The contract: every step of a handler is a step of it about the event   *)
(* that the handler works on, or none.                                     *)

HealthyEvents == {i \in Identifiers : Healthy(i)}

StepContract ==
  [Contract!Next]_<<HealthyEvents, generations, artifacts, published, disturbed>>

\* At most i is disturbed by a step.
MayDisturb(i) == disturbed' \in {disturbed, disturbed \cup {i}}

LEMMA DoneDisturbs ==
  ASSUME NEW w \in Workers, NEW next, Done(w, next)
  PROVE  MayDisturb(Identifier(w))
  BY DEF Done, Fail, Disturb, MayDisturb

LEMMA HealthyStays == ASSUME payload' = payload PROVE HealthyEvents' = HealthyEvents
  BY DEF HealthyEvents, Healthy

(* Steps that neither store, decide nor announce anything.                 *)
LEMMA NothingContract ==
  ASSUME UNCHANGED <<payload, generations, artifacts, published>>,
         NEW i \in Identifiers, MayDisturb(i)
  PROVE  StepContract
<1>1. HealthyEvents' = HealthyEvents
  BY HealthyStays
<1>2. CASE disturbed' = disturbed
  BY <1>1, <1>2 DEF StepContract
<1>3. CASE disturbed' = disturbed \cup {i}
  <2>1. Contract!Disturb(i)
    BY <1>1, <1>3 DEF Contract!Disturb, HealthyEvents
  <2> QED
    BY <2>1 DEF StepContract, Contract!Next
<1> QED
  BY <1>2, <1>3 DEF MayDisturb

LEMMA StoreContract ==
  ASSUME FlowInv, NEW w \in Workers, WriteArtifact(w)
  PROVE  StepContract
<1> PICK i : i = Identifier(w)
  OBVIOUS
<1>1. /\ step[w] = "writeArtifact" /\ step[w] \in Active /\ MayDisturb(i)
      /\ artifacts' = artifacts \cup {i}
      /\ UNCHANGED <<payload, generations, published>>
  BY DoneDisturbs DEF WriteArtifact, Active, WorkSteps
<1>2. i \in Identifiers /\ payload[i] \in Payloads /\ Holds(w, i)
  BY <1>1, AtWork
<1>3. Verdict(payload[i]) = Generated
  BY <1>1, <1>2 DEF Holds, Generated, NoGeneration
<1>4. i \in HealthyEvents
  BY <1>2, <1>3, VerdictResult DEF HealthyEvents, Healthy
<1>5. Contract!Store(i)
  BY <1>1, <1>4, HealthyStays DEF Contract!Store, Contract!Perhaps, MayDisturb, HealthyEvents
<1> QED
  BY <1>2, <1>5 DEF StepContract, Contract!Next

(* A generation is saved over none, or over the same one.                  *)
LEMMA DecideContract ==
  ASSUME FlowInv, NEW w \in Workers, SaveGeneration(w)
  PROVE  StepContract
<1> PICK i : i = Identifier(w)
  OBVIOUS
<1> PICK g : g = found[w].generation
  OBVIOUS
<1>1. /\ step[w] = "saveGeneration" /\ step[w] \in Active /\ MayDisturb(i)
      /\ generations' = [generations EXCEPT ![i] = g]
      /\ UNCHANGED <<payload, artifacts, published>>
  BY DoneDisturbs DEF SaveGeneration, Active, WorkSteps
<1>2. i \in Identifiers /\ payload[i] \in Payloads /\ Holds(w, i) /\ Agrees(i)
  BY <1>1, AtWork
<1>3. g = Verdict(payload[i]) /\ (g = Generated => i \in artifacts)
  BY <1>1, <1>2 DEF Holds, AfterOutcome
<1>4. CASE generations[i] = NoGeneration
  <2>1. g \in Generations \ {NoGeneration}
    BY <1>2, <1>3, VerdictResult
  <2>2. IF i \in HealthyEvents THEN g.status = "GENERATED" /\ i \in artifacts
        ELSE g.status = "FAILED"
    BY <1>2, <1>3, VerdictResult DEF HealthyEvents, Healthy
  <2>3. Contract!Decide(i, g)
    BY <1>1, <1>4, <2>2, HealthyStays
    DEF Contract!Decide, Contract!Perhaps, MayDisturb, HealthyEvents
  <2> QED
    BY <1>2, <2>1, <2>3 DEF StepContract, Contract!Next
<1>5. CASE generations[i] # NoGeneration
  <2>1. generations' = generations
    BY <1>1, <1>2, <1>3, <1>5 DEF Agrees, FlowInv, Types
  <2> QED
    BY <1>1, <1>2, <2>1, NothingContract
<1> QED
  BY <1>4, <1>5

LEMMA AnnounceContract ==
  ASSUME OnceInv, NEW w \in Workers, Publish(w)
  PROVE  StepContract
<1> PICK i : i = Identifier(w)
  OBVIOUS
<1>1. /\ step[w] = "publish" /\ step[w] \in Active /\ MayDisturb(i)
      /\ UNCHANGED <<payload, generations, artifacts>>
  BY DoneDisturbs DEF Publish, Active, WorkSteps, documents
<1>2. i \in Identifiers /\ payload[i] \in Payloads /\ Holds(w, i) /\ Agrees(i)
  BY <1>1, AtWork DEF OnceInv
<1>3. generations[i] = Verdict(payload[i])
  BY <1>1, <1>2 DEF Holds, AfterOutcome, AfterGeneration
<1>4. generations[i] # NoGeneration /\ EventOf(generations[i]) = Due(i)
  BY <1>2, <1>3, VerdictResult, DueResult
<1>5. published' = [published EXCEPT ![i][EventOf(generations[i])] = @ + 1]
  BY <1>4, PublishedEvent DEF OnceInv
<1>6. ASSUME NEW e \in Events, published[i][e] > 0 PROVE i \in disturbed
  <2> SUFFICES ASSUME i \notin disturbed PROVE FALSE
    OBVIOUS
  <2>1. w \in Owners(i)
    BY <1>1 DEF Owners, Working, Outside, ReserveSteps
  <2>2. published[i][Due(i)] = 0 /\ published[i][Undue(i)] = 0
    BY <1>1, <1>2, <2>1 DEF OnceInv, Once, Publications, BeforePublication, Agrees
  <2>3. e = Due(i) \/ e = Undue(i)
    BY DEF Due, Undue, Events
  <2> QED
    BY <1>6, <2>2, <2>3
<1>7. Contract!Announce(i)
  BY <1>1, <1>4, <1>5, <1>6, HealthyStays
  DEF Contract!Announce, Contract!Perhaps, MayDisturb, HealthyEvents
<1> QED
  BY <1>2, <1>7 DEF StepContract, Contract!Next

\* The event of any handler that is not idle, decodable or not.
LEMMA SomeEvent ==
  ASSUME FlowInv, NEW w \in Workers, step[w] # "idle"
  PROVE  Identifier(w) \in Identifiers
  BY HandlerHolds, LeasedKeyAssumption DEF FlowInv, Identifier

LEMMA StepOfContract ==
  ASSUME OnceInv, NEW w \in Workers, StepOf(w)
  PROVE  StepContract
<1> USE DEF OnceInv
<1>1. CASE \E m \in Messages : Receive(w, m)
  <2>1. PICK m \in Messages : Receive(w, m)
    BY <1>1
  <2>2. /\ UNCHANGED <<payload, generations, artifacts, published>> /\ disturbed' = disturbed
        /\ IdentifierOf[m] \in Identifiers
    BY <2>1, LeasedKeyAssumption DEF Receive, ReceiveMessage, keyVars, documents
  <2> QED
    BY <2>2, NothingContract DEF MayDisturb
<1>2. CASE UseKey(w) \/ Reply(w) \/ Die(w) \/ RequestFails(w)
  <2>1. UNCHANGED <<payload, generations, artifacts, published>> /\ step[w] # "idle"
    BY <1>2
    DEF UseKey, Reserve, CreateKey, LookAtKey, TakeKey, SettleKey, ReleaseKey, Reply, Answer, Die,
        Crash, RequestFails, Reads, Writes, documents
  <2>2. MayDisturb(Identifier(w))
    BY <1>2, DoneDisturbs
    DEF UseKey, Reserve, CreateKey, LookAtKey, TakeKey, SettleKey, ReleaseKey, Reply, Answer, Die,
        Crash, RequestFails, Fail, Disturb, MayDisturb, keyVars
  <2> QED
    BY <2>1, <2>2, SomeEvent, NothingContract
<1>3. CASE Find(w) \/ Collect(w) \/ SaveDispatch(w) \/ SaveOutbox(w) \/ MarkDispatch(w)
             \/ MarkOutbox(w)
  <2>1. UNCHANGED <<payload, generations, artifacts, published>> /\ step[w] # "idle"
    BY <1>3
    DEF Find, FindGeneration, FindDispatch, FindOutbox, Collect, SaveDispatch, SaveOutbox,
        MarkDispatch, MarkOutbox, documents
  <2>2. \E next : Done(w, next)
    BY <1>3
    DEF Find, FindGeneration, FindDispatch, FindOutbox, Collect, SaveDispatch, SaveOutbox,
        MarkDispatch, MarkOutbox
  <2> QED
    BY <2>1, <2>2, DoneDisturbs, SomeEvent, NothingContract
<1>4. CASE WriteArtifact(w) \/ SaveGeneration(w) \/ Publish(w)
  BY <1>4, StoreContract, DecideContract, AnnounceContract
<1> QED
  BY <1>1, <1>2, <1>3, <1>4 DEF StepOf, Handle, Complete, Announce

LEMMA NextContract == OnceInv /\ [Next]_vars => StepContract
<1> SUFFICES ASSUME OnceInv, [Next]_vars PROVE StepContract
  OBVIOUS
<1>1. CASE \E w \in Workers : StepOf(w)
  BY <1>1, StepOfContract
<1>2. CASE \E i \in Identifiers : LeaseRunsOut(i)
  <2>1. PICK i \in Identifiers : LeaseRunsOut(i)
    BY <1>2
  <2>2. UNCHANGED <<payload, generations, artifacts, published>> /\ MayDisturb(i)
    BY <2>1 DEF LeaseRunsOut, LeaseExpires, MayDisturb, documents
  <2> QED
    BY <2>2, NothingContract
<1>3. CASE Subscription \/ UNCHANGED vars
  <2>1. UNCHANGED <<payload, generations, artifacts, published, disturbed>>
    BY <1>3 DEF Subscription, vars, keyVars, documents
  <2> QED
    BY <2>1, HealthyStays DEF StepContract
<1> QED
  BY <1>1, <1>2, <1>3 DEF Next, StepOf

(* Whatever fails and however handlers overlap, feature-engineering        *)
(* implements FeatureContract: the outcome of an event is what its payload *)
(* calls for, whatever insights there are, and is never revised; the       *)
(* artifact is stored before features are decided and announced, and a     *)
(* second announcement is of a disturbed event.                            *)
THEOREM ImplementsContract == Spec => ContractSpec
<1>1. Init => Contract!Init
  BY DEF Init, LeasedKeyInit, Contract!Init
<1>2. OnceInv /\ [Next]_vars =>
        [Contract!Next]_<<{i \in Identifiers : Healthy(i)}, generations, artifacts, published,
                          disturbed>>
  BY NextContract DEF StepContract, HealthyEvents
<1> QED
  BY <1>1, <1>2, InitOnce, StepOnce, PTL DEF Spec, ContractSpec, Contract!Spec

---------------------------------------------------------------------------------
(* What the histories are worth: as long as no request fails and no        *)
(* instance dies, nothing is disturbed, however deliveries overlap.        *)

Calm ==
  Faults \cap {"crash", "readError", "persistLost", "publishLost", "lostAnswer", "overrun"} = {}

\* What the handler w has read is still so, and nothing failed.
Undisturbed(w) ==
  /\ step[w] # "release"
  /\ step[w] \in {"findDispatch", "findOutbox"} =>
       found[w].generation = generations[Identifier(w)]
  /\ step[w] = "findOutbox" => found[w].dispatch = dispatches[Identifier(w)]

\* A dispatch or an outbox never stands without its generation.
Founded(i) ==
  dispatches[i] # "NONE" \/ outbox[i] # NoOutbox => generations[i] # NoGeneration

CalmInv ==
  /\ OnceInv /\ disturbed = {}
  /\ \A w \in Workers : Undisturbed(w)
  /\ \A i \in Identifiers : Founded(i)

(* The lease keeps two handlers from working on one event.                 *)
LEMMA AloneAtWork ==
  ASSUME CalmInv, NEW w \in Workers, NEW v \in Workers, Working(w), Working(v),
         Identifier(w) = Identifier(v)
  PROVE  w = v
<1>1. Identifier(w) \in Identifiers
  BY EventOfHandler DEF CalmInv, OnceInv, FlowInv, KeyInv, Working, Outside
<1> QED
  BY <1>1 DEF CalmInv, OnceInv, FlowInv, KeyInv, Exclusive, Owners

(* A request of the work: what is left to show of it.                      *)
LEMMA CalmWork ==
  ASSUME CalmInv, Calm, OnceInv', NEW w \in Workers, step[w] \in Active,
         NEW i, i = Identifier(w), NEW next \in Active, Done(w, next),
         UNCHANGED <<deliveryVars, keys>>,
         \A v \in Workers : v # w => found'[v] = found[v],
         \A j \in Identifiers \ {i} : /\ generations'[j] = generations[j]
                                     /\ dispatches'[j] = dispatches[j]
                                     /\ outbox'[j] = outbox[j],
         Founded(i)',
         next \in {"findDispatch", "findOutbox"} => found'[w].generation = generations'[i],
         next = "findOutbox" => found'[w].dispatch = dispatches'[i]
  PROVE  CalmInv'
<1>1. /\ step' = [step EXCEPT ![w] = next] /\ disturbed' = disturbed
      /\ UNCHANGED <<held, keys>>
  BY DEF Done, Goto, Calm, deliveryVars
<1>2. /\ step'[w] = next /\ \A v \in Workers : v # w => step'[v] = step[v]
      /\ \A v \in Workers : Identifier(v)' = Identifier(v)
  BY <1>1 DEF CalmInv, OnceInv, FlowInv, Types, Identifier
<1>3. Working(w)
  BY DEF Active, WorkSteps, Working, Outside, ReserveSteps
<1>4. Undisturbed(w)'
  BY <1>2 DEF Undisturbed, Active
<1>5. ASSUME NEW v \in Workers, v # w PROVE Undisturbed(v)'
  <2>1. Undisturbed(v) /\ found'[v] = found[v] /\ step'[v] = step[v]
    BY <1>2, <1>5 DEF CalmInv
  <2>2. step[v] \in {"findDispatch", "findOutbox"} => Working(v)
    BY DEF Working, Outside, ReserveSteps
  <2>3. step[v] \in {"findDispatch", "findOutbox"} => Identifier(v) \in Identifiers \ {i}
    BY <1>3, <1>5, <2>2, AloneAtWork, EventOfHandler DEF CalmInv, OnceInv, FlowInv, KeyInv
  <2> QED
    BY <1>2, <2>1, <2>3 DEF Undisturbed
<1>6. \A j \in Identifiers : Founded(j)'
  BY DEF CalmInv, Founded
<1> QED
  BY <1>1, <1>4, <1>5, <1>6 DEF CalmInv

(* The reads, which find what an undisturbed handler may go on with.       *)
LEMMA CalmFind ==
  ASSUME CalmInv, Calm, OnceInv', NEW w \in Workers, Find(w)
  PROVE  CalmInv'
<1> PICK i : i = Identifier(w)
  OBVIOUS
<1>1. step[w] \in Active /\ UNCHANGED <<deliveryVars, keys, documents>>
  BY DEF Find, FindGeneration, FindDispatch, FindOutbox, Active, WorkSteps
<1>2. UNCHANGED <<generations, dispatches, outbox>>
  BY <1>1 DEF documents
<1>3. i \in Identifiers /\ found[w] \in Found /\ Founded(i) /\ Undisturbed(w)
  BY <1>1, AtWork DEF CalmInv, OnceInv
<1>4. Founded(i)'
  BY <1>2, <1>3 DEF Founded
<1>5. found \in [Workers -> Found]
  BY DEF CalmInv, OnceInv, FlowInv, Types
<1>6. CASE FindGeneration(w)
  <2>1. /\ found' = [found EXCEPT ![w].generation = generations[i]]
        /\ Done(w, "findDispatch")
    BY <1>6 DEF FindGeneration
  <2>2. /\ found'[w].generation = generations[i]
        /\ \A v \in Workers : v # w => found'[v] = found[v]
    BY <1>3, <1>5, <2>1 DEF Found
  <2> QED
    BY <1>1, <1>2, <1>4, <2>1, <2>2, CalmWork DEF Active, WorkSteps
<1>7. CASE FindDispatch(w)
  <2>1. /\ found' = [found EXCEPT ![w].dispatch = dispatches[i]]
        /\ Done(w, "findOutbox") /\ step[w] = "findDispatch"
    BY <1>7 DEF FindDispatch
  <2>2. /\ found'[w].dispatch = dispatches[i]
        /\ found'[w].generation = generations[i]
        /\ \A v \in Workers : v # w => found'[v] = found[v]
    BY <1>3, <1>5, <2>1 DEF Found, Undisturbed
  <2> QED
    BY <1>1, <1>2, <1>4, <2>1, <2>2, CalmWork DEF Active, WorkSteps
<1>8. CASE FindOutbox(w)
  <2>1. step[w] = "findOutbox"
    BY <1>8 DEF FindOutbox
  <2> PICK f : f = [found[w] EXCEPT !.outbox = outbox[i]]
    OBVIOUS
  <2>2. /\ f \in Found /\ f.outbox = outbox[i]
        /\ f.generation = generations[i] /\ f.dispatch = dispatches[i]
    BY <1>3, <2>1 DEF Found, Undisturbed, CalmInv, OnceInv, FlowInv, Types
  <2> PICK next : next = IF f.generation # NoGeneration THEN NextWrite(f) ELSE "collect"
    OBVIOUS
  <2>3. Done(w, next) /\ found' = [found EXCEPT ![w] = f]
    BY <1>3, <1>8, <2>2 DEF FindOutbox, Founded
  <2>4. next \in Active \ {"findDispatch", "findOutbox"}
    BY <2>2, NextWriteResult DEF Active, WorkSteps, AfterGeneration
  <2> QED
    BY <1>1, <1>2, <1>4, <1>5, <2>3, <2>4, CalmWork
<1> QED
  BY <1>6, <1>7, <1>8 DEF Find

(* The writes, which a handler that works alone makes on its own event.    *)
LEMMA CalmComplete ==
  ASSUME CalmInv, Calm, OnceInv', NEW w \in Workers, Complete(w)
  PROVE  CalmInv'
<1> PICK i : i = Identifier(w)
  OBVIOUS
<1>1. step[w] \in Active /\ UNCHANGED <<deliveryVars, keys, payload>>
  BY DEF Complete, Collect, WriteArtifact, SaveGeneration, SaveDispatch, SaveOutbox, Active,
     WorkSteps
<1>2. /\ i \in Identifiers /\ found[w] \in Found /\ payload[i] \in Payloads /\ Holds(w, i)
      /\ Founded(i)
  BY <1>1, AtWork DEF CalmInv, OnceInv
<1> USE DEF CalmInv, OnceInv, FlowInv, Types
<1>3. CASE Collect(w)
  <2>1. PICK next \in {"writeArtifact", "saveGeneration"} : Done(w, next)
    BY <1>3 DEF Collect
  <2>2. PICK g : found' = [found EXCEPT ![w].generation = g]
    BY <1>3 DEF Collect
  <2>3. UNCHANGED <<generations, dispatches, outbox>>
    BY <1>3 DEF Collect, documents
  <2>4. Founded(i)' /\ \A v \in Workers : v # w => found'[v] = found[v]
    BY <1>2, <2>2, <2>3 DEF Founded
  <2> QED
    BY <1>1, <2>1, <2>3, <2>4, CalmWork DEF Active, WorkSteps
<1>4. CASE WriteArtifact(w)
  BY <1>1, <1>2, <1>4, CalmWork DEF WriteArtifact, Founded, Active, WorkSteps
<1>5. CASE SaveGeneration(w)
  <2> PICK next : next = NextWrite(found[w])
    OBVIOUS
  <2>1. next \in Active \ {"findDispatch", "findOutbox"}
    BY <1>2, NextWriteResult DEF Active, WorkSteps, AfterGeneration
  <2>2. /\ generations' = [generations EXCEPT ![i] = found[w].generation]
        /\ UNCHANGED <<found, dispatches, outbox>> /\ Done(w, next)
    BY <1>5 DEF SaveGeneration
  <2>3. found[w].generation # NoGeneration
    BY <1>2, <1>5 DEF SaveGeneration, Holds, AfterOutcome
  <2>4. Founded(i)'
    BY <1>2, <2>2, <2>3 DEF Founded
  <2> QED
    BY <1>1, <1>2, <2>1, <2>2, <2>4, CalmWork
<1>6. CASE SaveDispatch(w)
  <2> PICK f : f = [found[w] EXCEPT !.dispatch = "PENDING"]
    OBVIOUS
  <2> PICK next : next = NextWrite(f)
    OBVIOUS
  <2>1. f \in Found
    BY <1>2 DEF Found, Dispatches
  <2>2. next \in Active \ {"findDispatch", "findOutbox"}
    BY <2>1, NextWriteResult DEF Active, WorkSteps, AfterGeneration
  <2>3. /\ dispatches' = [dispatches EXCEPT ![i] = "PENDING"]
        /\ found' = [found EXCEPT ![w] = f]
        /\ UNCHANGED <<generations, outbox>> /\ Done(w, next)
    BY <1>6 DEF SaveDispatch
  <2>4. generations[i] # NoGeneration
    BY <1>2, <1>6 DEF SaveDispatch, Holds, AfterOutcome, AfterGeneration
  <2>5. Founded(i)' /\ \A v \in Workers : v # w => found'[v] = found[v]
    BY <2>3, <2>4 DEF Founded
  <2> QED
    BY <1>1, <1>2, <2>2, <2>3, <2>5, CalmWork
<1>7. CASE SaveOutbox(w)
  <2>1. PICK entry, f, next : /\ outbox' = [outbox EXCEPT ![i] = entry]
                              /\ found' = [found EXCEPT ![w] = f]
                              /\ Done(w, next) /\ next = Repair(f)
    BY <1>7 DEF SaveOutbox
  <2>2. next \in Active \ {"findDispatch", "findOutbox"}
    BY <2>1 DEF Repair, Active, WorkSteps
  <2>3. UNCHANGED <<generations, dispatches>>
    BY <1>7 DEF SaveOutbox
  <2>4. generations[i] # NoGeneration
    BY <1>2, <1>7 DEF SaveOutbox, Holds, AfterOutcome, AfterGeneration
  <2>5. Founded(i)' /\ \A v \in Workers : v # w => found'[v] = found[v]
    BY <2>1, <2>3, <2>4 DEF Founded
  <2> QED
    BY <1>1, <1>2, <2>1, <2>2, <2>3, <2>5, CalmWork
<1> QED
  BY <1>3, <1>4, <1>5, <1>6, <1>7 DEF Complete

LEMMA CalmAnnounce ==
  ASSUME CalmInv, Calm, OnceInv', NEW w \in Workers, Announce(w)
  PROVE  CalmInv'
<1> PICK i : i = Identifier(w)
  OBVIOUS
<1>1. /\ step[w] \in Active /\ step[w] \in AfterGeneration
      /\ UNCHANGED <<deliveryVars, keys, payload, found, generations>>
  BY DEF Announce, Publish, MarkDispatch, MarkOutbox, Active, WorkSteps, AfterGeneration, documents
<1>2. i \in Identifiers /\ Holds(w, i)
  BY <1>1, AtWork DEF CalmInv, OnceInv
<1>3. generations[i] # NoGeneration
  BY <1>1, <1>2 DEF Holds, AfterOutcome, AfterGeneration
<1>4. Founded(i)'
  BY <1>1, <1>3 DEF Founded
<1>5. PICK next \in {"markDispatch", "markOutbox", "settle"} : Done(w, next)
  BY DEF Announce, Publish, MarkDispatch, MarkOutbox
<1>6. \A j \in Identifiers \ {i} : dispatches'[j] = dispatches[j] /\ outbox'[j] = outbox[j]
  BY DEF Announce, Publish, MarkDispatch, MarkOutbox, documents, CalmInv, OnceInv, FlowInv, Types
<1> QED
  BY <1>1, <1>2, <1>4, <1>5, <1>6, CalmWork DEF Active, WorkSteps

(* Steps that leave the documents and the work of the others alone.        *)
LEMMA CalmElsewhere ==
  ASSUME CalmInv, OnceInv', disturbed' = disturbed, UNCHANGED documents,
         \A v \in Workers :
           \/ step'[v] \notin {"release", "findDispatch", "findOutbox"}
           \/ SameHandler(v)
  PROVE  CalmInv'
<1>1. UNCHANGED <<generations, dispatches, outbox>>
  BY DEF documents
<1>2. \A v \in Workers : Undisturbed(v)'
  BY <1>1 DEF CalmInv, Undisturbed, SameHandler, Identifier
<1>3. \A j \in Identifiers : Founded(j)'
  BY <1>1 DEF CalmInv, Founded
<1> QED
  BY <1>2, <1>3 DEF CalmInv

LEMMA CalmLife ==
  ASSUME CalmInv, Calm, OnceInv', NEW w \in Workers,
         UseKey(w) \/ Reply(w) \/ \E m \in Messages : Receive(w, m)
  PROVE  CalmInv'
<1> USE DEF CalmInv, OnceInv, FlowInv, Types
<1>1. CASE UseKey(w)
  <2>1. step[w] # "release" /\ UNCHANGED <<deliveryVars, found, documents>>
    BY <1>1 DEF UseKey, Undisturbed
  <2>2. Reserve(w) \/ SettleKey(w)
    BY <1>1, <2>1 DEF UseKey, ReleaseKey
  <2>3. PICK s \in {"reserved", "look", "ok", "error", "take"} :
          step' = [step EXCEPT ![w] = s] /\ disturbed' = disturbed
    BY <2>2
    DEF Reserve, CreateKey, LookAtKey, TakeKey, SettleKey, AfterLook, Done, Goto, Calm
  <2>4. \A v \in Workers : (step'[v] = s /\ v = w) \/ SameHandler(v)
    BY <2>1, <2>3 DEF SameHandler, deliveryVars
  <2> QED
    BY <2>1, <2>3, <2>4, CalmElsewhere
<1>2. CASE Reply(w)
  <2>1. /\ Answer(w) /\ found' = [found EXCEPT ![w] = NothingFound]
        /\ UNCHANGED <<disturbed, documents>>
    BY <1>2 DEF Reply, Forget, Answer, keyVars
  <2>2. /\ step' = [step EXCEPT ![w] = "idle"] /\ held' = [held EXCEPT ![w] = NoMessage]
    BY <2>1, AnswerKey
  <2>3. \A v \in Workers : (step'[v] = "idle" /\ v = w) \/ SameHandler(v)
    BY <2>1, <2>2 DEF SameHandler, KeyInv, KeyOK, LeasedKeyTypeOK, DeliveryTypeOK
  <2> QED
    BY <2>1, <2>3, CalmElsewhere
<1>3. CASE \E m \in Messages : Receive(w, m)
  <2>1. PICK m \in Messages : Receive(w, m)
    BY <1>3
  <2>2. ReceiveMessage(w, m) /\ UNCHANGED <<found, documents, disturbed>>
    BY <2>1 DEF Receive, ReceiveMessage, keyVars
  <2>3. PICK s \in {"create", "error"} : step' = [step EXCEPT ![w] = s]
    BY <2>2, ReceiveKey
  <2>4. held' = [held EXCEPT ![w] = m]
    BY <2>2, ReceiveKey
  <2>5. \A v \in Workers : (step'[v] = s /\ v = w) \/ SameHandler(v)
    BY <2>2, <2>3, <2>4 DEF SameHandler, KeyInv, KeyOK, LeasedKeyTypeOK, DeliveryTypeOK
  <2> QED
    BY <2>2, <2>3, <2>5, CalmElsewhere
<1> QED
  BY <1>1, <1>2, <1>3

LEMMA CalmEnvironment ==
  ASSUME CalmInv, Calm, OnceInv',
         (\E i \in Identifiers : LeaseRunsOut(i)) \/ Subscription \/ UNCHANGED vars
  PROVE  CalmInv'
<1>1. UNCHANGED <<step, found, disturbed, held, documents>>
  <2>1. CASE \E i \in Identifiers : LeaseRunsOut(i)
    BY <2>1 DEF LeaseRunsOut, LeaseExpires, Calm, deliveryVars
  <2>2. CASE Subscription
    BY <2>2, SubscriptionType
    DEF Subscription, keyVars, CalmInv, OnceInv, FlowInv, KeyInv, KeyOK, LeasedKeyTypeOK
  <2>3. CASE UNCHANGED vars
    BY <2>3 DEF vars, keyVars, deliveryVars
  <2> QED
    BY <2>1, <2>2, <2>3
<1> QED
  BY <1>1, CalmElsewhere DEF SameHandler

LEMMA CalmStep ==
  ASSUME Calm
  PROVE  CalmInv /\ [Next]_vars => CalmInv'
<1> SUFFICES ASSUME CalmInv, [Next]_vars PROVE CalmInv'
  OBVIOUS
<1>1. OnceInv'
  BY StepOnce DEF CalmInv
<1>2. \A w \in Workers : ~RequestFails(w) /\ ~Die(w)
  BY DEF Calm, RequestFails, Die, Crash
<1>3. CASE \E w \in Workers : StepOf(w)
  BY <1>1, <1>2, <1>3, CalmFind, CalmComplete, CalmAnnounce, CalmLife DEF StepOf, Handle
<1>4. CASE (\E i \in Identifiers : LeaseRunsOut(i)) \/ Subscription \/ UNCHANGED vars
  BY <1>1, <1>4, CalmEnvironment
<1> QED
  BY <1>3, <1>4 DEF Next, StepOf

(* However often an event is pushed, by however many messages and however  *)
(* far their deliveries overlap, its outcome is published once when no     *)
(* request fails: never twice, and exactly once when it is acknowledged    *)
(* (RULE-FE-005).                                                          *)
THEOREM PublishedOnceWhenCalm ==
  ASSUME Calm
  PROVE  Spec => [](/\ \A i \in Identifiers : published[i][Due(i)] <= 1
                    /\ \A m \in WellFormed : sub[m] = "acked" =>
                         published[IdentifierOf[m]][Due(IdentifierOf[m])] = 1)
<1>1. Init => CalmInv
  <2> SUFFICES ASSUME Init PROVE CalmInv
    OBVIOUS
  <2>1. \A w \in Workers : step[w] = "idle"
    BY DEF Init, LeasedKeyInit
  <2> QED
    BY <2>1, InitOnce DEF Init, LeasedKeyInit, CalmInv, Undisturbed, Founded
<1>2. CalmInv => /\ \A i \in Identifiers : published[i][Due(i)] <= 1
                 /\ \A m \in WellFormed : sub[m] = "acked" =>
                      published[IdentifierOf[m]][Due(IdentifierOf[m])] = 1
  <2> SUFFICES ASSUME CalmInv
               PROVE  /\ \A i \in Identifiers : published[i][Due(i)] <= 1
                      /\ \A m \in WellFormed : sub[m] = "acked" =>
                           published[IdentifierOf[m]][Due(IdentifierOf[m])] = 1
    OBVIOUS
  <2>1. ASSUME NEW i \in Identifiers
        PROVE  published[i][Due(i)] <= 1 /\ published[i][Due(i)] \in Nat
    BY <2>1, DueResult DEF CalmInv, OnceInv, Once, Publications, FlowInv, Types
  <2>2. ASSUME NEW m \in WellFormed, sub[m] = "acked"
        PROVE  published[IdentifierOf[m]][Due(IdentifierOf[m])] = 1
    <3>1. PICK i \in Identifiers : i = IdentifierOf[m]
      BY LeasedKeyAssumption
    <3>2. published[i][Due(i)] > 0
      BY <2>2, <3>1 DEF CalmInv, OnceInv, FlowInv, AckedIsTold, Told
    <3> QED
      BY <2>1, <3>1, <3>2
  <2> QED
    BY <2>1, <2>2
<1> QED
  BY <1>1, <1>2, CalmStep, PTL DEF Spec

=================================================================================
