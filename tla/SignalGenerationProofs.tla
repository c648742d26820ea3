------------------------- MODULE SignalGenerationProofs -------------------------
(***************************************************************************)
(* Theorems about SignalGeneration, for any number of messages, events,    *)
(* handlers, deliveries and retries.                                       *)
(***************************************************************************)
EXTENDS SignalGeneration, TLAPS

---------------------------------------------------------------------------------
(* The invariant, in two parts: what a handler knows whatever fails, and   *)
(* what an event is like that nothing has disturbed.                       *)

Announced(i) == published[i]["signal.generated"] > 0

ToldFailed(i) == published[i]["signal.generation.failed"] > 0

\* A command is made of the event i.
Commanded(i) == payload[i] \in {"invalid", "valid"}

\* The steps of a handler that holds the key and has not told of the outcome.
Untold ==
  {"resolve", "infer", "writeSignals", "saveRun", "findDispatch", "publishGenerated",
   "saveFailed", "findFailed", "publishFailed"}

Undecided == Untold \cup {"terminate"}

Verified ==
  {"resolve", "infer", "writeSignals", "saveRun", "findDispatch", "publishGenerated",
   "saveDispatch"}

Stored == {"saveRun", "findDispatch", "publishGenerated"}

IsAt(w, i) == held[w] # NoMessage /\ Identifier(w) = i

Knows(i, w) ==
  /\ step[w] \in Verified => payload[i] = "valid"
  /\ step[w] \in Stored => i \in signals
  /\ step[w] \in {"publishMalformed", "saveMalformed"} => payload[i] = "malformed"

\* Signals are announced only for a verified input and after they were stored.
GeneratedWasStored ==
  \A i \in Identifiers : Announced(i) => i \in signals /\ payload[i] = "valid"

FlowInv ==
  /\ TypeOK
  /\ GeneratedWasStored
  /\ \A i \in Identifiers, w \in Workers : IsAt(w, i) => Knows(i, w)

(* A key that is there, with no handler between its creation and the       *)
(* publication, means that the outcome was told of.                        *)
Accounted(i) == Reported(i) /\ (runs[i] = "failed" => ToldFailed(i))

Marks(i) ==
  /\ keys[i] = "generated" => Reported(i)
  /\ keys[i] = "failed" => ToldFailed(i)

\* What is so of the event i while nobody handles it.
Rests(i) ==
  /\ Marks(i)
  /\ keys[i] # "absent" => Accounted(i)
  /\ i \notin doubted /\ Announced(i) => keys[i] # "absent"

\* What is so of the event i while w handles it.
Fits(i, w) ==
  /\ Marks(i)
  /\ keys[i] # "absent" => step[w] \in Undecided \/ Accounted(i)
  /\ i \notin doubted /\ Announced(i) =>
       keys[i] # "absent" /\ step[w] \notin Undecided \cup {"saveFailedDispatch"}
  /\ step[w] \in Untold => keys[i] = "pending"
  /\ step[w] \in {"findDispatch", "publishGenerated"} => runs[i] = "generated"
  /\ step[w] \in {"duplicate", "findRun", "confirmGenerated", "confirmFailed", "saveDispatch"} =>
       keys[i] # "absent"
  /\ step[w] \in {"confirmFailed", "saveFailedDispatch", "saveMalformed"} => ToldFailed(i)
  /\ step[w] = "ok" /\ Commanded(i) => Reported(i)

AcksAreTrue(i) ==
  \A m \in Messages : IdentifierOf[m] = i /\ sub[m] = "acked" /\ Commanded(i) => Reported(i)

Quiet(i) ==
  /\ \A w, v \in Workers : IsAt(w, i) /\ IsAt(v, i) => w = v
  /\ \A w \in Workers : IsAt(w, i) => Fits(i, w)
  /\ (\A w \in Workers : ~IsAt(w, i)) => Rests(i)
  /\ AcksAreTrue(i)

QuietInv == FlowInv /\ \A i \in Identifiers \ disturbed : Quiet(i)

(* Of what can be decoded only an empty universe makes no command.         *)
LEMMA CommandedEvents == Decodable \ {"empty"} = {"invalid", "valid"}
  BY DEF Decodable, Payloads

LEMMA QuietInvImplies ==
  ASSUME QuietInv
  PROVE  TypeOK /\ GeneratedWasStored /\ AckedIsReported /\ DispatchIsTrue
<1>1. TypeOK /\ GeneratedWasStored
  BY DEF QuietInv, FlowInv
<1>2. AckedIsReported
  BY SignalAssumption, CommandedEvents
  DEF QuietInv, Quiet, AcksAreTrue, Commanded, AckedIsReported
<1>3. ASSUME NEW i \in Identifiers \ disturbed PROVE Marks(i)
  BY DEF QuietInv, Quiet, Rests, Fits
<1>4. DispatchIsTrue
  BY <1>3 DEF DispatchIsTrue, Marks, ToldFailed
<1> QED
  BY <1>1, <1>2, <1>4

---------------------------------------------------------------------------------
(* A step of the handler w that stays with its event i and touches nothing *)
(* of the others'.                                                         *)

OnlyAbout(w, i) ==
  /\ \A v \in Workers \ {w} : step'[v] = step[v]
  /\ UNCHANGED <<deliveryVars, payload>>
  /\ \A j \in Identifiers \ {i} :
       keys'[j] = keys[j] /\ runs'[j] = runs[j] /\ published'[j] = published[j]
  /\ \A j \in Identifiers \ {i} : j \in signals' <=> j \in signals
  /\ signals \subseteq signals'
  /\ disturbed \subseteq disturbed' /\ doubted \subseteq doubted'

LEMMA HandlerEvent ==
  ASSUME TypeOK, NEW w \in Workers, step[w] # "idle"
  PROVE  held[w] \in Messages /\ Identifier(w) \in Identifiers
  BY SignalAssumption DEF TypeOK, DeliveryTypeOK, Identifier

LEMMA ByHandler ==
  ASSUME QuietInv, TypeOK', NEW w \in Workers, step[w] # "idle",
         NEW i \in Identifiers, i = Identifier(w), OnlyAbout(w, i),
         Reported(i) => Reported(i)',
         Announced(i)' => i \in signals' /\ payload[i] = "valid",
         Knows(i, w)',
         i \notin disturbed' => Fits(i, w)'
  PROVE  QuietInv'
<1>1. IsAt(w, i) /\ \A v \in Workers, j \in Identifiers : IsAt(v, j)' <=> IsAt(v, j)
  BY DEF QuietInv, FlowInv, TypeOK, IsAt, Identifier, OnlyAbout, deliveryVars
<1>2. GeneratedWasStored'
  BY DEF QuietInv, FlowInv, GeneratedWasStored, OnlyAbout, Announced
<1>3. ASSUME NEW j \in Identifiers, NEW v \in Workers, IsAt(v, j) PROVE Knows(j, v)'
  <2>1. CASE v = w
    <3>1. j = i
      BY <1>3, <2>1 DEF IsAt
    <3> QED
      BY <2>1, <3>1
  <2>2. CASE v # w
    BY <1>3, <2>2 DEF QuietInv, FlowInv, Knows, OnlyAbout
  <2> QED
    BY <2>1, <2>2
<1>4. ASSUME NEW j \in Identifiers \ disturbed', j # i PROVE Quiet(j)'
  <2>1. /\ Quiet(j)
        /\ keys'[j] = keys[j] /\ runs'[j] = runs[j] /\ published'[j] = published[j]
        /\ payload' = payload /\ sub' = sub
        /\ j \notin doubted' => j \notin doubted
    BY <1>4 DEF QuietInv, OnlyAbout, deliveryVars
  <2>2. /\ Marks(j) <=> Marks(j)'
        /\ Accounted(j) <=> Accounted(j)'
        /\ Announced(j) <=> Announced(j)'
        /\ ToldFailed(j) <=> ToldFailed(j)'
        /\ Reported(j) <=> Reported(j)'
        /\ Commanded(j) <=> Commanded(j)'
    BY <2>1 DEF Marks, Accounted, Announced, ToldFailed, Reported, Commanded
  <2>3. ASSUME NEW v \in Workers, IsAt(v, j) PROVE Fits(j, v)'
    <3>1. step'[v] = step[v] /\ Fits(j, v)
      BY <1>4, <2>1, <2>3 DEF Quiet, OnlyAbout, IsAt
    <3> QED
      BY <2>1, <2>2, <3>1 DEF Fits
  <2>4. Rests(j) => Rests(j)'
    BY <2>1, <2>2 DEF Rests
  <2>5. AcksAreTrue(j)'
    BY <2>1, <2>2 DEF Quiet, AcksAreTrue
  <2> QED
    BY <1>1, <2>1, <2>3, <2>4, <2>5 DEF Quiet
<1>5. ASSUME i \notin disturbed' PROVE Quiet(i)'
  <2>1. Quiet(i)
    BY <1>5 DEF QuietInv, OnlyAbout
  <2>2. \A v \in Workers : IsAt(v, i) => v = w
    BY <1>1, <2>1 DEF Quiet
  <2>3. AcksAreTrue(i)'
    BY <2>1 DEF Quiet, AcksAreTrue, Commanded, OnlyAbout, deliveryVars
  <2> QED
    BY <1>1, <1>5, <2>1, <2>2, <2>3 DEF Quiet
<1> QED
  BY <1>1, <1>2, <1>3, <1>4, <1>5 DEF QuietInv, FlowInv

---------------------------------------------------------------------------------
(* Where a failed request leads.                                           *)

LEMMA OnErrorResult ==
  ASSUME NEW w \in Workers
  PROVE  /\ step[w] \in {"duplicate", "findRun", "confirmGenerated", "confirmFailed",
                         "publishMalformed", "saveMalformed"} => OnError(w) = "ok"
         /\ step[w] \in {"resolve", "infer", "writeSignals"} => OnError(w) = "saveFailed"
         /\ step[w] = "saveFailed" => OnError(w) = "findFailed"
         /\ step[w] = "findDispatch" => OnError(w) = "publishGenerated"
         /\ step[w] \in {"saveRun", "findFailed", "publishGenerated", "publishFailed"} =>
              OnError(w) = "terminate"
         /\ step[w] = "saveFailedDispatch" => OnError(w) \in {"ok", "terminate"}
         /\ step[w] \in {"acquire", "saveDispatch", "terminate"} => OnError(w) = "error"
  BY DEF OnError, Finalize

LEMMA FinalizeResult ==
  ASSUME NEW code
  PROVE  Finalize(code) \in {"ok", "terminate"}
  BY DEF Finalize

---------------------------------------------------------------------------------
(* The actions that move the handler and change no document.               *)

AllSteps == {"idle", "ok", "error"} \cup Reads \cup Publications \cup Writes

Elsewhere == <<deliveryVars, payload, documents, published>>

LEMMA MoveQuiet ==
  ASSUME QuietInv, NEW w \in Workers, step[w] # "idle",
         NEW i \in Identifiers, i = Identifier(w),
         NEW s \in AllSteps \ {"idle"}, step' = [step EXCEPT ![w] = s],
         UNCHANGED Elsewhere,
         reason' \in [Workers -> ReasonCodes], tries' \in [Workers -> 0..MaxRetries],
         disturbed' \in {disturbed, disturbed \cup {i}}, doubted' = doubted,
         Knows(i, w) => Knows(i, w)',
         i \notin disturbed' /\ Fits(i, w) => Fits(i, w)'
  PROVE  QuietInv'
<1>1. TypeOK /\ IsAt(w, i) /\ Knows(i, w)
  BY DEF QuietInv, FlowInv, TypeOK, IsAt
<1>2. TypeOK'
  BY <1>1 DEF TypeOK, DeliveryTypeOK, Elsewhere, deliveryVars, documents, AllSteps
<1>3. OnlyAbout(w, i)
  BY <1>1 DEF OnlyAbout, TypeOK, Elsewhere, documents
<1>4. Reported(i) => Reported(i)'
  BY DEF Reported, Elsewhere
<1>5. Announced(i)' => i \in signals' /\ payload[i] = "valid"
  BY DEF QuietInv, FlowInv, GeneratedWasStored, Announced, Elsewhere, documents
<1>6. i \notin disturbed' => Fits(i, w)
  BY <1>1 DEF QuietInv, Quiet
<1> QED
  BY <1>1, <1>2, <1>3, <1>4, <1>5, <1>6, ByHandler

(* The parts of Fits that a move leaves as they are.                       *)
LEMMA MoveKeeps ==
  ASSUME UNCHANGED Elsewhere, doubted' = doubted, NEW i \in Identifiers
  PROVE  /\ Marks(i) <=> Marks(i)'
         /\ Accounted(i) <=> Accounted(i)'
         /\ Announced(i) <=> Announced(i)'
         /\ ToldFailed(i) <=> ToldFailed(i)'
         /\ Reported(i) <=> Reported(i)'
         /\ Commanded(i) <=> Commanded(i)'
         /\ keys'[i] = keys[i] /\ runs'[i] = runs[i] /\ payload'[i] = payload[i]
         /\ i \in signals' <=> i \in signals
         /\ i \in doubted' <=> i \in doubted
  BY DEF Marks, Accounted, Announced, ToldFailed, Reported, Commanded, Elsewhere, documents

(* Where a handler may move to of its own.                                 *)
LEMMA MovesAllowed ==
  ASSUME QuietInv, NEW w \in Workers, NEW i \in Identifiers, i = Identifier(w),
         NEW s \in AllSteps \ {"idle"}, step' = [step EXCEPT ![w] = s],
         UNCHANGED Elsewhere,
         reason' \in [Workers -> ReasonCodes], tries' \in [Workers -> 0..MaxRetries],
         disturbed' = disturbed, doubted' = doubted,
         \/ step[w] = "duplicate" /\ s \in {"findRun", "ok"}
         \/ /\ step[w] = "findRun"
            /\ \/ s \in {"ok", "confirmGenerated"}
               \/ s = "confirmFailed" /\ runs[i] = "failed"
         \/ step[w] \in {"confirmGenerated", "confirmFailed"} /\ s = "ok"
         \/ step[w] = "resolve" /\ s \in {"infer", "saveFailed"}
         \/ step[w] = "infer" /\ s \in {"writeSignals", "saveFailed"}
         \/ step[w] = "writeSignals" /\ s = "saveFailed"
         \/ step[w] \in {"saveRun", "findFailed", "publishGenerated", "publishFailed"}
              /\ s = "terminate"
         \/ step[w] = "findDispatch" /\ (s = "publishGenerated" \/ keys[i] = "generated")
         \/ step[w] = "saveFailed" /\ s = "findFailed"
         \/ /\ step[w] = "findFailed"
            /\ s = "publishFailed" \/ keys[i] \in {"generated", "failed"}
         \/ step[w] = "saveFailedDispatch" /\ s \in {"ok", "terminate"}
         \/ step[w] \in {"publishMalformed", "saveMalformed"} /\ s = "ok"
         \/ step[w] \in {"acquire", "saveDispatch"} /\ s = "error"
         \/ step[w] = "acquire" /\ s = "duplicate" /\ keys[i] # "absent"
         \/ step[w] \in Publications /\ s = step[w],
         step[w] = "findDispatch" => s \in {"ok", "publishGenerated"},
         step[w] = "findFailed" => s \in {"ok", "terminate", "publishFailed"}
  PROVE  QuietInv'
<1>1. step[w] # "idle" /\ TypeOK /\ step'[w] = s
  BY DEF QuietInv, FlowInv, TypeOK, Publications
<1>2. Knows(i, w) => Knows(i, w)'
  BY <1>1, MoveKeeps DEF Knows, Verified, Stored, Publications
<1>3. ASSUME Fits(i, w), Knows(i, w) PROVE Fits(i, w)'
  <2>1. Accounted(i) => Reported(i)
    BY DEF Accounted
  <2>2. Accounted(i) /\ runs[i] = "failed" => ToldFailed(i)
    BY DEF Accounted
  <2>3. ToldFailed(i) => Reported(i)
    BY DEF ToldFailed, Reported, Events
  <2> QED
    BY <1>1, <1>3, <2>1, <2>2, <2>3, MoveKeeps
       DEF Fits, Knows, Untold, Undecided, Commanded, Publications
<1>4. Knows(i, w)
  BY <1>1 DEF QuietInv, FlowInv, IsAt, TypeOK
<1> QED
  BY <1>1, <1>2, <1>3, <1>4, MoveQuiet

LEMMA StepOfHandler ==
  ASSUME TypeOK, NEW w \in Workers, step[w] # "idle"
  PROVE  \E i \in Identifiers : i = Identifier(w) /\ IsAt(w, i)
  BY HandlerEvent DEF IsAt, TypeOK

LEMMA DuplicateQuiet ==
  ASSUME QuietInv, NEW w \in Workers, Duplicate(w)
  PROVE  QuietInv'
<1>1. step[w] = "duplicate" /\ TypeOK
  BY DEF Duplicate, QuietInv, FlowInv
<1>2. PICK i \in Identifiers : i = Identifier(w)
  BY <1>1, HandlerEvent
<1>3. PICK s \in {"findRun", "ok"} : step' = [step EXCEPT ![w] = s]
  BY <1>1, OnErrorResult DEF Duplicate, Done, Goto
<1>4. UNCHANGED <<Elsewhere, reason, tries, histories>>
  BY DEF Duplicate, Done, Elsewhere
<1> QED
  BY <1>1, <1>2, <1>3, <1>4, MovesAllowed DEF TypeOK, histories, AllSteps, Reads

LEMMA FindRunQuiet ==
  ASSUME QuietInv, NEW w \in Workers, FindRun(w)
  PROVE  QuietInv'
<1>1. step[w] = "findRun" /\ TypeOK
  BY DEF FindRun, QuietInv, FlowInv
<1>2. PICK i \in Identifiers : i = Identifier(w)
  BY <1>1, HandlerEvent
<1>3. runs[i] \in {"absent", "generated", "failed"}
  BY <1>1 DEF TypeOK
<1> DEFINE next == CASE runs[i] = "absent" -> "ok"
                     [] runs[i] = "generated" -> "confirmGenerated"
                     [] runs[i] = "failed" -> "confirmFailed"
<1>4. /\ runs[i] = "absent" => next = "ok"
      /\ runs[i] = "generated" => next = "confirmGenerated"
      /\ runs[i] = "failed" => next = "confirmFailed"
  OBVIOUS
<1>5. PICK s \in {next, OnError(w)} : step' = [step EXCEPT ![w] = s]
  BY <1>2 DEF FindRun, Done, Goto
<1> HIDE DEF next
<1>6. s \in {"ok", "confirmGenerated"} \/ (s = "confirmFailed" /\ runs[i] = "failed")
  BY <1>1, <1>3, <1>4, <1>5, OnErrorResult
<1>7. s \in AllSteps \ {"idle"}
  BY <1>6 DEF AllSteps, Writes
<1>8. UNCHANGED <<Elsewhere, reason, tries, histories>>
  BY DEF FindRun, Done, Elsewhere
<1> QED
  BY <1>1, <1>2, <1>5, <1>6, <1>7, <1>8, MovesAllowed DEF TypeOK, histories

LEMMA ResolveQuiet ==
  ASSUME QuietInv, NEW w \in Workers, Resolve(w) \/ Infer(w)
  PROVE  QuietInv'
<1>1. step[w] \in {"resolve", "infer"} /\ TypeOK
  BY DEF Resolve, Infer, QuietInv, FlowInv
<1>2. PICK i \in Identifiers : i = Identifier(w)
  BY <1>1, HandlerEvent
<1>3. PICK s \in {"infer", "writeSignals", "saveFailed"} :
        /\ step' = [step EXCEPT ![w] = s]
        /\ step[w] = "resolve" => s \in {"infer", "saveFailed"}
        /\ step[w] = "infer" => s \in {"writeSignals", "saveFailed"}
  BY DEF Resolve, Infer, FailFor, Goto
<1>4. UNCHANGED <<Elsewhere, tries, histories>> /\ reason' \in [Workers -> ReasonCodes]
  BY <1>1 DEF Resolve, Infer, FailFor, Elsewhere, TypeOK, ReasonCodes
<1>5. tries' \in [Workers -> 0..MaxRetries] /\ disturbed' = disturbed /\ doubted' = doubted
  BY <1>1, <1>4 DEF TypeOK, histories
<1>6. s \in AllSteps \ {"idle"} /\ UNCHANGED Elsewhere
  BY <1>4 DEF AllSteps, Reads, Writes
<1> QED
  BY <1>1, <1>2, <1>3, <1>4, <1>5, <1>6, MovesAllowed

LEMMA FindDispatchQuiet ==
  ASSUME QuietInv, NEW w \in Workers, FindDispatch(w)
  PROVE  QuietInv'
<1>1. step[w] = "findDispatch" /\ TypeOK
  BY DEF FindDispatch, QuietInv, FlowInv
<1>2. PICK i \in Identifiers : i = Identifier(w)
  BY <1>1, HandlerEvent
<1>3. PICK s \in {"ok", "publishGenerated"} :
        /\ step' = [step EXCEPT ![w] = s]
        /\ s = "publishGenerated" \/ keys[i] = "generated"
  BY <1>1, <1>2, OnErrorResult DEF FindDispatch, Done, Goto
<1>4. UNCHANGED <<Elsewhere, reason, tries, histories>>
  BY DEF FindDispatch, Done, Elsewhere
<1> QED
  BY <1>1, <1>2, <1>3, <1>4, MovesAllowed DEF TypeOK, histories, AllSteps, Publications

LEMMA FindFailedQuiet ==
  ASSUME QuietInv, NEW w \in Workers, FindFailed(w)
  PROVE  QuietInv'
<1>1. step[w] = "findFailed" /\ TypeOK
  BY DEF FindFailed, QuietInv, FlowInv
<1>2. PICK i \in Identifiers : i = Identifier(w)
  BY <1>1, HandlerEvent
<1>3. PICK s \in {"ok", "terminate", "publishFailed"} :
        /\ step' = [step EXCEPT ![w] = s]
        /\ s \in {"publishFailed", "terminate"} \/ keys[i] \in {"generated", "failed"}
  BY <1>1, <1>2, OnErrorResult, FinalizeResult DEF FindFailed, Done, Goto
<1>4. UNCHANGED <<Elsewhere, reason, tries, histories>>
  BY DEF FindFailed, Done, Elsewhere
<1> QED
  BY <1>1, <1>2, <1>3, <1>4, MovesAllowed DEF TypeOK, histories, AllSteps, Publications, Writes

\* The retries of a publication are bounded.
LEMMA TriesType ==
  ASSUME TypeOK, NEW w \in Workers, TryAgain(w)
  PROVE  tries' \in [Workers -> 0..MaxRetries]
<1>1. tries \in [Workers -> 0..MaxRetries] /\ tries[w] \in Nat /\ MaxRetries \in Nat
  BY SignalAssumption DEF TypeOK
<1>2. CASE tries[w] < MaxRetries
  <2>1. tries[w] + 1 \in 0..MaxRetries /\ tries' = [tries EXCEPT ![w] = tries[w] + 1]
    BY <1>1, <1>2 DEF TryAgain
  <2> QED
    BY <1>1, <2>1
<1>3. CASE ~(tries[w] < MaxRetries)
  <2>1. 0 \in 0..MaxRetries /\ tries' = [tries EXCEPT ![w] = 0]
    BY <1>1, <1>3 DEF TryAgain
  <2> QED
    BY <1>1, <2>1
<1> QED
  BY <1>2, <1>3

LEMMA PublishFailsQuiet ==
  ASSUME QuietInv, NEW w \in Workers, PublishFails(w)
  PROVE  QuietInv'
<1>1. step[w] \in Publications /\ step[w] # "idle" /\ TypeOK
  BY DEF PublishFails, Publications, QuietInv, FlowInv
<1>2. PICK i \in Identifiers : i = Identifier(w)
  BY <1>1, HandlerEvent
<1>3. PICK s \in {step[w], OnError(w)} : step' = [step EXCEPT ![w] = s]
  BY <1>1 DEF PublishFails, TryAgain, Goto, TypeOK
<1>4. s = step[w] \/ (IF step[w] = "publishMalformed" THEN s = "ok" ELSE s = "terminate")
  BY <1>1, <1>3, OnErrorResult DEF Publications
<1>5. UNCHANGED <<Elsewhere, reason, histories>>
  BY DEF PublishFails, Elsewhere
<1>6. tries' \in [Workers -> 0..MaxRetries]
  BY <1>1, TriesType DEF PublishFails
<1>7. s \in AllSteps \ {"idle"}
  BY <1>1, <1>4 DEF AllSteps, Writes, Publications
<1> QED
  BY <1>1, <1>2, <1>3, <1>4, <1>5, <1>6, <1>7, MovesAllowed
     DEF TypeOK, histories, Publications

(* A request that failed and did nothing.                                  *)
LEMMA RequestFailsQuiet ==
  ASSUME QuietInv, NEW w \in Workers, RequestFails(w)
  PROVE  QuietInv'
<1>1. step[w] \in Reads \cup Writes /\ step[w] # "idle" /\ TypeOK
  BY DEF RequestFails, Reads, Writes, QuietInv, FlowInv
<1>2. PICK i \in Identifiers : i = Identifier(w)
  BY <1>1, HandlerEvent
<1>3. PICK s : s = OnError(w) /\ step' = [step EXCEPT ![w] = s]
  BY DEF RequestFails, Goto
<1>4. UNCHANGED Elsewhere /\ doubted' = doubted
  BY DEF RequestFails, Elsewhere
<1>5. /\ reason' \in [Workers -> ReasonCodes]
      /\ tries' \in [Workers -> 0..MaxRetries]
  BY <1>1 DEF RequestFails, Blame, TypeOK, ReasonCodes
<1>6. s \in AllSteps \ {"idle"}
  BY <1>1, <1>3, OnErrorResult DEF AllSteps, Reads, Writes, Publications
<1>7. CASE step[w] = "terminate"
  <2>1. s = "error" /\ step'[w] = "error"
    BY <1>1, <1>3, <1>7, OnErrorResult DEF TypeOK
  <2>2. disturbed' = disturbed \cup {i}
    BY <1>2, <1>7 DEF RequestFails, Disturb
  <2>3. Knows(i, w)'
    BY <2>1 DEF Knows, Verified, Stored
  <2> QED
    BY <1>1, <1>2, <1>3, <1>4, <1>5, <1>6, <2>2, <2>3, MoveQuiet
<1>8. CASE step[w] # "terminate"
  <2>1. disturbed' = disturbed
    BY <1>8 DEF RequestFails
  <2> QED
    BY <1>1, <1>2, <1>3, <1>4, <1>5, <1>6, <1>8, <2>1, OnErrorResult, MovesAllowed
       DEF Reads, Writes
<1> QED
  BY <1>7, <1>8

---------------------------------------------------------------------------------
(* The actions that change the documents of the event.                     *)

RunStates == {"absent", "generated", "failed"}

LEMMA ByDocuments ==
  ASSUME QuietInv, NEW w \in Workers, step[w] # "idle",
         NEW i \in Identifiers, i = Identifier(w),
         NEW s \in AllSteps \ {"idle"}, step' = [step EXCEPT ![w] = s],
         NEW k \in KeyStates, keys' = [keys EXCEPT ![i] = k],
         NEW r \in RunStates, runs' = [runs EXCEPT ![i] = r],
         signals' \in {signals, signals \cup {i}},
         UNCHANGED <<deliveryVars, payload, published, tries, doubted>>,
         reason' \in [Workers -> ReasonCodes],
         disturbed' \in {disturbed, disturbed \cup {i}},
         Knows(i, w) => Knows(i, w)',
         i \notin disturbed' /\ Knows(i, w) /\ Fits(i, w) => Fits(i, w)'
  PROVE  QuietInv'
<1>1. TypeOK /\ IsAt(w, i) /\ Knows(i, w)
  BY DEF QuietInv, FlowInv, TypeOK, IsAt
<1>2. TypeOK'
  BY <1>1 DEF TypeOK, DeliveryTypeOK, deliveryVars, AllSteps, RunStates
<1>3. OnlyAbout(w, i)
  BY <1>1 DEF OnlyAbout, TypeOK
<1>4. Reported(i) => Reported(i)'
  BY DEF Reported
<1>5. Announced(i)' => i \in signals' /\ payload[i] = "valid"
  BY DEF QuietInv, FlowInv, GeneratedWasStored, Announced
<1>6. i \notin disturbed' => Fits(i, w)
  BY <1>1 DEF QuietInv, Quiet
<1> QED
  BY <1>1, <1>2, <1>3, <1>4, <1>5, <1>6, ByHandler

(* The parts of Fits that depend on publications only.                     *)
LEMMA DocumentsKeep ==
  ASSUME UNCHANGED <<payload, published, doubted>>, NEW i \in Identifiers
  PROVE  /\ Announced(i) <=> Announced(i)'
         /\ ToldFailed(i) <=> ToldFailed(i)'
         /\ Reported(i) <=> Reported(i)'
         /\ Commanded(i) <=> Commanded(i)'
         /\ ToldFailed(i) => Reported(i)
  BY DEF Announced, ToldFailed, Reported, Commanded, Events

LEMMA DocumentTypes ==
  ASSUME TypeOK, NEW i \in Identifiers
  PROVE  /\ keys[i] \in KeyStates /\ keys = [keys EXCEPT ![i] = keys[i]]
         /\ runs[i] \in RunStates /\ runs = [runs EXCEPT ![i] = runs[i]]
  BY DEF TypeOK, RunStates

LEMMA AcquireQuiet ==
  ASSUME QuietInv, NEW w \in Workers, Acquire(w)
  PROVE  QuietInv'
<1>1. step[w] = "acquire" /\ TypeOK
  BY DEF Acquire, QuietInv, FlowInv
<1>2. PICK i \in Identifiers : i = Identifier(w)
  BY <1>1, HandlerEvent
<1>3. UNCHANGED <<deliveryVars, tries, payload, runs, signals, published, doubted>>
  BY DEF Acquire
<1>4. CASE keys[i] = "absent"
  <2>1. keys' = [keys EXCEPT ![i] = "pending"]
    BY <1>2, <1>4 DEF Acquire
  <2>2. PICK s \in {"resolve", "saveFailed", "error"} :
          /\ step' = [step EXCEPT ![w] = s]
          /\ s = "resolve" => payload[i] = "valid"
          /\ IF s = "error" THEN disturbed' = disturbed \cup {i} ELSE disturbed' = disturbed
    BY <1>2, <1>4 DEF Acquire, FailFor, Goto, Disturb
  <2>3. reason' \in [Workers -> ReasonCodes]
    BY <1>1, <1>2, <1>4 DEF Acquire, FailFor, TypeOK, ReasonCodes
  <2>4. step'[w] = s /\ keys'[i] = "pending" /\ runs' = runs
    BY <1>1, <1>3, <2>1, <2>2 DEF TypeOK
  <2>5. Knows(i, w)'
    BY <1>3, <2>2, <2>4 DEF Knows, Verified, Stored
  <2>6. ASSUME i \notin disturbed', Fits(i, w) PROVE Fits(i, w)'
    <3>1. s \in {"resolve", "saveFailed"}
      BY <2>2, <2>6
    <3>2. ~(i \notin doubted /\ Announced(i))
      BY <1>4, <2>6 DEF Fits
    <3> QED
      BY <1>3, <2>4, <3>1, <3>2, DocumentsKeep DEF Fits, Marks, Untold, Undecided
  <2> QED
    BY <1>1, <1>2, <1>3, <2>1, <2>2, <2>3, <2>5, <2>6, DocumentTypes, ByDocuments
       DEF AllSteps, Reads, Writes, KeyStates
<1>5. CASE keys[i] # "absent"
  <2>1. step' = [step EXCEPT ![w] = "duplicate"] /\ UNCHANGED <<keys, reason, disturbed>>
    BY <1>2, <1>5 DEF Acquire, Goto
  <2>2. UNCHANGED Elsewhere /\ doubted' = doubted /\ disturbed' = disturbed
    BY <1>3, <2>1 DEF Elsewhere, documents
  <2>3. reason' \in [Workers -> ReasonCodes] /\ tries' \in [Workers -> 0..MaxRetries]
    BY <1>1, <1>3, <2>1 DEF TypeOK
  <2>4. "duplicate" \in AllSteps \ {"idle"}
    BY DEF AllSteps, Reads
  <2> QED
    BY <1>1, <1>2, <1>5, <2>1, <2>2, <2>3, <2>4, MovesAllowed
<1> QED
  BY <1>4, <1>5

LEMMA ConfirmQuiet ==
  ASSUME QuietInv, NEW w \in Workers, Confirm(w)
  PROVE  QuietInv'
<1>1. step[w] \in {"confirmGenerated", "confirmFailed"} /\ TypeOK
  BY DEF Confirm, QuietInv, FlowInv
<1>2. PICK i \in Identifiers : i = Identifier(w)
  BY <1>1, HandlerEvent
<1>3. PICK k \in {"generated", "failed"} :
        k = IF step[w] = "confirmGenerated" THEN "generated" ELSE "failed"
  OBVIOUS
<1>4. keys' = [keys EXCEPT ![i] = k]
  BY <1>2, <1>3 DEF Confirm
<1>5. step' = [step EXCEPT ![w] = "ok"]
  BY <1>1, OnErrorResult DEF Confirm, Done, Goto
<1>6. /\ UNCHANGED <<deliveryVars, payload, published, tries, doubted>>
      /\ UNCHANGED <<reason, disturbed, runs, signals>>
  BY DEF Confirm, Done, histories
<1>7. step'[w] = "ok" /\ keys'[i] = k
  BY <1>1, <1>4, <1>5 DEF TypeOK
<1>8. Knows(i, w)'
  BY <1>7 DEF Knows, Verified, Stored
<1>9. ASSUME Fits(i, w) PROVE Fits(i, w)'
  <2>1. Accounted(i) /\ (step[w] = "confirmFailed" => ToldFailed(i))
    BY <1>1, <1>9 DEF Fits, Undecided, Untold
  <2>2. Accounted(i)'
    BY <1>6, <2>1, DocumentsKeep DEF Accounted
  <2> QED
    BY <1>1, <1>3, <1>6, <1>7, <2>1, <2>2, DocumentsKeep
       DEF Fits, Marks, Accounted, Untold, Undecided
<1>10. reason' \in [Workers -> ReasonCodes]
  BY <1>1, <1>6 DEF TypeOK
<1> QED
  BY <1>1, <1>2, <1>4, <1>5, <1>6, <1>8, <1>9, <1>10, DocumentTypes, ByDocuments
     DEF AllSteps, KeyStates

LEMMA TerminateQuiet ==
  ASSUME QuietInv, NEW w \in Workers, Terminate(w)
  PROVE  QuietInv'
<1>1. step[w] = "terminate" /\ TypeOK
  BY DEF Terminate, QuietInv, FlowInv
<1>2. PICK i \in Identifiers : i = Identifier(w)
  BY <1>1, HandlerEvent
<1>3. keys' = [keys EXCEPT ![i] = "absent"] /\ step' = [step EXCEPT ![w] = "error"]
  BY <1>1, <1>2, OnErrorResult DEF Terminate, Done, Goto
<1>4. /\ UNCHANGED <<deliveryVars, payload, published, tries, doubted>>
      /\ UNCHANGED <<reason, disturbed, runs, signals>>
  BY DEF Terminate, Done, histories
<1>5. step'[w] = "error" /\ keys'[i] = "absent"
  BY <1>1, <1>3 DEF TypeOK
<1>6. Knows(i, w)'
  BY <1>5 DEF Knows, Verified, Stored
<1>7. ASSUME Fits(i, w) PROVE Fits(i, w)'
  BY <1>1, <1>4, <1>5, <1>7, DocumentsKeep DEF Fits, Marks, Untold, Undecided
<1>8. reason' \in [Workers -> ReasonCodes]
  BY <1>1, <1>4 DEF TypeOK
<1> QED
  BY <1>1, <1>2, <1>3, <1>4, <1>6, <1>7, <1>8, DocumentTypes, ByDocuments
     DEF AllSteps, KeyStates

LEMMA WriteSignalsQuiet ==
  ASSUME QuietInv, NEW w \in Workers, WriteSignals(w)
  PROVE  QuietInv'
<1>1. step[w] = "writeSignals" /\ TypeOK
  BY DEF WriteSignals, QuietInv, FlowInv
<1>2. PICK i \in Identifiers : i = Identifier(w)
  BY <1>1, HandlerEvent
<1>3. PICK s \in {"saveRun", "saveFailed"} : step' = [step EXCEPT ![w] = s]
  BY <1>1, OnErrorResult DEF WriteSignals, Goto
<1>4. /\ UNCHANGED <<deliveryVars, payload, published, tries, doubted>>
      /\ UNCHANGED <<disturbed, keys, runs>>
      /\ signals' = signals \cup {i}
  BY <1>2 DEF WriteSignals, histories
<1>5. step'[w] = s
  BY <1>1, <1>3 DEF TypeOK
<1>6. ASSUME Knows(i, w) PROVE Knows(i, w)'
  BY <1>1, <1>4, <1>5, <1>6 DEF Knows, Verified, Stored
<1>7. ASSUME Fits(i, w) PROVE Fits(i, w)'
  BY <1>1, <1>4, <1>5, <1>7, DocumentsKeep DEF Fits, Marks, Untold, Undecided
<1>8. reason' \in [Workers -> ReasonCodes]
  BY <1>1 DEF WriteSignals, Blame, TypeOK, ReasonCodes
<1> QED
  BY <1>1, <1>2, <1>3, <1>4, <1>6, <1>7, <1>8, DocumentTypes, ByDocuments
     DEF AllSteps, Writes

LEMMA SaveRunQuiet ==
  ASSUME QuietInv, NEW w \in Workers, SaveRun(w) \/ SaveFailed(w)
  PROVE  QuietInv'
<1>1. step[w] \in {"saveRun", "saveFailed"} /\ TypeOK
  BY DEF SaveRun, SaveFailed, QuietInv, FlowInv
<1>2. PICK i \in Identifiers : i = Identifier(w)
  BY <1>1, HandlerEvent
<1>3. PICK s \in {"findDispatch", "terminate", "findFailed"}, r \in {"generated", "failed"} :
        /\ step' = [step EXCEPT ![w] = s]
        /\ runs' = [runs EXCEPT ![i] = r]
        /\ step[w] = "saveRun" => s # "findFailed" /\ r = "generated"
        /\ step[w] = "saveFailed" => s = "findFailed" /\ r = "failed"
  BY <1>1, <1>2, OnErrorResult DEF SaveRun, SaveFailed, Done, Goto
<1>4. /\ UNCHANGED <<deliveryVars, payload, published, tries, doubted>>
      /\ UNCHANGED <<reason, disturbed, keys, signals>>
  BY DEF SaveRun, SaveFailed, Done, histories
<1>5. step'[w] = s /\ runs'[i] = r
  BY <1>1, <1>3 DEF TypeOK
<1>6. ASSUME Knows(i, w) PROVE Knows(i, w)'
  BY <1>1, <1>3, <1>4, <1>5, <1>6 DEF Knows, Verified, Stored
<1>7. ASSUME Fits(i, w) PROVE Fits(i, w)'
  BY <1>1, <1>3, <1>4, <1>5, <1>7, DocumentsKeep DEF Fits, Marks, Untold, Undecided
<1>8. reason' \in [Workers -> ReasonCodes]
  BY <1>1, <1>4 DEF TypeOK
<1>9. s \in AllSteps \ {"idle"} /\ r \in RunStates
  BY DEF AllSteps, Reads, Writes, RunStates
<1> QED
  BY <1>1, <1>2, <1>3, <1>4, <1>6, <1>7, <1>8, <1>9, DocumentTypes, ByDocuments

LEMMA SaveDispatchQuiet ==
  ASSUME QuietInv, NEW w \in Workers, SaveDispatch(w)
  PROVE  QuietInv'
<1>1. step[w] \in {"saveDispatch", "saveFailedDispatch", "saveMalformed"} /\ TypeOK
  BY DEF SaveDispatch, QuietInv, FlowInv
<1>2. PICK i \in Identifiers : i = Identifier(w)
  BY <1>1, HandlerEvent
<1>3. PICK s \in {"ok", "error", "terminate"} :
        /\ step' = [step EXCEPT ![w] = s]
        /\ step[w] = "saveDispatch" => s # "terminate"
        /\ step[w] = "saveMalformed" => s = "ok"
        /\ step[w] = "saveFailedDispatch" => s # "error"
  BY <1>1, OnErrorResult, FinalizeResult DEF SaveDispatch, Done, Goto
<1>4. PICK k \in {"generated", "failed"} :
        k = IF step[w] = "saveDispatch" THEN "generated" ELSE "failed"
  OBVIOUS
<1>5. keys' = [keys EXCEPT ![i] = k]
  BY <1>2, <1>4 DEF SaveDispatch
<1>6. /\ UNCHANGED <<deliveryVars, payload, published, tries, doubted>>
      /\ UNCHANGED <<reason, disturbed, runs, signals>>
  BY DEF SaveDispatch, Done, histories
<1>7. step'[w] = s /\ keys'[i] = k
  BY <1>1, <1>3, <1>5 DEF TypeOK
<1>8. Knows(i, w)'
  BY <1>7 DEF Knows, Verified, Stored
<1>9. ASSUME Knows(i, w), Fits(i, w) PROVE Fits(i, w)'
  <2>1. Accounted(i) /\ (step[w] # "saveDispatch" => ToldFailed(i))
    BY <1>1, <1>6, <1>9, DocumentsKeep DEF Fits, Accounted, Undecided, Untold
  <2>2. Accounted(i)'
    BY <1>6, <2>1, DocumentsKeep DEF Accounted
  <2> QED
    BY <1>1, <1>3, <1>4, <1>6, <1>7, <1>9, <2>1, <2>2, DocumentsKeep
       DEF Fits, Marks, Accounted, Untold, Undecided
<1>10. reason' \in [Workers -> ReasonCodes]
  BY <1>1, <1>6 DEF TypeOK
<1>11. s \in AllSteps \ {"idle"} /\ k \in KeyStates
  BY DEF AllSteps, Writes, KeyStates
<1> QED
  BY <1>1, <1>2, <1>3, <1>5, <1>6, <1>8, <1>9, <1>10, <1>11, DocumentTypes, ByDocuments

LEMMA PublishQuiet ==
  ASSUME QuietInv, NEW w \in Workers, Publish(w)
  PROVE  QuietInv'
<1>1. step[w] \in Publications /\ step[w] # "idle" /\ TypeOK
  BY DEF Publish, Publications, QuietInv, FlowInv
<1>2. PICK i \in Identifiers : i = Identifier(w) /\ IsAt(w, i)
  BY <1>1, StepOfHandler
<1>3. PICK e \in Events : e = EventAt(step[w])
  BY DEF EventAt, Events
<1>4. published' = [published EXCEPT ![i][e] = @ + 1]
  BY <1>2, <1>3 DEF Publish, Sent
<1>5. /\ published' \in [Identifiers -> [Events -> Nat]]
      /\ published'[i][e] = published[i][e] + 1
      /\ \A f \in Events \ {e} : published'[i][f] = published[i][f]
      /\ \A j \in Identifiers \ {i} : published'[j] = published[j]
  BY <1>1, <1>4 DEF TypeOK
<1>6. PICK s \in {AfterPublish(step[w]), step[w], OnError(w)} :
        /\ step' = [step EXCEPT ![w] = s]
        /\ \/ s = AfterPublish(step[w]) /\ doubted' = doubted
           \/ s \in {step[w], OnError(w)} /\ doubted' = doubted \cup {i}
        /\ tries' \in [Workers -> 0..MaxRetries]
  <2>1. CASE Goto(w, AfterPublish(step[w])) /\ tries' = [tries EXCEPT ![w] = 0] /\ UNCHANGED doubted
    BY <1>1, <2>1, SignalAssumption DEF Goto, TypeOK
  <2>2. CASE TryAgain(w) /\ doubted' = doubted \cup {i}
    <3>1. step' = [step EXCEPT ![w] = step[w]] \/ step' = [step EXCEPT ![w] = OnError(w)]
      BY <1>1, <2>2 DEF TryAgain, Goto, TypeOK
    <3>2. tries' \in [Workers -> 0..MaxRetries]
      BY <1>1, <2>2, TriesType
    <3> QED
      BY <2>2, <3>1, <3>2
  <2> QED
    BY <1>2, <2>1, <2>2 DEF Publish
<1>7. /\ step[w] = "publishGenerated" => AfterPublish(step[w]) = "saveDispatch"
      /\ step[w] = "publishFailed" => AfterPublish(step[w]) = "saveFailedDispatch"
      /\ step[w] = "publishMalformed" => AfterPublish(step[w]) = "saveMalformed"
  BY DEF AfterPublish
<1>8. /\ step[w] = "publishGenerated" => OnError(w) = "terminate"
      /\ step[w] = "publishFailed" => OnError(w) = "terminate"
      /\ step[w] = "publishMalformed" => OnError(w) = "ok"
  BY OnErrorResult
<1>9. /\ UNCHANGED <<deliveryVars, reason, payload, keys, runs, signals, disturbed>>
      /\ step'[w] = s
  BY <1>1, <1>6 DEF Publish, documents, TypeOK
<1>10. s \in AllSteps \ {"idle"}
  BY <1>1, <1>6, <1>7, <1>8 DEF AllSteps, Publications, Writes
<1>11. Knows(i, w)
  BY <1>2 DEF QuietInv, FlowInv
<1>12. TypeOK'
  BY <1>1, <1>5, <1>6, <1>9, <1>10 DEF TypeOK, DeliveryTypeOK, deliveryVars, AllSteps
<1>13. OnlyAbout(w, i)
  BY <1>1, <1>5, <1>6, <1>9 DEF OnlyAbout, TypeOK
<1>14. Reported(i)'
  BY <1>1, <1>5 DEF Reported, TypeOK
<1>15. Knows(i, w)'
  BY <1>1, <1>6, <1>7, <1>8, <1>9, <1>11 DEF Knows, Publications, Verified, Stored
<1>16. Announced(i)' => i \in signals' /\ payload[i] = "valid"
  <2>1. CASE step[w] = "publishGenerated"
    BY <1>9, <1>11, <2>1 DEF Knows, Verified, Stored
  <2>2. CASE step[w] # "publishGenerated"
    <3>1. e = "signal.generation.failed"
      BY <1>3, <2>2 DEF EventAt
    <3>2. Announced(i)' => Announced(i)
      BY <1>5, <3>1 DEF Announced, Events
    <3> QED
      BY <1>9, <3>2 DEF QuietInv, FlowInv, GeneratedWasStored, Announced
  <2> QED
    BY <2>1, <2>2
<1>17. ASSUME i \notin disturbed', Fits(i, w) PROVE Fits(i, w)'
  <2>1. /\ ToldFailed(i) => ToldFailed(i)'
        /\ step[w] # "publishGenerated" => ToldFailed(i)'
        /\ step[w] # "publishGenerated" => (Announced(i)' <=> Announced(i))
    BY <1>1, <1>3, <1>5 DEF ToldFailed, Announced, EventAt, Events, TypeOK
  <2>2. Accounted(i) => Accounted(i)'
    BY <1>9, <1>14, <2>1 DEF Accounted
  <2>3. Marks(i)'
    BY <1>9, <1>14, <1>17, <2>1 DEF Fits, Marks
  <2>4. CASE s = AfterPublish(step[w]) /\ doubted' = doubted
    <3>1. CASE step[w] = "publishGenerated"
      BY <1>7, <1>9, <1>14, <1>17, <2>3, <2>4, <3>1
         DEF Fits, Untold, Undecided, Accounted
    <3>2. CASE step[w] = "publishFailed"
      BY <1>7, <1>9, <1>14, <1>17, <2>1, <2>3, <2>4, <3>2
         DEF Fits, Untold, Undecided, Accounted
    <3>3. CASE step[w] = "publishMalformed"
      BY <1>7, <1>9, <1>14, <1>17, <2>1, <2>2, <2>3, <2>4, <3>3
         DEF Fits, Untold, Undecided
    <3> QED
      BY <1>1, <3>1, <3>2, <3>3 DEF Publications
  <2>5. CASE s \in {step[w], OnError(w)} /\ doubted' = doubted \cup {i}
    BY <1>1, <1>8, <1>9, <1>14, <1>17, <2>2, <2>3, <2>5
       DEF Fits, Untold, Undecided, Publications
  <2> QED
    BY <1>6, <2>4, <2>5
<1>18. i \notin disturbed' => Fits(i, w)
  BY <1>2, <1>9 DEF QuietInv, Quiet
<1> QED
  BY <1>1, <1>2, <1>12, <1>13, <1>14, <1>15, <1>16, <1>17, <1>18, ByHandler

---------------------------------------------------------------------------------
(* The subscription: a handler starts, ends or dies.                       *)

LEMMA PushType ==
  ASSUME DeliveryTypeOK, NEW w \in Workers, NEW m \in Messages, Push(w, m)
  PROVE  /\ DeliveryTypeOK'
         /\ held' = [held EXCEPT ![w] = m]
  BY DeliveryAssumption DEF DeliveryTypeOK, Push

LEMMA AnswerType ==
  ASSUME DeliveryTypeOK, NEW w \in Workers, held[w] \in Messages, Ack(w) \/ Nack(w)
  PROVE  /\ DeliveryTypeOK'
         /\ held' = [held EXCEPT ![w] = NoMessage]
<1>1. /\ sub'[held[w]] \in {sub[held[w]], "acked", Requeued(held[w])}
      /\ sub' = [sub EXCEPT ![held[w]] = sub'[held[w]]]
      /\ UNCHANGED deliveries
  BY DEF Ack, Nack, Release, DeliveryTypeOK
<1>2. Requeued(held[w]) = "queued" => deliveries[held[w]] < MaxDeliveries
  BY DEF Requeued
<1>3. Requeued(held[w]) \in {"queued", "dead"}
  BY DEF Requeued
<1>4. /\ held' = [held EXCEPT ![w] = NoMessage]
      /\ lease' = [lease EXCEPT ![w] = 0]
  BY DEF Ack, Nack, Release
<1> QED
  BY <1>1, <1>2, <1>3, <1>4, DeliveryAssumption DEF DeliveryTypeOK

LEMMA SubscriptionType ==
  ASSUME DeliveryTypeOK, NEW m \in Messages, Expire(m) \/ Redeliver(m)
  PROVE  DeliveryTypeOK' /\ held' = held
  BY DEF DeliveryTypeOK, Expire, Redeliver, Requeued

(* While no document changes, an event whose handlers stay as they are     *)
(* stays quiet, if what gets acknowledged was told of.                     *)
Unwritten == UNCHANGED <<payload, documents, published, doubted>>

LEMMA UnwrittenKeeps ==
  ASSUME Unwritten, NEW i \in Identifiers
  PROVE  /\ Marks(i) <=> Marks(i)'
         /\ Accounted(i) <=> Accounted(i)'
         /\ Announced(i) <=> Announced(i)'
         /\ ToldFailed(i) <=> ToldFailed(i)'
         /\ Reported(i) <=> Reported(i)'
         /\ Commanded(i) <=> Commanded(i)'
         /\ Rests(i) <=> Rests(i)'
  BY DEF Unwritten, documents, Marks, Accounted, Announced, ToldFailed, Reported, Commanded, Rests

LEMMA SameHandlers ==
  ASSUME Unwritten, NEW j \in Identifiers, Quiet(j),
         \A v \in Workers : IsAt(v, j)' <=> IsAt(v, j),
         \A v \in Workers : IsAt(v, j) => step'[v] = step[v],
         \A m \in Messages : IdentifierOf[m] = j /\ sub'[m] = "acked" =>
           sub[m] = "acked" \/ (Commanded(j) => Reported(j))
  PROVE  Quiet(j)'
<1>1. ASSUME NEW v \in Workers, IsAt(v, j) PROVE Fits(j, v)'
  BY <1>1, UnwrittenKeeps DEF Quiet, Fits, Unwritten, documents
<1>2. AcksAreTrue(j)'
  BY UnwrittenKeeps DEF Quiet, AcksAreTrue
<1> QED
  BY <1>1, <1>2, UnwrittenKeeps DEF Quiet

LEMMA FirstStepResult ==
  ASSUME NEW p \in Payloads
  PROVE  /\ FirstStep(p) \in {"ok", "publishMalformed", "acquire"}
         /\ FirstStep(p) = "ok" => p \notin {"invalid", "valid"}
         /\ FirstStep(p) = "publishMalformed" => p = "malformed"
<1>1. p \in {"opaque", "empty"} => FirstStep(p) = "ok"
  BY DEF FirstStep
<1>2. p = "malformed" => FirstStep(p) = "publishMalformed"
  BY DEF FirstStep
<1>3. p \in {"invalid", "valid"} => FirstStep(p) = "acquire"
  BY DEF FirstStep
<1> QED
  BY <1>1, <1>2, <1>3 DEF Payloads

LEMMA ReceiveQuiet ==
  ASSUME QuietInv, NEW w \in Workers, NEW m \in Messages, Receive(w, m)
  PROVE  QuietInv'
<1>1. TypeOK /\ step[w] = "idle" /\ held[w] = NoMessage /\ Push(w, m)
  BY DEF QuietInv, FlowInv, TypeOK, Receive
<1>2. PICK i \in Identifiers : i = IdentifierOf[m]
  BY SignalAssumption
<1>3. /\ DeliveryTypeOK' /\ held' = [held EXCEPT ![w] = m]
      /\ sub' = [sub EXCEPT ![m] = "outstanding"]
  BY <1>1, PushType DEF TypeOK, Push
<1>4. payload[i] \in Payloads
  BY <1>1 DEF TypeOK
<1>5. PICK s \in {"ok", "publishMalformed", "acquire"} :
        /\ step' = [step EXCEPT ![w] = s]
        /\ s = "ok" => ~Commanded(i)
        /\ s = "publishMalformed" => payload[i] = "malformed"
  BY <1>2, <1>4, FirstStepResult DEF Receive, Goto, Commanded
<1>6. Unwritten /\ UNCHANGED <<reason, tries>>
  BY DEF Receive, Unwritten
<1>7. m # NoMessage
  BY DeliveryAssumption
<1>8. /\ step'[w] = s /\ held'[w] = m
      /\ \A v \in Workers \ {w} : step'[v] = step[v] /\ held'[v] = held[v]
  BY <1>1, <1>3, <1>5 DEF TypeOK, DeliveryTypeOK
<1>9. /\ IsAt(w, i)' /\ ~\E j \in Identifiers : IsAt(w, j)
      /\ \A j \in Identifiers \ {i} : ~IsAt(w, j)'
      /\ \A v \in Workers \ {w}, j \in Identifiers : IsAt(v, j)' <=> IsAt(v, j)
  BY <1>1, <1>2, <1>7, <1>8 DEF IsAt, Identifier
<1>10. disturbed' \in {disturbed, disturbed \cup {i}}
  BY <1>2 DEF Receive
<1>11. TypeOK'
  <2>1. step' \in [Workers -> {"idle", "ok", "error"} \cup Reads \cup Publications \cup Writes]
    BY <1>1, <1>5 DEF TypeOK, Publications, Writes
  <2>2. \A v \in Workers : (step'[v] = "idle") = (held'[v] = NoMessage)
    BY <1>1, <1>7, <1>8 DEF TypeOK
  <2> QED
    BY <1>1, <1>3, <1>6, <1>10, <2>1, <2>2 DEF TypeOK, Unwritten, documents
<1>12. GeneratedWasStored'
  BY <1>6 DEF QuietInv, FlowInv, GeneratedWasStored, Announced, Unwritten, documents
<1>13. ASSUME NEW j \in Identifiers, NEW v \in Workers, IsAt(v, j)' PROVE Knows(j, v)'
  <2>1. CASE v = w
    <3>1. j = i
      BY <1>9, <1>13, <2>1
    <3> QED
      BY <1>5, <1>6, <1>8, <2>1, <3>1 DEF Knows, Verified, Stored, Unwritten
  <2>2. CASE v # w
    BY <1>6, <1>8, <1>9, <1>13, <2>2 DEF QuietInv, FlowInv, Knows, Unwritten, documents
  <2> QED
    BY <2>1, <2>2
<1>14. \A n \in Messages : sub'[n] = "acked" => sub[n] = "acked"
  BY <1>1, <1>3 DEF TypeOK, DeliveryTypeOK
<1>15. ASSUME NEW j \in Identifiers \ disturbed', j # i PROVE Quiet(j)'
  <2>1. Quiet(j)
    BY <1>10, <1>15 DEF QuietInv
  <2>2. \A v \in Workers : IsAt(v, j)' <=> IsAt(v, j)
    BY <1>9, <1>15
  <2>3. \A v \in Workers : IsAt(v, j) => step'[v] = step[v]
    BY <1>8, <1>9
  <2> QED
    BY <1>6, <1>14, <2>1, <2>2, <2>3, SameHandlers
<1>16. ASSUME i \notin disturbed' PROVE Quiet(i)'
  <2>1. Quiet(i)
    BY <1>10, <1>16 DEF QuietInv
  <2>2. ~Contested(w, m)
    BY <1>2, <1>16 DEF Receive
  <2>3. \A v \in Workers : ~IsAt(v, i)
    BY <1>2, <1>9, <2>2 DEF Contested, IsAt
  <2>4. Rests(i)
    BY <2>1, <2>3 DEF Quiet
  <2>5. \A v \in Workers : IsAt(v, i)' => v = w
    BY <1>9, <2>3
  <2>6. Fits(i, w)'
    BY <1>5, <1>6, <1>8, <2>4, UnwrittenKeeps
       DEF Fits, Rests, Untold, Undecided, Unwritten, documents
  <2>7. AcksAreTrue(i)'
    BY <1>6, <1>14, <2>1, UnwrittenKeeps DEF Quiet, AcksAreTrue
  <2> QED
    BY <1>9, <2>5, <2>6, <2>7 DEF Quiet
<1> QED
  BY <1>11, <1>12, <1>13, <1>15, <1>16 DEF QuietInv, FlowInv

(* A message is acknowledged by a handler that is done with it.            *)
LEMMA AnswerAcks ==
  ASSUME TypeOK, NEW w \in Workers, (step[w] = "ok" /\ Ack(w)) \/ Nack(w),
         NEW m \in Messages, sub'[m] = "acked"
  PROVE  sub[m] = "acked" \/ (m = held[w] /\ step[w] = "ok")
  BY DEF Ack, Nack, Requeued, TypeOK, DeliveryTypeOK

(* The handler is gone, and its answer, if it gave one, was the last step. *)
LEMMA LeaveQuiet ==
  ASSUME QuietInv, NEW w \in Workers, step[w] # "idle", Ack(w) \/ Nack(w), Forget(w),
         NEW i \in Identifiers, i = Identifier(w), IsAt(w, i), Unwritten,
         disturbed' \in {disturbed, disturbed \cup {i}},
         i \notin disturbed' => step[w] \in {"ok", "error"},
         \A n \in Messages : sub'[n] = "acked" =>
           sub[n] = "acked" \/ (n = held[w] /\ step[w] = "ok")
  PROVE  QuietInv'
<1>1. TypeOK /\ held[w] \in Messages
  BY HandlerEvent DEF QuietInv, FlowInv
<1>2. DeliveryTypeOK' /\ held' = [held EXCEPT ![w] = NoMessage]
  BY <1>1, AnswerType DEF TypeOK
<1>3. /\ step'[w] = "idle" /\ held'[w] = NoMessage
      /\ \A v \in Workers \ {w} : step'[v] = step[v] /\ held'[v] = held[v]
  BY <1>1, <1>2 DEF TypeOK, DeliveryTypeOK, Forget, Goto
<1>4. /\ ~\E j \in Identifiers : IsAt(w, j)'
      /\ \A j \in Identifiers \ {i} : ~IsAt(w, j)
      /\ \A v \in Workers \ {w}, j \in Identifiers : IsAt(v, j)' <=> IsAt(v, j)
  BY <1>3 DEF IsAt, Identifier
<1>5. TypeOK'
  <2>1. step' \in [Workers -> {"idle", "ok", "error"} \cup Reads \cup Publications \cup Writes]
    BY <1>1 DEF TypeOK, Forget, Goto
  <2>2. \A v \in Workers : (step'[v] = "idle") = (held'[v] = NoMessage)
    BY <1>1, <1>3 DEF TypeOK
  <2>3. reason' \in [Workers -> ReasonCodes] /\ tries' \in [Workers -> 0..MaxRetries]
    BY <1>1, SignalAssumption DEF TypeOK, Forget, ReasonCodes
  <2> QED
    BY <1>1, <1>2, <2>1, <2>2, <2>3 DEF TypeOK, Unwritten, documents
<1>6. GeneratedWasStored'
  BY DEF QuietInv, FlowInv, GeneratedWasStored, Announced, Unwritten, documents
<1>7. ASSUME NEW j \in Identifiers, NEW v \in Workers, IsAt(v, j)' PROVE Knows(j, v)'
  BY <1>3, <1>4, <1>7 DEF QuietInv, FlowInv, Knows, Unwritten, documents
<1>9. IdentifierOf[held[w]] = i
  BY DEF Identifier
<1>10. ASSUME NEW j \in Identifiers \ disturbed', j # i PROVE Quiet(j)'
  <2>1. Quiet(j)
    BY <1>10 DEF QuietInv
  <2>2. \A v \in Workers : IsAt(v, j)' <=> IsAt(v, j)
    BY <1>4, <1>10
  <2>3. \A v \in Workers : IsAt(v, j) => step'[v] = step[v]
    BY <1>3, <1>4, <1>10
  <2>4. \A n \in Messages : IdentifierOf[n] = j /\ sub'[n] = "acked" => sub[n] = "acked"
    BY <1>9, <1>10
  <2> QED
    BY <2>1, <2>2, <2>3, <2>4, SameHandlers
<1>11. ASSUME i \notin disturbed' PROVE Quiet(i)'
  <2>1. Quiet(i) /\ Fits(i, w) /\ step[w] \in {"ok", "error"}
    BY <1>11 DEF QuietInv, Quiet
  <2>2. \A v \in Workers : ~IsAt(v, i)'
    BY <1>4, <2>1 DEF Quiet
  <2>3. Rests(i)'
    BY <2>1, UnwrittenKeeps DEF Fits, Rests, Undecided, Untold, Unwritten, documents
  <2>4. step[w] = "ok" /\ Commanded(i) => Reported(i)
    BY <2>1 DEF Fits
  <2>5. AcksAreTrue(i)'
    BY <2>1, <2>4, UnwrittenKeeps DEF Quiet, AcksAreTrue
  <2> QED
    BY <2>2, <2>3, <2>5 DEF Quiet
<1> QED
  BY <1>5, <1>6, <1>7, <1>10, <1>11 DEF QuietInv, FlowInv

LEMMA ReplyQuiet ==
  ASSUME QuietInv, NEW w \in Workers, Reply(w)
  PROVE  QuietInv'
<1>1. step[w] \in {"ok", "error"} /\ TypeOK
  BY DEF Reply, QuietInv, FlowInv
<1>2. PICK i \in Identifiers : i = Identifier(w) /\ IsAt(w, i)
  BY <1>1, StepOfHandler
<1>3. Unwritten /\ disturbed' = disturbed
  BY DEF Reply, Unwritten, histories
<1>4. (step[w] = "ok" /\ Ack(w)) \/ Nack(w)
  BY DEF Reply
<1>5. \A n \in Messages : sub'[n] = "acked" =>
        sub[n] = "acked" \/ (n = held[w] /\ step[w] = "ok")
  BY <1>1, <1>4, AnswerAcks
<1> QED
  BY <1>1, <1>2, <1>3, <1>4, <1>5, LeaveQuiet DEF Reply

LEMMA CrashQuiet ==
  ASSUME QuietInv, NEW w \in Workers, Crash(w)
  PROVE  QuietInv'
<1>1. step[w] # "idle" /\ TypeOK /\ Nack(w) /\ Forget(w)
  BY DEF Crash, QuietInv, FlowInv
<1>2. PICK i \in Identifiers : i = Identifier(w) /\ IsAt(w, i)
  BY <1>1, StepOfHandler
<1>3. Unwritten /\ disturbed' = disturbed \cup {i}
  BY <1>2 DEF Crash, Disturb, Unwritten
<1>4. \A n \in Messages : sub'[n] = "acked" =>
        sub[n] = "acked" \/ (n = held[w] /\ step[w] = "ok")
  BY <1>1, AnswerAcks
<1> QED
  BY <1>1, <1>2, <1>3, <1>4, LeaveQuiet

LEMMA SubscriptionQuiet ==
  ASSUME QuietInv, Subscription
  PROVE  QuietInv'
<1>1. PICK m \in Messages : Expire(m) \/ Redeliver(m)
  BY DEF Subscription
<1>2. Unwritten /\ UNCHANGED <<step, reason, tries, disturbed>> /\ TypeOK
  BY DEF Subscription, Unwritten, histories, QuietInv, FlowInv
<1>3. DeliveryTypeOK' /\ held' = held
  BY <1>1, <1>2, SubscriptionType DEF TypeOK
<1>4. TypeOK'
  BY <1>2, <1>3 DEF TypeOK, Unwritten, documents
<1>5. \A v \in Workers, j \in Identifiers : IsAt(v, j)' <=> IsAt(v, j)
  BY <1>3 DEF IsAt, Identifier
<1>6. \A n \in Messages : sub'[n] = "acked" => sub[n] = "acked"
  BY <1>1, <1>2 DEF Expire, Redeliver, Requeued, TypeOK, DeliveryTypeOK
<1>7. ASSUME NEW j \in Identifiers \ disturbed' PROVE Quiet(j)'
  BY <1>2, <1>5, <1>6, <1>7, SameHandlers DEF QuietInv
<1>8. GeneratedWasStored'
  BY <1>2 DEF QuietInv, FlowInv, GeneratedWasStored, Announced, Unwritten, documents
<1>9. ASSUME NEW j \in Identifiers, NEW v \in Workers, IsAt(v, j) PROVE Knows(j, v)'
  BY <1>2, <1>9 DEF QuietInv, FlowInv, Knows, Unwritten, documents
<1> QED
  BY <1>4, <1>5, <1>7, <1>8, <1>9 DEF QuietInv, FlowInv

LEMMA StutterQuiet ==
  ASSUME QuietInv, UNCHANGED vars
  PROVE  QuietInv'
<1>1. /\ Unwritten
      /\ UNCHANGED <<sub, deliveries, held, lease, step, reason, tries, disturbed>> /\ TypeOK
  BY DEF vars, deliveryVars, histories, Unwritten, QuietInv, FlowInv
<1>2. TypeOK'
  BY <1>1 DEF TypeOK, DeliveryTypeOK, Unwritten, documents
<1>3. \A v \in Workers, j \in Identifiers : IsAt(v, j)' <=> IsAt(v, j)
  BY <1>1 DEF IsAt, Identifier
<1>4. ASSUME NEW j \in Identifiers \ disturbed' PROVE Quiet(j)'
  BY <1>1, <1>3, <1>4, SameHandlers DEF QuietInv
<1>5. GeneratedWasStored'
  BY <1>1 DEF QuietInv, FlowInv, GeneratedWasStored, Announced, Unwritten, documents
<1>6. ASSUME NEW j \in Identifiers, NEW v \in Workers, IsAt(v, j) PROVE Knows(j, v)'
  BY <1>1, <1>6 DEF QuietInv, FlowInv, Knows, Unwritten, documents
<1> QED
  BY <1>2, <1>3, <1>4, <1>5, <1>6 DEF QuietInv, FlowInv

---------------------------------------------------------------------------------
(* The theorems.                                                           *)

LEMMA InitQuiet == Init => QuietInv
<1> SUFFICES ASSUME Init PROVE QuietInv
  OBVIOUS
<1>1. TypeOK
  BY DeliveryAssumption, SignalAssumption
     DEF Init, DeliveryInit, TypeOK, DeliveryTypeOK, ReasonCodes, KeyStates
<1>2. \A w \in Workers : held[w] = NoMessage
  BY DEF Init, DeliveryInit
<1>3. \A w \in Workers, i \in Identifiers : ~IsAt(w, i)
  BY <1>2 DEF IsAt
<1>4. GeneratedWasStored
  BY DEF Init, GeneratedWasStored, Announced, Events
<1>5. ASSUME NEW i \in Identifiers PROVE Rests(i) /\ AcksAreTrue(i)
  BY DEF Init, DeliveryInit, Rests, Marks, Announced, AcksAreTrue, Events
<1> QED
  BY <1>1, <1>3, <1>4, <1>5 DEF QuietInv, FlowInv, Quiet

LEMMA NextQuiet ==
  ASSUME QuietInv, [Next]_vars
  PROVE  QuietInv'
<1>1. ASSUME NEW w \in Workers, Handle(w) PROVE QuietInv'
  BY <1>1, AcquireQuiet, DuplicateQuiet, FindRunQuiet, ConfirmQuiet, TerminateQuiet,
     ResolveQuiet, WriteSignalsQuiet, SaveRunQuiet, FindDispatchQuiet, SaveDispatchQuiet,
     FindFailedQuiet, PublishQuiet, ReplyQuiet
     DEF Handle, UseKey, Generate
<1> QED
  BY <1>1, ReceiveQuiet, RequestFailsQuiet, PublishFailsQuiet, CrashQuiet, SubscriptionQuiet,
     StutterQuiet DEF Next

(* Every variable keeps its type.                                          *)
THEOREM TypeCorrect == Spec => []TypeOK
<1>1. QuietInv => TypeOK
  BY QuietInvImplies
<1> QED
  BY <1>1, InitQuiet, NextQuiet, PTL DEF Spec

(* An event that can be decoded and whose universe is not empty is         *)
(* acknowledged only after its outcome was told of, unless its handling    *)
(* was disturbed, whatever request fails.  Of an empty universe the code   *)
(* never tells (FirstStep), and the theorem says nothing.                  *)
THEOREM AcknowledgedIsReported == Spec => []AckedIsReported
<1>1. QuietInv => AckedIsReported
  BY QuietInvImplies
<1> QED
  BY <1>1, InitQuiet, NextQuiet, PTL DEF Spec

(* On the same condition, a dispatch that is said to be published was.     *)
THEOREM DispatchesAreTrue == Spec => []DispatchIsTrue
<1>1. QuietInv => DispatchIsTrue
  BY QuietInvImplies
<1> QED
  BY <1>1, InitQuiet, NextQuiet, PTL DEF Spec

LEMMA OnlyPublishPublishes ==
  ASSUME TypeOK, [Next]_vars
  PROVE  published' = published \/ \E w \in Workers : Publish(w)
<1>1. ASSUME NEW w \in Workers, UseKey(w) PROVE published' = published
  BY <1>1 DEF UseKey, Acquire, Duplicate, FindRun, Confirm, Terminate, Done
<1>2. ASSUME NEW w \in Workers, Generate(w) PROVE published' = published
  BY <1>2 DEF Generate, Resolve, Infer, WriteSignals, SaveRun, FindDispatch, SaveDispatch, Done
<1>3. ASSUME NEW w \in Workers, SaveFailed(w) \/ FindFailed(w) \/ Reply(w) \/ RequestFails(w)
                                \/ PublishFails(w) \/ Crash(w)
      PROVE  published' = published
  BY <1>3 DEF SaveFailed, FindFailed, Reply, RequestFails, PublishFails, Crash, Done
<1>4. ASSUME NEW w \in Workers, NEW m \in Messages, Receive(w, m) PROVE published' = published
  BY <1>4 DEF Receive
<1>5. CASE Subscription
  BY <1>5 DEF Subscription
<1>6. CASE UNCHANGED vars
  BY <1>6 DEF vars
<1> QED
  BY <1>1, <1>2, <1>3, <1>4, <1>5, <1>6 DEF Next, Handle

LEMMA AnnouncedStaysSo ==
  ASSUME QuietInv, [Next]_vars, NEW i \in Identifiers \ (disturbed \cup doubted), Announced(i)
  PROVE  published'[i] = published[i]
<1>1. CASE \E w \in Workers : Publish(w)
  <2>1. PICK w \in Workers : Publish(w)
    BY <1>1
  <2>2. step[w] \in Publications /\ step[w] # "idle" /\ TypeOK
    BY <2>1 DEF Publish, Publications, QuietInv, FlowInv
  <2>3. PICK j \in Identifiers : j = Identifier(w) /\ IsAt(w, j)
    BY <2>2, StepOfHandler
  <2>4. CASE j = i
    <3>1. Fits(i, w) /\ Knows(i, w) /\ payload[i] = "valid"
      BY <2>3, <2>4 DEF QuietInv, Quiet, FlowInv, GeneratedWasStored, Announced
    <3> QED
      BY <2>2, <3>1 DEF Fits, Knows, Undecided, Untold, Publications
  <2>5. CASE j # i
    <3>1. PICK e \in Events : published' = [published EXCEPT ![j][e] = @ + 1]
      BY <2>1, <2>3 DEF Publish, Sent, EventAt, Events
    <3> QED
      BY <2>2, <2>5, <3>1 DEF TypeOK
  <2> QED
    BY <2>4, <2>5
<1> QED
  BY <1>1, OnlyPublishPublishes DEF QuietInv, FlowInv

---------------------------------------------------------------------------------
(* The contract: to store signals and to publish are steps of it, every    *)
(* other step is a stutter, or disturbs an event.                          *)

VerifiedEvents == {i \in Identifiers : payload[i] = "valid"}

contractVars == <<VerifiedEvents, signals, published, disturbed, doubted>>

StepContract == Contract!Next \/ UNCHANGED contractVars

\* What all of Next but WriteSignals and Publish does, of one event.
LEMMA DisturbContract ==
  ASSUME NEW i \in Identifiers, UNCHANGED <<payload, signals, published, doubted>>,
         disturbed' \in {disturbed, disturbed \cup {i}}
  PROVE  StepContract
<1>1. CASE disturbed' = disturbed
  BY <1>1 DEF StepContract, contractVars, VerifiedEvents
<1>2. CASE disturbed' = disturbed \cup {i}
  <2>1. Contract!Disturb(i)
    BY <1>2 DEF Contract!Disturb
  <2> QED
    BY <2>1 DEF StepContract, Contract!Next
<1> QED
  BY <1>1, <1>2

LEMMA StoreContract ==
  ASSUME QuietInv, NEW w \in Workers, WriteSignals(w)
  PROVE  StepContract
<1>1. /\ step[w] = "writeSignals" /\ signals' = signals \cup {Identifier(w)}
      /\ UNCHANGED <<payload, published, disturbed, doubted>>
  BY DEF WriteSignals, histories
<1>2. PICK i \in Identifiers : i = Identifier(w) /\ IsAt(w, i)
  BY <1>1, StepOfHandler DEF QuietInv, FlowInv
<1>3. i \in VerifiedEvents
  BY <1>1, <1>2 DEF QuietInv, FlowInv, Knows, Verified, VerifiedEvents
<1>4. Contract!Store(i)
  BY <1>1, <1>2, <1>3 DEF Contract!Store, VerifiedEvents
<1> QED
  BY <1>4 DEF StepContract, Contract!Next

LEMMA PublishContract ==
  ASSUME QuietInv, [Next]_vars, NEW w \in Workers, Publish(w)
  PROVE  StepContract
<1> PICK e : e = EventAt(step[w])
  OBVIOUS
<1>1. /\ step[w] \in Publications /\ step[w] # "idle" /\ e \in Events /\ TypeOK
      /\ UNCHANGED <<payload, signals, disturbed>>
      /\ e = "signal.generated" => step[w] = "publishGenerated"
  BY DEF Publish, Publications, EventAt, Events, QuietInv, FlowInv, documents
<1>2. PICK i \in Identifiers : i = Identifier(w) /\ IsAt(w, i)
  BY <1>1, StepOfHandler
<1>3. /\ published' = [published EXCEPT ![i][e] = @ + 1]
      /\ doubted' \in {doubted, doubted \cup {i}}
  BY <1>2 DEF Publish, Sent
<1>4. published'[i] # published[i]
  BY <1>1, <1>3 DEF TypeOK
<1>5. ~Contract!Final(i)
  BY <1>4, AnnouncedStaysSo DEF Contract!Final, Announced
<1>6. e = "signal.generated" => i \in signals
  BY <1>1, <1>2 DEF QuietInv, FlowInv, Knows, Stored
<1>7. Contract!Announce(i, e)
  BY <1>1, <1>3, <1>5, <1>6 DEF Contract!Announce, VerifiedEvents
<1> QED
  BY <1>1, <1>7 DEF StepContract, Contract!Next

LEMMA NextContract ==
  ASSUME QuietInv, [Next]_vars
  PROVE  StepContract
<1>1. ASSUME NEW w \in Workers, NEW m \in Messages, Receive(w, m) PROVE StepContract
  <2>1. IdentifierOf[m] \in Identifiers
    BY SignalAssumption
  <2> QED
    BY <1>1, <2>1, DisturbContract DEF Receive, documents
<1>2. ASSUME NEW w \in Workers, step[w] # "idle",
             UNCHANGED <<payload, signals, published, doubted>>,
             disturbed' \in {disturbed, disturbed \cup {Identifier(w)}}
      PROVE  StepContract
  BY <1>2, StepOfHandler, DisturbContract DEF QuietInv, FlowInv
<1>3. ASSUME NEW w \in Workers, UseKey(w) PROVE StepContract
  BY <1>2, <1>3
  DEF UseKey, Acquire, Duplicate, FindRun, Confirm, Terminate, Disturb, Done, documents, histories
<1>4. ASSUME NEW w \in Workers, Resolve(w) \/ Infer(w) \/ SaveRun(w) \/ FindDispatch(w)
                                \/ SaveDispatch(w) \/ SaveFailed(w) \/ FindFailed(w)
      PROVE  StepContract
  BY <1>2, <1>4
  DEF Resolve, Infer, SaveRun, FindDispatch, SaveDispatch, SaveFailed, FindFailed, Done, documents,
      histories
<1>5. ASSUME NEW w \in Workers, RequestFails(w) \/ PublishFails(w) \/ Reply(w) \/ Crash(w)
      PROVE  StepContract
  BY <1>2, <1>5
  DEF RequestFails, PublishFails, Reply, Crash, Disturb, Reads, Writes, Publications, documents,
      histories
<1>6. CASE Subscription \/ UNCHANGED vars
  BY <1>6 DEF Subscription, vars, documents, histories, StepContract, contractVars, VerifiedEvents
<1> QED
  BY <1>1, <1>3, <1>4, <1>5, <1>6, StoreContract, PublishContract DEF Next, Handle, Generate

(* Whatever fails and however handlers overlap, signal-generator           *)
(* implements SignalContract: signals are made of verified input, stored   *)
(* before they are announced, and final once they are, unless the handling *)
(* of their event was disturbed or an announcement left in doubt.          *)
THEOREM ImplementsContract == Spec => ContractSpec
<1>1. Init => Contract!Init
  BY DEF Init, Contract!Init
<1>2. QuietInv /\ [Next]_vars => [Contract!Next]_contractVars
  BY NextContract DEF StepContract
<1> QED
  BY <1>1, <1>2, InitQuiet, NextQuiet, PTL
  DEF Spec, ContractSpec, Contract!Spec, contractVars, VerifiedEvents

---------------------------------------------------------------------------------
(***************************************************************************)
(* Where no fault of four kinds happens, and one message at most carries   *)
(* an event, no event is ever disturbed or doubted.                        *)
(***************************************************************************)

Calm ==
  /\ Faults \cap {"crash", "overlap", "persistLost", "lostAnswer"} = {}
  /\ \A m, n \in Messages : IdentifierOf[m] = IdentifierOf[n] => m = n

\* No two handlers work on one message, and what they work on is outstanding.
HandlersApart ==
  /\ \A w \in Workers : held[w] # NoMessage => sub[held[w]] = "outstanding"
  /\ \A v, w \in Workers : held[v] # NoMessage /\ held[v] = held[w] => v = w

CalmInv == QuietInv /\ HandlersApart /\ disturbed = {} /\ doubted = {}

LEMMA CalmStep ==
  ASSUME Calm, CalmInv, [Next]_vars
  PROVE  CalmInv'
<1>1. TypeOK /\ QuietInv'
  BY NextQuiet DEF CalmInv, QuietInv, FlowInv
<1>2. ASSUME NEW w \in Workers, NEW m \in Messages, Receive(w, m) PROVE CalmInv'
  <2>1. HandlersApart' /\ \A v \in Workers : held[v] # m
    BY <1>1, <1>2, DeliveryAssumption
    DEF CalmInv, TypeOK, DeliveryTypeOK, HandlersApart, Receive, Push
  <2>2. ~Contested(w, m)
    BY <1>1, <2>1 DEF Contested, Calm, Identifier, TypeOK, DeliveryTypeOK
  <2> QED
    BY <1>1, <1>2, <2>1, <2>2 DEF CalmInv, Receive
<1>3. ASSUME NEW w \in Workers,
             UseKey(w) \/ Generate(w) \/ SaveFailed(w) \/ FindFailed(w) \/ Publish(w)
             \/ RequestFails(w) \/ PublishFails(w)
      PROVE  CalmInv'
  <2>1. UNCHANGED <<disturbed, doubted>>
    BY <1>3 DEF Calm, UseKey, Generate, SaveFailed, FindFailed, Publish, RequestFails,
       PublishFails, Acquire, Duplicate, FindRun, Confirm, Terminate, Resolve, Infer,
       WriteSignals, SaveRun, FindDispatch, SaveDispatch, Done, Reads, histories
  <2>2. UNCHANGED deliveryVars
    BY <1>3 DEF UseKey, Generate, SaveFailed, FindFailed, Publish, RequestFails,
       PublishFails, Acquire, Duplicate, FindRun, Confirm, Terminate, Resolve, Infer,
       WriteSignals, SaveRun, FindDispatch, SaveDispatch, Done
  <2> QED
    BY <1>1, <2>1, <2>2 DEF CalmInv, HandlersApart, deliveryVars
<1>4. ASSUME NEW w \in Workers, Reply(w) PROVE CalmInv'
  <2>1. held[w] # NoMessage /\ (Ack(w) \/ Nack(w)) /\ UNCHANGED histories
    BY <1>1, <1>4 DEF Reply, TypeOK
  <2>2. /\ held' = [held EXCEPT ![w] = NoMessage]
        /\ \A m \in Messages : m # held[w] => sub'[m] = sub[m]
    BY <1>1, <2>1 DEF Ack, Nack, Release, TypeOK, DeliveryTypeOK
  <2>3. HandlersApart'
    BY <1>1, <2>1, <2>2 DEF CalmInv, HandlersApart, TypeOK, DeliveryTypeOK
  <2> QED
    BY <1>1, <2>1, <2>3 DEF CalmInv, histories
<1>5. ASSUME NEW w \in Workers, Crash(w) PROVE FALSE
  BY <1>5 DEF Crash, Calm
<1>6. CASE Subscription
  <2>1. PICK m \in Messages : Redeliver(m)
    BY <1>6 DEF Subscription, Expire, Calm
  <2>2. HandlersApart'
    BY <1>1, <2>1 DEF CalmInv, TypeOK, DeliveryTypeOK, HandlersApart, Redeliver
  <2> QED
    BY <1>1, <1>6, <2>2 DEF CalmInv, Subscription, histories
<1>7. CASE UNCHANGED vars
  BY <1>1, <1>7 DEF CalmInv, HandlersApart, vars, deliveryVars, histories
<1> QED
  BY <1>2, <1>3, <1>4, <1>5, <1>6, <1>7 DEF Next, Handle

(* Reads and publications that fail, and redeliveries, alone take nothing  *)
(* from what the service promises (RULE-SG-008, INV-SG-004): every event   *)
(* that can be decoded and whose universe is not empty is reported before  *)
(* it is acknowledged, no dispatch lies, and nothing follows announced     *)
(* signals.  An empty universe is acknowledged and never reported, calm or *)
(* not (FirstStep).                                                        *)
THEOREM ReportedWhenCalm ==
  ASSUME Calm
  PROVE  Spec =>
           /\ [](\A m \in Messages : LET i == IdentifierOf[m] IN
                   sub[m] = "acked" /\ payload[i] \in Decodable \ {"empty"} => Reported(i))
           /\ [](\A i \in Identifiers : keys[i] \in {"generated", "failed"} => Reported(i))
           /\ [][\A i \in Identifiers :
                   published[i]["signal.generated"] > 0 => published'[i] = published[i]]_vars
<1>1. Init => CalmInv
  BY InitQuiet DEF Init, DeliveryInit, CalmInv, HandlersApart
<1>2. CalmInv => \A m \in Messages : LET i == IdentifierOf[m] IN
                   sub[m] = "acked" /\ payload[i] \in Decodable \ {"empty"} => Reported(i)
  BY QuietInvImplies DEF CalmInv, AckedIsReported
<1>3. CalmInv => \A i \in Identifiers : keys[i] \in {"generated", "failed"} => Reported(i)
  BY QuietInvImplies DEF CalmInv, DispatchIsTrue, Reported, Events
<1>4. CalmInv /\ [Next]_vars =>
        [\A i \in Identifiers :
           published[i]["signal.generated"] > 0 => published'[i] = published[i]]_vars
  BY AnnouncedStaysSo DEF CalmInv, Announced
<1> QED
  BY <1>1, <1>2, <1>3, <1>4, CalmStep, PTL DEF Spec

=================================================================================
