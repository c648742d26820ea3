---------------------------- MODULE LeasedKeyProofs -----------------------------
(***************************************************************************)
(* What the idempotency key keeps whatever the work under it is, for any   *)
(* number of messages, events, handlers and deliveries: the lemmas that    *)
(* the proofs about feature-engineering and hypothesis-lab share.          *)
(***************************************************************************)
EXTENDS LeasedKey, TLAPS

---------------------------------------------------------------------------------
(* The invariant of the key.                                               *)

\* A handler that has come past the envelope holds a message of an event.
KeyOK ==
  /\ LeasedKeyTypeOK
  /\ step = [w \in Workers |-> step[w]]
  /\ \A w \in Workers : step[w] \notin {"idle", "error"} => held[w] \in WellFormed

(* While nothing disturbs the handling of i, its key is leased as long as  *)
(* one handler works on it, nobody takes it over, and who is done with i   *)
(* has seen it processed.                                                  *)
Exclusive(i) ==
  /\ keys[i] # "lapsed"
  /\ \A w, v \in Owners(i) : w = v
  /\ (keys[i] = "leased") = (Owners(i) # {})
  /\ \A w \in Workers : held[w] \in Messages /\ Identifier(w) = i =>
       /\ step[w] # "take"
       /\ step[w] = "look" => keys[i] # "absent"
       /\ step[w] = "ok" => keys[i] = "processed"
  /\ \A m \in WellFormed : IdentifierOf[m] = i /\ sub[m] = "acked" => keys[i] = "processed"

KeyInv == KeyOK /\ \A i \in Identifiers \ disturbed : Exclusive(i)

---------------------------------------------------------------------------------
(* The subscription keeps its types.                                       *)

LEMMA PushType ==
  ASSUME DeliveryTypeOK, NEW w \in Workers, NEW m \in Messages, Push(w, m)
  PROVE  /\ DeliveryTypeOK'
         /\ held' = [held EXCEPT ![w] = m]
  BY DeliveryAssumption DEF DeliveryTypeOK, Push

LEMMA AnswerType ==
  ASSUME DeliveryTypeOK, NEW w \in Workers, held[w] \in Messages, Ack(w) \/ Nack(w)
  PROVE  /\ DeliveryTypeOK'
         /\ held' = [held EXCEPT ![w] = NoMessage]
<1>1. /\ sub'[held[w]] \in {sub[held[w]], "acked", Requeued(held[w])}
      /\ sub' = [sub EXCEPT ![held[w]] = sub'[held[w]]]
      /\ UNCHANGED deliveries
  BY DEF Ack, Nack, Release, DeliveryTypeOK
<1>2. Requeued(held[w]) = "queued" => deliveries[held[w]] < MaxDeliveries
  BY DEF Requeued
<1>3. Requeued(held[w]) \in {"queued", "dead"}
  BY DEF Requeued
<1>4. /\ held' = [held EXCEPT ![w] = NoMessage]
      /\ lease' = [lease EXCEPT ![w] = 0]
  BY DEF Ack, Nack, Release
<1> QED
  BY <1>1, <1>2, <1>3, <1>4, DeliveryAssumption DEF DeliveryTypeOK

LEMMA SubscriptionType ==
  ASSUME DeliveryTypeOK, NEW m \in Messages, Expire(m) \/ Redeliver(m)
  PROVE  DeliveryTypeOK' /\ held' = held
  BY DEF DeliveryTypeOK, Expire, Redeliver, Requeued

\* The handler w goes from one step to another, and the rest stay.
OnlyStep(w) ==
  /\ step' = [step EXCEPT ![w] = step'[w]]
  /\ UNCHANGED <<held, sub>>

LEMMA EventOfHandler ==
  ASSUME KeyOK, NEW w \in Workers, step[w] \notin {"idle", "error"}
  PROVE  /\ held[w] \in Messages /\ held[w] \in WellFormed
         /\ Identifier(w) \in Identifiers
  BY LeasedKeyAssumption DEF KeyOK, Identifier

---------------------------------------------------------------------------------
(* What a step of one handler means for the keys.                          *)

(* Of a step of the handler w only the key of its event needs a look.      *)
LEMMA KeyByHandler ==
  ASSUME KeyInv, KeyOK', NEW w \in Workers, OnlyStep(w), step[w] \notin {"idle", "error"},
         NEW i, i = Identifier(w),
         \A j \in Identifiers \ {i} : keys'[j] = keys[j],
         disturbed \subseteq disturbed', i \notin disturbed' => Exclusive(i)'
  PROVE  KeyInv'
<1>1. i \in Identifiers
  BY EventOfHandler DEF KeyInv
<1>2. \A v \in Workers : v # w => step'[v] = step[v]
  BY DEF OnlyStep, KeyInv, KeyOK
<1>3. \A v \in Workers : Identifier(v)' = Identifier(v)
  BY DEF OnlyStep, Identifier
<1>4. ASSUME NEW j \in Identifiers \ disturbed', j # i
      PROVE  Exclusive(j)'
  <2>1. Exclusive(j) /\ keys'[j] = keys[j] /\ held' = held /\ sub' = sub
    BY <1>4 DEF KeyInv, OnlyStep
  <2>2. \A v \in Workers : Identifier(v) = j => v # w /\ step'[v] = step[v]
    BY <1>2, <1>4
  <2>3. Owners(j)' = Owners(j)
    BY <1>3, <2>2 DEF Owners, Working
  <2> QED
    BY <1>3, <2>1, <2>2, <2>3 DEF Exclusive
<1> QED
  BY <1>1, <1>4 DEF KeyInv

(* A request of the work itself: it leaves the key alone, and leaves the   *)
(* work only when it failed to release.                                    *)
WorkStep(w) ==
  /\ Working(w)
  /\ \E s : /\ step' = [step EXCEPT ![w] = s]
            /\ s \notin Outside \/ (s = "error" /\ Identifier(w) \in disturbed')
  /\ disturbed' \in {disturbed, disturbed \cup {Identifier(w)}}
  /\ UNCHANGED <<deliveryVars, keys>>

LEMMA WorkKey ==
  ASSUME KeyInv, NEW w \in Workers, WorkStep(w)
  PROVE  KeyInv' /\ OnlyStep(w)
<1> PICK s : /\ step' = [step EXCEPT ![w] = s]
             /\ s \notin Outside \/ (s = "error" /\ Identifier(w) \in disturbed')
  BY DEF WorkStep
<1> PICK i : i = Identifier(w)
  OBVIOUS
<1>1. /\ step[w] \notin Outside
      /\ disturbed' \in {disturbed, disturbed \cup {i}}
      /\ UNCHANGED <<sub, deliveries, held, lease, keys>>
  BY DEF WorkStep, Working, deliveryVars
<1>2. held[w] \in WellFormed /\ i \in Identifiers /\ step[w] \notin {"idle", "error"}
      /\ held[w] # NoMessage
  BY <1>1, EventOfHandler, DeliveryAssumption, LeasedKeyAssumption DEF KeyInv, Outside
<1>3. step'[w] = s /\ s # "idle" /\ OnlyStep(w)
  BY <1>1 DEF KeyInv, KeyOK, Outside, OnlyStep
<1>4. KeyOK'
  BY <1>1, <1>2, <1>3 DEF KeyInv, KeyOK, LeasedKeyTypeOK, DeliveryTypeOK
<1>5. ASSUME i \notin disturbed' PROVE Exclusive(i)'
  <2>1. Exclusive(i) /\ s \notin Outside
    BY <1>1, <1>2, <1>5 DEF KeyInv
  <2>2. \A v \in Workers : /\ v # w => step'[v] = step[v]
                           /\ Identifier(v)' = Identifier(v)
    BY <1>1 DEF KeyInv, KeyOK, Identifier
  <2>3. Owners(i)' = Owners(i)
    BY <1>1, <1>3, <2>1, <2>2 DEF Owners, Working
  <2> QED
    BY <1>1, <1>3, <2>1, <2>2, <2>3 DEF Exclusive, Outside, ReserveSteps
<1> QED
  BY <1>1, <1>2, <1>3, <1>4, <1>5, KeyByHandler

(* A request of the key that fails, and does nothing.                      *)
LEMMA FailedReserve ==
  ASSUME KeyInv, NEW w \in Workers, step[w] \in ReserveSteps, Fail(w),
         UNCHANGED <<deliveryVars, keys>>
  PROVE  KeyInv' /\ OnlyStep(w)
<1> PICK i : i = Identifier(w)
  OBVIOUS
<1>1. /\ step' = [step EXCEPT ![w] = "error"]
      /\ disturbed' = disturbed \cup {i}
      /\ UNCHANGED <<sub, deliveries, held, lease, keys>>
  BY DEF Fail, Goto, OnError, Disturb, deliveryVars
<1>2. step[w] \notin {"idle", "error"}
  BY DEF ReserveSteps
<1>3. held[w] \in Messages /\ i \in Identifiers /\ held[w] # NoMessage
  BY <1>2, EventOfHandler, DeliveryAssumption DEF KeyInv
<1>4. OnlyStep(w) /\ step'[w] = "error"
  BY <1>1 DEF KeyInv, KeyOK, OnlyStep
<1>5. KeyOK'
  BY <1>1, <1>3, <1>4 DEF KeyInv, KeyOK, LeasedKeyTypeOK, DeliveryTypeOK
<1> QED
  BY <1>1, <1>2, <1>3, <1>4, <1>5, KeyByHandler

---------------------------------------------------------------------------------
(* The requests of the key.                                                *)

\* A request of the handler w that does not end in an error moves on to next.
Moves(w, next) ==
  \E s : /\ step' = [step EXCEPT ![w] = s]
         /\ \/ s = next /\ disturbed' = disturbed
            \/ s = OnError(step[w]) /\ disturbed' = disturbed \cup {Identifier(w)}

LEMMA DoneMoves ==
  ASSUME NEW w \in Workers, NEW next, Done(w, next)
  PROVE  Moves(w, next)
  BY DEF Done, Fail, Goto, Disturb, Moves

(* What is left to show of a request about the key of i.                   *)
LEMMA KeyRequest ==
  ASSUME KeyInv, NEW w \in Workers, step[w] \in ReserveSteps \cup {"settle", "release"},
         NEW i, i = Identifier(w), NEW next, next # "idle", Moves(w, next),
         UNCHANGED deliveryVars, NEW value \in KeyStates, keys' = [keys EXCEPT ![i] = value],
         step' = [step EXCEPT ![w] = next] /\ disturbed' = disturbed /\ i \notin disturbed
           => Exclusive(i)'
  PROVE  KeyInv' /\ OnlyStep(w)
<1> PICK s : /\ step' = [step EXCEPT ![w] = s]
             /\ \/ s = next /\ disturbed' = disturbed
                \/ s = OnError(step[w]) /\ disturbed' = disturbed \cup {i}
  BY DEF Moves
<1>1. step[w] \notin {"idle", "error"} /\ s # "idle"
  BY DEF ReserveSteps, OnError
<1>2. held[w] \in WellFormed /\ i \in Identifiers /\ held[w] # NoMessage
  BY <1>1, EventOfHandler, DeliveryAssumption, LeasedKeyAssumption DEF KeyInv
<1>3. UNCHANGED <<sub, deliveries, held, lease>>
  BY DEF deliveryVars
<1>4. step'[w] = s /\ OnlyStep(w)
  BY <1>3 DEF KeyInv, KeyOK, OnlyStep
<1>5. KeyOK'
  BY <1>1, <1>2, <1>3, <1>4 DEF KeyInv, KeyOK, LeasedKeyTypeOK, DeliveryTypeOK
<1>6. /\ \A j \in Identifiers \ {i} : keys'[j] = keys[j]
      /\ disturbed \subseteq disturbed'
  BY DEF KeyInv, KeyOK, LeasedKeyTypeOK
<1>7. i \notin disturbed' => Exclusive(i)'
  OBVIOUS
<1> QED
  BY <1>1, <1>4, <1>5, <1>6, <1>7, KeyByHandler

(* The handlers of i when the handler w moves on without a fault.          *)
LEMMA HandlersAfter ==
  ASSUME KeyInv, NEW w \in Workers, NEW next, step' = [step EXCEPT ![w] = next],
         UNCHANGED deliveryVars
  PROVE  /\ step'[w] = next
         /\ \A v \in Workers : v # w => step'[v] = step[v]
         /\ \A v \in Workers : Identifier(v)' = Identifier(v)
         /\ UNCHANGED <<held, sub>>
  BY DEF KeyInv, KeyOK, Identifier, deliveryVars

LEMMA CreateKeyInv ==
  ASSUME KeyInv, NEW w \in Workers, CreateKey(w), UNCHANGED deliveryVars
  PROVE  KeyInv' /\ OnlyStep(w)
<1> PICK i : i = Identifier(w)
  OBVIOUS
<1> PICK next \in {"reserved", "look"}, value \in KeyStates :
      /\ next = IF keys[i] = "absent" THEN "reserved" ELSE "look"
      /\ value = IF keys[i] = "absent" THEN "leased" ELSE keys[i]
  BY EventOfHandler DEF CreateKey, KeyStates, KeyInv, KeyOK, LeasedKeyTypeOK
<1>1. step[w] = "create" /\ i \in Identifiers
  BY EventOfHandler DEF CreateKey, KeyInv
<1>2. keys' = [keys EXCEPT ![i] = value] /\ Moves(w, next)
  BY <1>1, DoneMoves DEF CreateKey, SetKey, KeyInv, KeyOK, LeasedKeyTypeOK
<1>3. ASSUME step' = [step EXCEPT ![w] = next], i \notin disturbed
      PROVE  Exclusive(i)'
  <2>1. Exclusive(i) /\ keys'[i] = value
    BY <1>1, <1>2, <1>3 DEF KeyInv, KeyOK, LeasedKeyTypeOK
  <2>2. /\ step'[w] = next
        /\ \A v \in Workers : v # w => step'[v] = step[v]
        /\ \A v \in Workers : Identifier(v)' = Identifier(v)
        /\ held' = held /\ sub' = sub
    BY <1>3, HandlersAfter
  <2>3. CASE keys[i] = "absent"
    <3>1. Owners(i) = {}
      BY <2>1, <2>3 DEF Exclusive
    <3>2. Owners(i)' = {w}
      BY <2>2, <2>3, <3>1 DEF Owners, Working, Outside, ReserveSteps
    <3> QED
      BY <2>1, <2>2, <2>3, <3>2 DEF Exclusive
  <2>4. CASE keys[i] # "absent"
    <3>1. Owners(i)' = Owners(i)
      BY <1>1, <2>2, <2>4 DEF Owners, Working, Outside, ReserveSteps
    <3> QED
      BY <2>1, <2>2, <2>4, <3>1 DEF Exclusive
  <2> QED
    BY <2>3, <2>4
<1> QED
  BY <1>1, <1>2, <1>3, KeyRequest DEF ReserveSteps

LEMMA LookAtKeyInv ==
  ASSUME KeyInv, NEW w \in Workers, LookAtKey(w), UNCHANGED deliveryVars
  PROVE  KeyInv' /\ OnlyStep(w)
<1> PICK i : i = Identifier(w)
  OBVIOUS
<1> PICK next \in {"ok", "error", "take"} : next = AfterLook(keys[i])
  BY DEF AfterLook
<1>1. step[w] = "look" /\ i \in Identifiers /\ held[w] \in Messages
  BY EventOfHandler DEF LookAtKey, KeyInv
<1>2. /\ keys' = [keys EXCEPT ![i] = keys[i]] /\ keys' = keys /\ keys[i] \in KeyStates
      /\ Moves(w, next)
  BY <1>1, DoneMoves DEF LookAtKey, KeyInv, KeyOK, LeasedKeyTypeOK
<1>3. ASSUME step' = [step EXCEPT ![w] = next], i \notin disturbed
      PROVE  Exclusive(i)'
  <2>1. Exclusive(i)
    BY <1>1, <1>3 DEF KeyInv
  <2>2. /\ step'[w] = next
        /\ \A v \in Workers : v # w => step'[v] = step[v]
        /\ \A v \in Workers : Identifier(v)' = Identifier(v)
        /\ held' = held /\ sub' = sub
    BY <1>3, HandlersAfter
  <2>3. next \in {"ok", "error"}
    BY <1>1, <1>2, <2>1 DEF Exclusive, AfterLook, KeyStates
  <2>4. Owners(i)' = Owners(i)
    BY <1>1, <2>2, <2>3 DEF Owners, Working, Outside, ReserveSteps
  <2>5. next = "ok" => keys[i] = "processed"
    BY DEF AfterLook
  <2> QED
    BY <1>2, <2>1, <2>2, <2>3, <2>4, <2>5 DEF Exclusive
<1> QED
  BY <1>1, <1>2, <1>3, KeyRequest DEF ReserveSteps

LEMMA TakeKeyInv ==
  ASSUME KeyInv, NEW w \in Workers, TakeKey(w), UNCHANGED deliveryVars
  PROVE  KeyInv' /\ OnlyStep(w)
<1> PICK i : i = Identifier(w)
  OBVIOUS
<1>1. step[w] = "take" /\ i \in Identifiers /\ held[w] \in Messages
  BY EventOfHandler DEF TakeKey, KeyInv
<1>2. keys' = [keys EXCEPT ![i] = "leased"] /\ Moves(w, "reserved")
  BY DoneMoves DEF TakeKey, SetKey
<1>3. i \in disturbed
  BY <1>1 DEF KeyInv, Exclusive
<1> QED
  BY <1>1, <1>2, <1>3, KeyRequest DEF ReserveSteps, KeyStates

LEMMA SettleKeyInv ==
  ASSUME KeyInv, NEW w \in Workers, SettleKey(w), UNCHANGED deliveryVars
  PROVE  KeyInv' /\ OnlyStep(w)
<1> PICK i : i = Identifier(w)
  OBVIOUS
<1>1. step[w] = "settle" /\ i \in Identifiers /\ held[w] \in Messages
  BY EventOfHandler DEF SettleKey, KeyInv
<1>2. keys' = [keys EXCEPT ![i] = "processed"] /\ Moves(w, "ok")
  BY DoneMoves DEF SettleKey, SetKey
<1>3. ASSUME step' = [step EXCEPT ![w] = "ok"], i \notin disturbed
      PROVE  Exclusive(i)'
  <2>1. Exclusive(i) /\ keys'[i] = "processed"
    BY <1>1, <1>2, <1>3 DEF KeyInv, KeyOK, LeasedKeyTypeOK
  <2>2. /\ step'[w] = "ok"
        /\ \A v \in Workers : v # w => step'[v] = step[v]
        /\ \A v \in Workers : Identifier(v)' = Identifier(v)
        /\ held' = held /\ sub' = sub
    BY <1>3, HandlersAfter
  <2>3. w \in Owners(i)
    BY <1>1 DEF Owners, Working, Outside, ReserveSteps
  <2>4. Owners(i)' = {}
    BY <2>1, <2>2, <2>3 DEF Exclusive, Owners, Working, Outside, ReserveSteps
  <2> QED
    BY <2>1, <2>2, <2>4 DEF Exclusive
<1> QED
  BY <1>1, <1>2, <1>3, KeyRequest DEF KeyStates

LEMMA ReleaseKeyInv ==
  ASSUME KeyInv, NEW w \in Workers, ReleaseKey(w), UNCHANGED deliveryVars
  PROVE  KeyInv' /\ OnlyStep(w)
<1> PICK i : i = Identifier(w)
  OBVIOUS
<1>1. step[w] = "release" /\ i \in Identifiers /\ held[w] \in Messages
  BY EventOfHandler DEF ReleaseKey, KeyInv
<1>2. /\ keys' = [keys EXCEPT ![i] = Released(keys[i])] /\ Released(keys[i]) \in KeyStates
      /\ Moves(w, "error") /\ i \in disturbed'
  BY <1>1
  DEF ReleaseKey, SetKey, Goto, Disturb, Moves, OnError, Released, KeyStates, KeyInv, KeyOK,
      LeasedKeyTypeOK
<1>3. disturbed' = disturbed => i \in disturbed
  BY <1>2
<1> QED
  BY <1>1, <1>2, <1>3, KeyRequest

---------------------------------------------------------------------------------
(* The life of a handler around the work.                                  *)

LEMMA InitKey == ASSUME LeasedKeyInit PROVE KeyInv
<1>1. DeliveryTypeOK
  BY DeliveryAssumption DEF LeasedKeyInit, DeliveryInit, DeliveryTypeOK
<1>2. \A w \in Workers : step[w] = "idle" /\ held[w] = NoMessage
  BY DEF LeasedKeyInit, DeliveryInit
<1>3. KeyOK
  BY <1>1, <1>2 DEF LeasedKeyInit, KeyOK, LeasedKeyTypeOK, KeyStates
<1>4. \A i \in Identifiers : Owners(i) = {} /\ keys[i] = "absent"
  BY <1>2 DEF LeasedKeyInit, Owners, Working, Outside
<1>5. \A m \in WellFormed : sub[m] # "acked"
  BY LeasedKeyAssumption DEF LeasedKeyInit, DeliveryInit
<1> QED
  BY <1>2, <1>3, <1>4, <1>5 DEF KeyInv, Exclusive

(* A message is acknowledged by a handler that is done with it.            *)
LEMMA AnswerAcks ==
  ASSUME KeyInv, NEW w \in Workers, Answer(w) \/ Crash(w), NEW m \in Messages,
         sub'[m] = "acked"
  PROVE  sub[m] = "acked" \/ (step[w] = "ok" /\ held[w] = m)
<1>1. (step[w] = "ok" /\ Ack(w)) \/ Nack(w)
  BY DEF Answer, Crash
<1>2. sub \in [Messages -> {"queued", "outstanding", "acked", "dead"}]
  BY DEF KeyInv, KeyOK, LeasedKeyTypeOK, DeliveryTypeOK
<1> QED
  BY <1>1, <1>2 DEF Ack, Nack, Requeued

LEMMA ElsewhereAcks ==
  ASSUME KeyInv, NEW m \in Messages, sub'[m] = "acked",
         \/ \E n \in Messages : Expire(n) \/ Redeliver(n)
         \/ \E w \in Workers, n \in Messages : ReceiveMessage(w, n)
  PROVE  sub[m] = "acked"
  BY DEF Expire, Redeliver, Requeued, ReceiveMessage, Push, KeyInv, KeyOK, LeasedKeyTypeOK,
         DeliveryTypeOK

\* What an answer, or a message taken up, may acknowledge.
Acks(w) ==
  \A m \in WellFormed : sub'[m] = "acked" => sub[m] = "acked" \/ (step[w] = "ok" /\ held[w] = m)

\* The handler w takes up a message or lets it go, and is at s then.
Turns(w, s) ==
  /\ step[w] \in {"idle", "ok", "error"} /\ s \in {"idle", "create", "error"}
  /\ step' = [step EXCEPT ![w] = s]
  /\ \A v \in Workers : v # w => held'[v] = held[v]
  /\ Acks(w)
  /\ UNCHANGED keyVars

LEMMA HandlerHolds ==
  ASSUME KeyInv, NEW w \in Workers, step[w] # "idle"
  PROVE  held[w] \in Messages
  BY DEF KeyInv, KeyOK, LeasedKeyTypeOK, DeliveryTypeOK

LEMMA TurnKey ==
  ASSUME KeyInv, KeyOK', NEW w \in Workers, NEW s, Turns(w, s)
  PROVE  KeyInv'
<1>1. /\ step'[w] = s /\ UNCHANGED <<keys, disturbed>>
      /\ \A v \in Workers : v # w => /\ step'[v] = step[v] /\ held'[v] = held[v]
                                     /\ Identifier(v)' = Identifier(v)
  BY DEF Turns, KeyInv, KeyOK, Identifier, keyVars
<1>2. ~Working(w) /\ ~Working(w)'
  BY <1>1 DEF Turns, Working, Outside, ReserveSteps
<1>3. ASSUME NEW i \in Identifiers \ disturbed
      PROVE  Exclusive(i)'
  <2>1. \A v \in Workers : (Working(v) /\ Identifier(v) = i)' <=> Working(v) /\ Identifier(v) = i
    BY <1>1, <1>2 DEF Working
  <2>2. Owners(i)' = Owners(i)
    BY <2>1 DEF Owners
  <2>3. Exclusive(i)
    BY DEF KeyInv
  <2>4. s # "take" /\ s # "look" /\ s # "ok"
    BY DEF Turns
  <2>5. \A m \in WellFormed : IdentifierOf[m] = i /\ sub'[m] = "acked" => keys[i] = "processed"
    BY <2>3, HandlerHolds DEF Exclusive, Turns, Acks, Identifier
  <2> QED
    BY <1>1, <2>2, <2>3, <2>4, <2>5 DEF Exclusive
<1> QED
  BY <1>1, <1>3 DEF KeyInv

LEMMA ReceiveKey ==
  ASSUME KeyInv, NEW w \in Workers, NEW m \in Messages, ReceiveMessage(w, m)
  PROVE  /\ KeyInv'
         /\ held' = [held EXCEPT ![w] = m]
         /\ \E s \in {"create", "error"} : step' = [step EXCEPT ![w] = s]
<1>1. DeliveryTypeOK' /\ held' = [held EXCEPT ![w] = m]
  BY PushType DEF KeyInv, KeyOK, LeasedKeyTypeOK, ReceiveMessage
<1> PICK s \in {"create", "error"} : s = IF m \in WellFormed THEN "create" ELSE "error"
  OBVIOUS
<1>2. step[w] = "idle" /\ step' = [step EXCEPT ![w] = s] /\ UNCHANGED <<keys, disturbed>>
  BY DEF ReceiveMessage, Goto, keyVars
<1>3. KeyOK'
  BY <1>1, <1>2, DeliveryAssumption DEF KeyInv, KeyOK, LeasedKeyTypeOK, DeliveryTypeOK
<1>4. Acks(w)
  BY ElsewhereAcks, LeasedKeyAssumption DEF Acks
<1>5. Turns(w, s)
  BY <1>1, <1>2, <1>4 DEF Turns, keyVars, KeyInv, KeyOK, LeasedKeyTypeOK, DeliveryTypeOK
<1> QED
  BY <1>1, <1>2, <1>3, <1>5, TurnKey

LEMMA AnswerKey ==
  ASSUME KeyInv, NEW w \in Workers, Answer(w)
  PROVE  /\ KeyInv'
         /\ held' = [held EXCEPT ![w] = NoMessage]
         /\ step' = [step EXCEPT ![w] = "idle"]
<1>1. /\ step[w] \in {"ok", "error"} /\ (Ack(w) \/ Nack(w))
      /\ step' = [step EXCEPT ![w] = "idle"] /\ UNCHANGED <<keys, disturbed>>
  BY DEF Answer, Goto, keyVars
<1>2. DeliveryTypeOK' /\ held' = [held EXCEPT ![w] = NoMessage]
  BY <1>1, HandlerHolds, AnswerType DEF KeyInv, KeyOK, LeasedKeyTypeOK
<1>3. KeyOK'
  BY <1>1, <1>2 DEF KeyInv, KeyOK, LeasedKeyTypeOK, DeliveryTypeOK
<1>4. Acks(w)
  BY AnswerAcks, LeasedKeyAssumption DEF Acks
<1>5. Turns(w, "idle")
  BY <1>1, <1>2, <1>4 DEF Turns, keyVars, KeyInv, KeyOK, LeasedKeyTypeOK, DeliveryTypeOK
<1> QED
  BY <1>1, <1>2, <1>3, <1>5, TurnKey

LEMMA CrashKey ==
  ASSUME KeyInv, NEW w \in Workers, Crash(w)
  PROVE  /\ KeyInv'
         /\ held' = [held EXCEPT ![w] = NoMessage]
         /\ step' = [step EXCEPT ![w] = "idle"]
<1> PICK i : i = Identifier(w)
  OBVIOUS
<1>1. /\ step[w] # "idle" /\ Nack(w)
      /\ step' = [step EXCEPT ![w] = "idle"] /\ UNCHANGED keys
      /\ disturbed' = disturbed \cup {i}
  BY DEF Crash, Goto, Disturb
<1>2. held[w] \in Messages /\ i \in Identifiers
  BY <1>1, HandlerHolds, LeasedKeyAssumption DEF Identifier
<1>3. DeliveryTypeOK' /\ held' = [held EXCEPT ![w] = NoMessage]
  BY <1>1, <1>2, AnswerType DEF KeyInv, KeyOK, LeasedKeyTypeOK
<1>4. KeyOK'
  BY <1>1, <1>2, <1>3 DEF KeyInv, KeyOK, LeasedKeyTypeOK, DeliveryTypeOK
<1>5. ASSUME NEW j \in Identifiers \ disturbed'
      PROVE  Exclusive(j)'
  <2>1. Exclusive(j) /\ j # i /\ j \notin disturbed
    BY <1>1 DEF KeyInv
  <2>2. /\ step'[w] = "idle" /\ held'[w] = NoMessage
        /\ \A v \in Workers : v # w => /\ step'[v] = step[v] /\ held'[v] = held[v]
                                       /\ Identifier(v)' = Identifier(v)
    BY <1>1, <1>3 DEF KeyInv, KeyOK, LeasedKeyTypeOK, DeliveryTypeOK, Identifier
  <2>3. \A v \in Workers : (Working(v) /\ Identifier(v) = j)' <=> Working(v) /\ Identifier(v) = j
    BY <2>1, <2>2 DEF Working, Outside
  <2>4. Owners(j)' = Owners(j)
    BY <2>3 DEF Owners
  <2>5. \A m \in WellFormed : IdentifierOf[m] = j /\ sub'[m] = "acked" => sub[m] = "acked"
    BY <1>1, <2>1, AnswerAcks, LeasedKeyAssumption DEF Identifier
  <2> QED
    BY <1>1, <2>1, <2>2, <2>4, <2>5, DeliveryAssumption DEF Exclusive
<1> QED
  BY <1>1, <1>3, <1>4, <1>5 DEF KeyInv

LEMMA LeaseExpiresKey ==
  ASSUME KeyInv, NEW i \in Identifiers, LeaseExpires(i)
  PROVE  KeyInv' /\ UNCHANGED <<step, held>>
<1>1. /\ keys' = [keys EXCEPT ![i] = "lapsed"]
      /\ UNCHANGED <<sub, deliveries, held, lease, step>>
      /\ disturbed' \in {disturbed, disturbed \cup {i}}
  BY DEF LeaseExpires, deliveryVars
<1>2. KeyOK'
  BY <1>1 DEF KeyInv, KeyOK, LeasedKeyTypeOK, DeliveryTypeOK, KeyStates
<1>3. i \in disturbed'
  <2>1. i \notin disturbed => (keys[i] = "leased") = (Owners(i) # {})
    BY DEF KeyInv, Exclusive
  <2> QED
    BY <2>1 DEF LeaseExpires
<1>4. ASSUME NEW j \in Identifiers \ disturbed'
      PROVE  Exclusive(j)'
  <2>1. Exclusive(j) /\ keys'[j] = keys[j]
    BY <1>1, <1>3, <1>4 DEF KeyInv, KeyOK, LeasedKeyTypeOK
  <2>2. Owners(j)' = Owners(j)
    BY <1>1 DEF Owners, Working, Identifier
  <2> QED
    BY <1>1, <2>1, <2>2 DEF Exclusive, Identifier
<1> QED
  BY <1>1, <1>2, <1>4 DEF KeyInv

(* A step that leaves the handlers and the keys alone.                     *)
LEMMA ElsewhereKey ==
  ASSUME KeyInv, UNCHANGED <<step, keyVars>>,
         (\E m \in Messages : Expire(m) \/ Redeliver(m)) \/ UNCHANGED deliveryVars
  PROVE  KeyInv' /\ UNCHANGED held
<1>1. DeliveryTypeOK' /\ held' = held
  <2>1. CASE \E m \in Messages : Expire(m) \/ Redeliver(m)
    BY <2>1, SubscriptionType DEF KeyInv, KeyOK, LeasedKeyTypeOK
  <2>2. CASE UNCHANGED deliveryVars
    BY <2>2 DEF deliveryVars, KeyInv, KeyOK, LeasedKeyTypeOK, DeliveryTypeOK
  <2> QED
    BY <2>1, <2>2
<1>2. UNCHANGED <<step, keys, disturbed>>
  BY DEF keyVars
<1>3. KeyOK'
  BY <1>1, <1>2 DEF KeyInv, KeyOK, LeasedKeyTypeOK
<1>4. ASSUME NEW j \in Identifiers, Exclusive(j) PROVE Exclusive(j)'
  <2>1. Owners(j)' = Owners(j)
    BY <1>1, <1>2 DEF Owners, Working, Identifier
  <2>2. \A m \in WellFormed : sub'[m] = "acked" => sub[m] = "acked"
    BY ElsewhereAcks, LeasedKeyAssumption DEF deliveryVars
  <2>3. \A v \in Workers : Identifier(v)' = Identifier(v)
    BY <1>1 DEF Identifier
  <2>4. \A m \in WellFormed : IdentifierOf[m] = j /\ sub'[m] = "acked" => keys'[j] = "processed"
    BY <1>2, <1>4, <2>2 DEF Exclusive
  <2> QED
    BY <1>1, <1>2, <1>4, <2>1, <2>3, <2>4 DEF Exclusive
<1> QED
  BY <1>1, <1>2, <1>3, <1>4 DEF KeyInv

---------------------------------------------------------------------------------
(* What the services need of it.                                           *)

(* A request of the work, carried out or failed: the handler goes on or    *)
(* releases the key.                                                       *)
LEMMA DoneWork ==
  ASSUME KeyInv, NEW w \in Workers, Working(w), step[w] # "release",
         NEW next, next \notin Outside, Done(w, next), UNCHANGED <<deliveryVars, keys>>
  PROVE  /\ KeyInv' /\ UNCHANGED held /\ disturbed \subseteq disturbed'
         /\ \E s \in {next, "release"} :
              /\ step' = [step EXCEPT ![w] = s]
              /\ s = next \/ Identifier(w) \in disturbed'
<1>1. OnError(step[w]) = "release" /\ "release" \notin Outside
  BY DEF OnError, Working, Outside, ReserveSteps
<1>2. Moves(w, next)
  BY DoneMoves
<1>3. WorkStep(w)
  BY <1>1, <1>2 DEF Moves, WorkStep
<1> QED
  BY <1>1, <1>2, <1>3, WorkKey DEF Moves, OnlyStep

(* A request that failed, whatever it was for.                             *)
LEMMA FailKey ==
  ASSUME KeyInv, NEW w \in Workers, step[w] \notin {"idle", "ok", "error"}, Fail(w),
         UNCHANGED <<deliveryVars, keys>>
  PROVE  /\ KeyInv' /\ UNCHANGED held
         /\ \E s \in {"error", "release"} : step' = [step EXCEPT ![w] = s]
<1>1. CASE step[w] \in ReserveSteps
  BY <1>1, FailedReserve DEF Fail, Goto, OnError, OnlyStep
<1>2. CASE step[w] \notin ReserveSteps
  <2>1. WorkStep(w)
    <3>1. PICK s \in {"error", "release"} : s = OnError(step[w])
      BY DEF OnError
    <3>2. /\ step' = [step EXCEPT ![w] = s]
          /\ disturbed' = disturbed \cup {Identifier(w)}
      BY <3>1 DEF Fail, Goto, Disturb
    <3>3. Working(w) /\ "release" \notin Outside
      BY <1>2 DEF Working, Outside, ReserveSteps
    <3> QED
      BY <3>2, <3>3 DEF WorkStep
  <2> QED
    BY <2>1, WorkKey DEF Fail, Goto, OnError, OnlyStep
<1> QED
  BY <1>1, <1>2

(* Where the requests of the key lead to, and what becomes of the key.     *)
LEMMA UseKeyResult ==
  ASSUME KeyInv, NEW w \in Workers, Reserve(w) \/ SettleKey(w) \/ ReleaseKey(w),
         UNCHANGED deliveryVars
  PROVE  /\ KeyInv' /\ UNCHANGED held
         /\ \E s \in {"reserved", "look", "take", "ok", "error", "release"} :
              /\ step' = [step EXCEPT ![w] = s]
              /\ s \in {"look", "take"} => step[w] \in ReserveSteps
              /\ s = "reserved" => \/ keys[Identifier(w)] = "absent"
                                   \/ Identifier(w) \in disturbed'
              /\ s = "reserved" => step[w] \in ReserveSteps
              /\ s = "ok" => keys[Identifier(w)] = "processed" \/ step[w] = "settle"
         /\ \A i \in Identifiers :
              \/ keys'[i] = keys[i] \/ keys'[i] \in {"leased", "lapsed"}
              \/ i = Identifier(w) /\ step[w] = "settle"
         /\ \A i \in Identifiers : keys'[i] = "absent" => keys[i] = "absent"
<1>1. KeyInv' /\ OnlyStep(w) /\ keys \in [Identifiers -> KeyStates]
  BY CreateKeyInv, LookAtKeyInv, TakeKeyInv, SettleKeyInv, ReleaseKeyInv
  DEF Reserve, KeyInv, KeyOK, LeasedKeyTypeOK
<1>2. held' = held
  BY <1>1 DEF OnlyStep
<1> PICK i : i = Identifier(w)
  OBVIOUS
<1>3. CASE CreateKey(w)
  <2>1. \/ Moves(w, "reserved") /\ keys[i] = "absent"
        \/ Moves(w, "look")
    BY <1>3, DoneMoves DEF CreateKey
  <2>2. step[w] = "create" /\ keys' \in {keys, [keys EXCEPT ![i] = "leased"]}
    BY <1>3 DEF CreateKey, SetKey
  <2>3. PICK s \in {"reserved", "look", "error"} :
          /\ step' = [step EXCEPT ![w] = s]
          /\ s = "reserved" => keys[i] = "absent"
    BY <2>1, <2>2 DEF Moves, OnError, ReserveSteps
  <2>4. step[w] \in ReserveSteps
    BY <2>2 DEF ReserveSteps
  <2>5. \A j \in Identifiers : keys'[j] \in {keys[j], "leased"}
    BY <1>1, <2>2
  <2> QED
    BY <1>1, <1>2, <2>3, <2>4, <2>5
<1>4. CASE LookAtKey(w)
  <2>1. Moves(w, AfterLook(keys[i])) /\ step[w] = "look" /\ keys' = keys
    BY <1>4, DoneMoves DEF LookAtKey
  <2>2. /\ AfterLook(keys[i]) \in {"ok", "error", "take"}
        /\ AfterLook(keys[i]) = "ok" => keys[i] = "processed"
    BY DEF AfterLook
  <2>3. PICK s \in {"ok", "error", "take"} :
          /\ step' = [step EXCEPT ![w] = s]
          /\ s = "ok" => keys[i] = "processed"
    BY <2>1, <2>2 DEF Moves, OnError, ReserveSteps
  <2>4. step[w] \in ReserveSteps
    BY <2>1 DEF ReserveSteps
  <2> QED
    BY <1>1, <1>2, <2>1, <2>3, <2>4
<1>5. CASE TakeKey(w)
  <2>1. Moves(w, "reserved") /\ step[w] = "take" /\ keys' = [keys EXCEPT ![i] = "leased"]
    BY <1>5, DoneMoves DEF TakeKey, SetKey
  <2>2. i \in disturbed /\ i \in Identifiers
    BY <2>1, EventOfHandler DEF KeyInv, Exclusive
  <2> QED
    BY <1>1, <1>2, <2>1, <2>2 DEF Moves, OnError, ReserveSteps
<1>6. CASE SettleKey(w)
  <2>1. Moves(w, "ok") /\ step[w] = "settle" /\ keys' = [keys EXCEPT ![i] = "processed"]
    BY <1>6, DoneMoves DEF SettleKey, SetKey
  <2> QED
    BY <1>1, <1>2, <2>1 DEF Moves, OnError, ReserveSteps
<1>7. CASE ReleaseKey(w)
  <2>1. /\ step' = [step EXCEPT ![w] = "error"]
        /\ keys' = [keys EXCEPT ![i] = Released(keys[i])]
        /\ Released(keys[i]) \in {keys[i], "lapsed"}
    BY <1>7 DEF ReleaseKey, Goto, SetKey, Released
  <2> QED
    BY <1>1, <1>2, <2>1
<1> QED
  BY <1>3, <1>4, <1>5, <1>6, <1>7 DEF Reserve

=================================================================================
