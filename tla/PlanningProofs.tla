----------------------------- MODULE PlanningProofs -----------------------------
(***************************************************************************)
(* Theorems about Planning, for any number of messages, signals, handlers  *)
(* and deliveries, and any faults.                                         *)
(***************************************************************************)
EXTENDS Planning, TLAPS

---------------------------------------------------------------------------------
(* The invariant, in three parts: what a handler knows whatever fails;     *)
(* what a guarded signal is like, whose key tells of its order; and what a *)
(* finished one is like, whose key tells of an announcement.               *)

AllSteps ==
  {"idle", "findKey", "findDispatch", "findOrder", "ok", "error"} \cup Writes \cup Publications

IsAt(w, i) == held[w] # NoMessage /\ Identifier(w) = i

Knows(i, w) ==
  /\ step[w] = "findKey" => payload[i] # "malformed"
  /\ step[w] = "startDispatch" => payload[i] \in {"unsized", "valid"}
  /\ step[w] \in {"saveOrder", "completeDispatch"} \cup Announcing => payload[i] = "valid"
  /\ step[w] = "publishProposed" => Order(w) \in orders
  /\ step[w] = "failDispatch" => payload[i] = "unsized"
  /\ step[w] = "publishFailed" => payload[i] \in {"barred", "unsized"}

\* Only saved orders of a signal that may be traded are announced.
ProposedWasSaved ==
  \A e \in published : e.type = "orders.proposed" =>
    /\ e.orders \subseteq orders
    /\ payload[e.identifier] = "valid"

FlowInv ==
  /\ TypeOK
  /\ ProposedWasSaved
  /\ \A w \in Workers, i \in Identifiers : IsAt(w, i) => Knows(i, w)

\* The steps between the order and its key.
Keying == {"saveOrder", "completeDispatch", "saveKey"}

Guarded(i) ==
  /\ \A v, w \in Workers : IsAt(v, i) /\ IsAt(w, i) => v = w
  /\ \A o, p \in orders : SignalOf(o) = i /\ SignalOf(p) = i => o = p
  /\ \A o \in orders : SignalOf(o) = i =>
       \/ i \in keys
       \/ \E w \in Workers : IsAt(w, i) /\ Order(w) = o /\ step[w] \in Keying
  /\ \A w \in Workers : IsAt(w, i) /\ step[w] \in {"startDispatch", "saveOrder"} =>
       \A o \in orders : SignalOf(o) = i => o = Order(w)

\* The signal has its key, or is announced without one.
Kept(i) == i \in keys \/ Proposed(i)

Finished(i) ==
  /\ i \in keys => Proposed(i) \/ \E w \in Workers : IsAt(w, i) /\ step[w] \in Announcing
  /\ \A w \in Workers : IsAt(w, i) =>
       /\ step[w] # "publishEmpty"
       /\ step[w] = "ok" /\ payload[i] # "malformed" => Kept(i)
  /\ \A m \in Messages :
       IdentifierOf[m] = i /\ sub[m] = "acked" /\ payload[i] # "malformed" => Kept(i)

PlanInv ==
  /\ FlowInv
  /\ \A i \in Identifiers \ unguarded : Guarded(i)
  /\ \A i \in Identifiers \ unfinished : Finished(i)

LEMMA PlanInvImplies ==
  ASSUME PlanInv
  PROVE  TypeOK /\ ProposedWasSaved /\ OneOrderPerSignal /\ AckedIsProposed
<1>1. TypeOK /\ ProposedWasSaved
  BY DEF PlanInv, FlowInv
<1>2. OneOrderPerSignal
  BY DEF PlanInv, Guarded, OneOrderPerSignal
<1>3. AckedIsProposed
  <2> SUFFICES ASSUME NEW m \in Messages, NEW i \in Identifiers, i = IdentifierOf[m],
                      sub[m] = "acked", payload[i] # "malformed", i \notin unfinished, AtRest(i)
               PROVE  Proposed(i)
    BY PlanningAssumption DEF AckedIsProposed
  <2>1. Finished(i) /\ \A w \in Workers : ~IsAt(w, i)
    BY DEF PlanInv, AtRest, IsAt
  <2> QED
    BY <2>1 DEF Finished, Kept
<1> QED
  BY <1>1, <1>2, <1>3

---------------------------------------------------------------------------------
(* A step of a handler w that stays with its signal i.                     *)

Moves(w, i, s) ==
  /\ step[w] # "idle" /\ s # "idle" /\ s \in AllSteps
  /\ i = Identifier(w)
  /\ step' = [step EXCEPT ![w] = s]
  /\ UNCHANGED <<deliveryVars, payload>>

LEMMA HandlerSignal ==
  ASSUME TypeOK, NEW w \in Workers, step[w] # "idle"
  PROVE  held[w] \in Messages /\ Identifier(w) \in Identifiers /\ Order(w) \in Orders
  BY PlanningAssumption DEF TypeOK, DeliveryTypeOK, Identifier, Order, Orders

LEMMA MoveFacts ==
  ASSUME TypeOK, NEW w \in Workers, NEW i \in Identifiers, NEW s, Moves(w, i, s)
  PROVE  /\ IsAt(w, i) /\ \A j \in Identifiers : IsAt(w, j) => j = i
         /\ \A v \in Workers, j \in Identifiers : IsAt(v, j)' <=> IsAt(v, j)
         /\ \A v \in Workers : Order(v)' = Order(v)
         /\ step'[w] = s /\ \A v \in Workers \ {w} : step'[v] = step[v]
         /\ SignalOf(Order(w)) = i
         /\ Order(w) \in Orders
         /\ step' \in [Workers -> AllSteps]
         /\ \A v \in Workers : (step'[v] = "idle") = (held'[v] = NoMessage)
         /\ DeliveryTypeOK'
<1>1. Order(w) \in Orders
  BY HandlerSignal DEF Moves
<1>2. DeliveryTypeOK'
  BY DEF Moves, TypeOK, DeliveryTypeOK, deliveryVars
<1> QED
  BY <1>1, <1>2
     DEF Moves, TypeOK, IsAt, Order, Identifier, SignalOf, deliveryVars, AllSteps

LEMMA ByHandler ==
  ASSUME PlanInv, NEW w \in Workers, NEW i \in Identifiers, NEW s, Moves(w, i, s),
         keys \subseteq keys' /\ keys' \subseteq keys \cup {i},
         dispatches' \in [Identifiers -> {"none", "pending", "completed", "failed"}],
         orders \subseteq orders' /\ orders' \subseteq orders \cup {Order(w)},
         published \subseteq published' /\ published' \subseteq Events,
         \A e \in published' \ published : e.type = "orders.proposed" =>
           e.orders \subseteq orders' /\ payload[e.identifier] = "valid",
         unguarded \subseteq unguarded' /\ unguarded' \subseteq Identifiers,
         unfinished \subseteq unfinished' /\ unfinished' \subseteq Identifiers,
         Knows(i, w) => Knows(i, w)',
         i \notin unguarded' /\ Guarded(i) => Guarded(i)',
         i \notin unfinished' /\ Finished(i) => Finished(i)'
  PROVE  PlanInv'
<1>1. TypeOK /\ payload' = payload /\ sub' = sub
  BY DEF PlanInv, FlowInv, Moves, deliveryVars
<1>2. TypeOK'
  BY <1>1, MoveFacts DEF TypeOK, AllSteps
<1>3. ProposedWasSaved'
  BY <1>1 DEF PlanInv, FlowInv, ProposedWasSaved
<1>4. ASSUME NEW v \in Workers, NEW j \in Identifiers, IsAt(v, j)' PROVE Knows(j, v)'
  <2>1. IsAt(v, j) /\ Knows(j, v)
    BY <1>1, <1>4, MoveFacts DEF PlanInv, FlowInv
  <2>2. CASE v = w
    BY <1>1, <2>1, <2>2, MoveFacts
  <2>3. CASE v # w
    BY <1>1, <2>1, <2>3, MoveFacts DEF Knows
  <2> QED
    BY <2>2, <2>3
<1>5. ASSUME NEW j \in Identifiers \ unguarded' PROVE Guarded(j)'
  <2>1. Guarded(j)
    BY <1>5 DEF PlanInv
  <2>2. CASE j = i
    BY <1>5, <2>1, <2>2
  <2>3. CASE j # i
    <3>1. /\ \A o \in orders' : SignalOf(o) = j => o \in orders
          /\ j \in keys' <=> j \in keys
      BY <1>1, <2>3, MoveFacts
    <3>2. \A v \in Workers : IsAt(v, j)' => IsAt(v, j) /\ Order(v)' = Order(v) /\ step'[v] = step[v]
      BY <1>1, <2>3, MoveFacts
    <3>3. \A v \in Workers : IsAt(v, j) => IsAt(v, j)' /\ Order(v)' = Order(v) /\ step'[v] = step[v]
      BY <1>1, <2>3, MoveFacts
    <3> QED
      BY <2>1, <3>1, <3>2, <3>3 DEF Guarded, SignalOf
  <2> QED
    BY <2>2, <2>3
<1>6. ASSUME NEW j \in Identifiers \ unfinished' PROVE Finished(j)'
  <2>1. Finished(j)
    BY <1>6 DEF PlanInv
  <2>2. CASE j = i
    BY <1>6, <2>1, <2>2
  <2>3. CASE j # i
    <3>1. /\ Proposed(j) => Proposed(j)'
          /\ j \in keys' <=> j \in keys
          /\ Kept(j) => Kept(j)'
      BY <2>3 DEF Proposed, Kept, SignalOf, OrdersProposed
    <3>2. \A v \in Workers : IsAt(v, j)' => IsAt(v, j) /\ step'[v] = step[v]
      BY <1>1, <2>3, MoveFacts
    <3>3. \A v \in Workers : IsAt(v, j) => IsAt(v, j)' /\ step'[v] = step[v]
      BY <1>1, <2>3, MoveFacts
    <3> QED
      BY <1>1, <2>1, <3>1, <3>2, <3>3 DEF Finished
  <2> QED
    BY <2>2, <2>3
<1> QED
  BY <1>2, <1>3, <1>4, <1>5, <1>6 DEF PlanInv, FlowInv

---------------------------------------------------------------------------------
(* When such a step keeps a signal guarded, and when it keeps it finished. *)

Grows(w, i) ==
  /\ keys \subseteq keys' /\ keys' \subseteq keys \cup {i}
  /\ orders \subseteq orders' /\ orders' \subseteq orders \cup {Order(w)}
  /\ published \subseteq published'

LEMMA GuardedMove ==
  ASSUME TypeOK, NEW w \in Workers, NEW i \in Identifiers, NEW s, Moves(w, i, s),
         Grows(w, i), Guarded(i),
         orders' # orders => step[w] = "saveOrder",
         step[w] \in Keying => s \in Keying \/ i \in keys',
         s \in {"startDispatch", "saveOrder"} =>
           \/ step[w] \in {"startDispatch", "saveOrder"}
           \/ step[w] = "findKey" /\ i \notin keys
  PROVE  Guarded(i)'
<1>1. /\ IsAt(w, i) /\ step'[w] = s
      /\ \A v \in Workers : (IsAt(v, i)' <=> IsAt(v, i)) /\ Order(v)' = Order(v)
      /\ \A v \in Workers \ {w} : step'[v] = step[v]
  BY MoveFacts
<1>2. \A v \in Workers : IsAt(v, i) => v = w
  BY <1>1 DEF Guarded
<1>3. \A v \in Workers : IsAt(v, i)' => v = w
  BY <1>1, <1>2
<1>4. orders' # orders => \A o \in orders : SignalOf(o) = i => o = Order(w)
  BY <1>1 DEF Guarded
<1>5. \A o, p \in orders' : SignalOf(o)' = i /\ SignalOf(p)' = i => o = p
  BY <1>4 DEF Guarded, Grows, SignalOf
<1>6. ASSUME NEW o \in orders', SignalOf(o) = i, i \notin keys'
      PROVE  Order(w) = o /\ s \in Keying
  <2>1. CASE o \in orders
    BY <1>2, <1>6, <2>1 DEF Guarded, Grows
  <2>2. CASE o \notin orders
    BY <1>6, <2>2 DEF Grows, Keying
  <2> QED
    BY <2>1, <2>2
<1>7. ASSUME s \in {"startDispatch", "saveOrder"}, NEW o \in orders', SignalOf(o) = i
      PROVE  o = Order(w)
  <2>1. CASE o \in orders /\ step[w] \in {"startDispatch", "saveOrder"}
    BY <1>1, <1>7, <2>1 DEF Guarded
  <2>2. CASE o \in orders /\ step[w] = "findKey" /\ i \notin keys
    BY <1>2, <1>7, <2>2 DEF Guarded, Keying
  <2>3. CASE o \notin orders
    BY <1>7, <2>3 DEF Grows
  <2> QED
    BY <1>7, <2>1, <2>2, <2>3
<1>8. \A o \in orders' : SignalOf(o)' = i =>
        \/ i \in keys'
        \/ \E v \in Workers : IsAt(v, i)' /\ Order(v)' = o /\ step'[v] \in Keying
  BY <1>1, <1>6 DEF SignalOf
<1>9. \A v \in Workers : IsAt(v, i)' /\ step'[v] \in {"startDispatch", "saveOrder"} =>
        \A o \in orders' : SignalOf(o)' = i => o = Order(v)'
  BY <1>1, <1>3, <1>7 DEF SignalOf
<1>10. \A u, v \in Workers : IsAt(u, i)' /\ IsAt(v, i)' => u = v
  BY <1>3
<1> QED
  BY <1>5, <1>8, <1>9, <1>10 DEF Guarded

LEMMA ProposedStays ==
  ASSUME NEW i \in Identifiers, orders \subseteq orders', published \subseteq published',
         Proposed(i)
  PROVE  Proposed(i)'
  BY DEF Proposed, SignalOf, OrdersProposed

LEMMA FinishedMove ==
  ASSUME TypeOK, NEW w \in Workers, NEW i \in Identifiers, NEW s, Moves(w, i, s),
         Grows(w, i), Finished(i),
         keys' # keys => s \in Announcing,
         step[w] \in Announcing => s \in Announcing \/ i \notin keys' \/ Proposed(i)',
         s # "publishEmpty",
         s = "ok" => step[w] = "ok" \/ Kept(i)'
  PROVE  Finished(i)'
<1>1. /\ IsAt(w, i) /\ step'[w] = s
      /\ \A v \in Workers : (IsAt(v, i)' <=> IsAt(v, i))
      /\ \A v \in Workers \ {w} : step'[v] = step[v]
  BY MoveFacts
<1>2. (Proposed(i) => Proposed(i)') /\ (Kept(i) => Kept(i)')
  BY ProposedStays DEF Grows, Kept
<1>3. payload' = payload /\ sub' = sub
  BY DEF Moves, deliveryVars
<1>4. ASSUME i \in keys', ~Proposed(i)'
      PROVE  \E v \in Workers : IsAt(v, i)' /\ step'[v] \in Announcing
  <2>1. CASE keys' # keys
    BY <1>1, <2>1
  <2>2. CASE keys' = keys
    <3>1. PICK v \in Workers : IsAt(v, i) /\ step[v] \in Announcing
      BY <1>2, <1>4, <2>2 DEF Finished
    <3> QED
      BY <1>1, <1>4, <3>1
  <2> QED
    BY <2>1, <2>2
<1>5. \A v \in Workers : IsAt(v, i)' =>
        /\ step'[v] # "publishEmpty"
        /\ step'[v] = "ok" /\ payload'[i] # "malformed" => Kept(i)'
  BY <1>1, <1>2, <1>3 DEF Finished
<1> QED
  BY <1>2, <1>3, <1>4, <1>5 DEF Finished

LEMMA HandlerStep ==
  ASSUME PlanInv, NEW w \in Workers, NEW i \in Identifiers, NEW s, Moves(w, i, s), Grows(w, i),
         dispatches' \in [Identifiers -> {"none", "pending", "completed", "failed"}],
         published' \subseteq Events,
         \A e \in published' \ published : e.type = "orders.proposed" =>
           e.orders \subseteq orders' /\ payload[e.identifier] = "valid",
         unguarded' \in {unguarded, unguarded \cup {i}},
         unfinished' \in {unfinished, unfinished \cup {i}},
         Knows(i, w) => Knows(i, w)',
         orders' # orders => step[w] = "saveOrder",
         keys' # keys => s \in Announcing,
         i \notin unguarded' =>
           /\ step[w] \in Keying => s \in Keying \/ i \in keys'
           /\ s \in {"startDispatch", "saveOrder"} =>
                \/ step[w] \in {"startDispatch", "saveOrder"}
                \/ step[w] = "findKey" /\ i \notin keys,
         i \notin unfinished' =>
           /\ step[w] \in Announcing => s \in Announcing \/ i \notin keys' \/ Proposed(i)'
           /\ s # "publishEmpty"
           /\ s = "ok" => step[w] = "ok" \/ Kept(i)'
  PROVE  PlanInv'
<1>1. TypeOK
  BY DEF PlanInv, FlowInv
<1>2. i \notin unguarded' /\ Guarded(i) => Guarded(i)'
  BY <1>1, GuardedMove
<1>3. i \notin unfinished' /\ Finished(i) => Finished(i)'
  BY <1>1, FinishedMove
<1>4. /\ unguarded \subseteq unguarded' /\ unguarded' \subseteq Identifiers
      /\ unfinished \subseteq unfinished' /\ unfinished' \subseteq Identifiers
  BY <1>1 DEF TypeOK
<1> QED
  BY <1>2, <1>3, <1>4, ByHandler DEF Grows

(* A handler at work is at one event.                                      *)
LEMMA StepOfHandler ==
  ASSUME PlanInv, NEW w \in Workers, step[w] # "idle"
  PROVE  \E i \in Identifiers : i = Identifier(w) /\ IsAt(w, i) /\ Knows(i, w)
<1>1. Identifier(w) \in Identifiers /\ held[w] # NoMessage
  BY HandlerSignal DEF PlanInv, FlowInv, TypeOK
<1> QED
  BY <1>1 DEF PlanInv, FlowInv, IsAt

(* What no action of a handler but a write or a publication changes.       *)
LEMMA Unchanged ==
  ASSUME PlanInv, UNCHANGED <<documents, published>>, NEW w \in Workers, NEW i \in Identifiers
  PROVE  /\ Grows(w, i)
         /\ keys' = keys /\ orders' = orders /\ published' = published
         /\ dispatches' \in [Identifiers -> {"none", "pending", "completed", "failed"}]
         /\ published' \subseteq Events
         /\ \A e \in published' \ published : e.type = "orders.proposed" =>
              e.orders \subseteq orders' /\ payload[e.identifier] = "valid"
  BY DEF PlanInv, FlowInv, TypeOK, Grows, documents

---------------------------------------------------------------------------------
(* The reads.                                                              *)

LEMMA FindKeyInv ==
  ASSUME PlanInv, NEW w \in Workers, FindKey(w)
  PROVE  PlanInv'
<1>1. step[w] = "findKey"
  BY DEF FindKey
<1>2. PICK i \in Identifiers : i = Identifier(w) /\ IsAt(w, i) /\ Knows(i, w)
  BY <1>1, StepOfHandler
<1>3. PICK s \in {"ok", "publishFailed", "startDispatch"} :
        /\ step' = [step EXCEPT ![w] = s]
        /\ s = "ok" => i \in keys
        /\ s = "publishFailed" => payload[i] = "barred"
        /\ s = "startDispatch" =>
             payload[i] # "barred" /\ (i \notin keys \/ i \in unguarded')
  BY <1>2, HandlerSignal DEF FindKey, Goto, AfterKey
<1>4. unguarded' \in {unguarded, unguarded \cup {i}} /\ unfinished' = unfinished
  BY <1>2 DEF FindKey
<1>5. UNCHANGED <<documents, published>> /\ UNCHANGED <<deliveryVars, payload>>
  BY DEF FindKey
<1>6. Moves(w, i, s)
  BY <1>1, <1>2, <1>3, <1>5 DEF Moves, AllSteps, Writes, Publications
<1>7. Knows(i, w)'
  BY <1>1, <1>2, <1>3, <1>5, <1>6, MoveFacts
     DEF PlanInv, FlowInv, TypeOK, Payloads, Knows, Announcing
<1>8. s = "ok" => Kept(i)'
  BY <1>3, <1>5 DEF Kept, documents
<1> QED
  BY <1>1, <1>3, <1>4, <1>5, <1>6, <1>7, <1>8, Unchanged, HandlerStep DEF Keying, Announcing

LEMMA FindDispatchInv ==
  ASSUME PlanInv, NEW w \in Workers, FindDispatch(w)
  PROVE  PlanInv'
<1>1. step[w] = "findDispatch"
  BY DEF FindDispatch
<1>2. PICK i \in Identifiers : i = Identifier(w) /\ IsAt(w, i) /\ Knows(i, w)
  BY <1>1, StepOfHandler
<1>3. PICK s \in {"findOrder", "error"} :
        /\ step' = [step EXCEPT ![w] = s]
        /\ s = "error" => i \notin keys \/ i \in unfinished'
  BY <1>2 DEF FindDispatch, Goto
<1>4. unfinished' \in {unfinished, unfinished \cup {i}} /\ unguarded' = unguarded
  BY <1>2 DEF FindDispatch
<1>5. UNCHANGED <<documents, published>> /\ UNCHANGED <<deliveryVars, payload>>
  BY DEF FindDispatch
<1>6. Moves(w, i, s)
  BY <1>1, <1>2, <1>3, <1>5 DEF Moves, AllSteps
<1>7. Knows(i, w)'
  BY <1>1, <1>2, <1>3, <1>5, <1>6, MoveFacts DEF PlanInv, FlowInv, Knows, Announcing
<1> QED
  BY <1>1, <1>3, <1>4, <1>5, <1>6, <1>7, Unchanged, HandlerStep DEF Keying, Announcing

LEMMA FindOrderInv ==
  ASSUME PlanInv, NEW w \in Workers, FindOrder(w)
  PROVE  PlanInv'
<1>1. step[w] = "findOrder"
  BY DEF FindOrder
<1>2. PICK i \in Identifiers : i = Identifier(w) /\ IsAt(w, i) /\ Knows(i, w)
  BY <1>1, StepOfHandler
<1>3. PICK s \in {"publishProposed", "publishEmpty"} :
        /\ step' = [step EXCEPT ![w] = s]
        /\ s = "publishProposed" => Order(w) \in orders
        /\ s = "publishEmpty" => i \in unfinished'
  BY <1>2 DEF FindOrder, Goto
<1>4. unfinished' \in {unfinished, unfinished \cup {i}} /\ unguarded' = unguarded
  BY <1>2 DEF FindOrder
<1>5. UNCHANGED <<documents, published>> /\ UNCHANGED <<deliveryVars, payload>>
  BY DEF FindOrder
<1>6. Moves(w, i, s)
  BY <1>1, <1>2, <1>3, <1>5 DEF Moves, AllSteps, Publications
<1>7. Knows(i, w)'
  BY <1>1, <1>2, <1>3, <1>5, <1>6, MoveFacts
     DEF PlanInv, FlowInv, Knows, Announcing, documents
<1> QED
  BY <1>1, <1>3, <1>4, <1>5, <1>6, <1>7, Unchanged, HandlerStep DEF Keying, Announcing

---------------------------------------------------------------------------------
(* The writes.                                                             *)

LEMMA AfterWriteResult ==
  ASSUME NEW w \in Workers
  PROVE  /\ step[w] = "startDispatch" =>
              AfterWrite(w) = IF payload[Identifier(w)] = "unsized" THEN "failDispatch"
                              ELSE "saveOrder"
         /\ step[w] = "failDispatch" => AfterWrite(w) = "publishFailed"
         /\ step[w] = "saveOrder" => AfterWrite(w) = "completeDispatch"
         /\ step[w] = "completeDispatch" => AfterWrite(w) = "saveKey"
         /\ step[w] = "saveKey" => AfterWrite(w) = "findDispatch"
  BY DEF AfterWrite

LEMMA StatusAtResult ==
  ASSUME NEW s \in {"startDispatch", "completeDispatch", "failDispatch"}
  PROVE  StatusAt(s) \in {"none", "pending", "completed", "failed"}
  BY DEF StatusAt

LEMMA WrittenStep ==
  ASSUME NEW w \in Workers, TypeOK, Written(w)
  PROVE  \E s \in {step[w], AfterWrite(w)} : step' = [step EXCEPT ![w] = s]
<1>1. step = [step EXCEPT ![w] = step[w]]
  BY DEF TypeOK
<1> QED
  BY <1>1 DEF Written, Goto

LEMMA PersistDispatchInv ==
  ASSUME PlanInv, NEW w \in Workers, PersistDispatch(w)
  PROVE  PlanInv'
<1>1. step[w] \in {"startDispatch", "completeDispatch", "failDispatch"} /\ TypeOK
  BY DEF PersistDispatch, PlanInv, FlowInv
<1>2. PICK i \in Identifiers : i = Identifier(w) /\ IsAt(w, i) /\ Knows(i, w)
  BY <1>1, StepOfHandler
<1>3. PICK s \in {step[w], AfterWrite(w)} : step' = [step EXCEPT ![w] = s]
  BY <1>1, WrittenStep DEF PersistDispatch
<1>4. /\ step[w] = "startDispatch" =>
           \/ s = "startDispatch"
           \/ s = "failDispatch" /\ payload[i] = "unsized"
           \/ s = "saveOrder" /\ payload[i] = "valid"
      /\ step[w] = "completeDispatch" => s \in {"completeDispatch", "saveKey"}
      /\ step[w] = "failDispatch" => s \in {"failDispatch", "publishFailed"}
  BY <1>2, <1>3, AfterWriteResult DEF Knows
<1>5. /\ UNCHANGED <<keys, orders, published, unguarded, unfinished>>
      /\ UNCHANGED <<deliveryVars, payload>>
  BY DEF PersistDispatch, Written, histories
<1>6. Moves(w, i, s)
  BY <1>1, <1>2, <1>3, <1>4, <1>5 DEF Moves, AllSteps, Writes, Publications
<1>7. Knows(i, w)'
  BY <1>1, <1>2, <1>4, <1>5, <1>6, MoveFacts DEF Knows, Announcing
<1>8. dispatches' \in [Identifiers -> {"none", "pending", "completed", "failed"}]
  BY <1>1, <1>2, StatusAtResult DEF PersistDispatch, TypeOK
<1>9. Grows(w, i) /\ published' \subseteq Events
  BY <1>1, <1>5 DEF Grows, TypeOK
<1> QED
  BY <1>1, <1>4, <1>5, <1>6, <1>7, <1>8, <1>9, HandlerStep DEF Keying, Announcing

LEMMA PersistOrderInv ==
  ASSUME PlanInv, NEW w \in Workers, PersistOrder(w)
  PROVE  PlanInv'
<1>1. step[w] = "saveOrder" /\ TypeOK
  BY DEF PersistOrder, PlanInv, FlowInv
<1>2. PICK i \in Identifiers : i = Identifier(w) /\ IsAt(w, i) /\ Knows(i, w)
  BY <1>1, StepOfHandler
<1>3. PICK s \in {"saveOrder", "completeDispatch"} : step' = [step EXCEPT ![w] = s]
  BY <1>1, WrittenStep, AfterWriteResult DEF PersistOrder
<1>5. /\ UNCHANGED <<keys, dispatches, published, unguarded, unfinished>>
      /\ UNCHANGED <<deliveryVars, payload>>
  BY DEF PersistOrder, Written, histories
<1>6. Moves(w, i, s)
  BY <1>1, <1>2, <1>3, <1>5 DEF Moves, AllSteps, Writes
<1>7. Knows(i, w)'
  BY <1>1, <1>2, <1>3, <1>5, <1>6, MoveFacts DEF Knows, Announcing
<1>8. Grows(w, i) /\ published' \subseteq Events
  BY <1>1, <1>5 DEF PersistOrder, Grows, TypeOK
<1>9. dispatches' \in [Identifiers -> {"none", "pending", "completed", "failed"}]
  BY <1>1, <1>5 DEF TypeOK
<1> QED
  BY <1>1, <1>3, <1>5, <1>6, <1>7, <1>8, <1>9, HandlerStep DEF Keying, Announcing

LEMMA PersistKeyInv ==
  ASSUME PlanInv, NEW w \in Workers, PersistKey(w)
  PROVE  PlanInv'
<1>1. step[w] = "saveKey" /\ TypeOK
  BY DEF PersistKey, PlanInv, FlowInv
<1>2. PICK i \in Identifiers : i = Identifier(w) /\ IsAt(w, i) /\ Knows(i, w)
  BY <1>1, StepOfHandler
<1>3. PICK s \in {"saveKey", "findDispatch"} : step' = [step EXCEPT ![w] = s]
  BY <1>1, WrittenStep, AfterWriteResult DEF PersistKey
<1>5. /\ UNCHANGED <<dispatches, orders, published, unguarded, unfinished>>
      /\ UNCHANGED <<deliveryVars, payload>>
  BY DEF PersistKey, Written, histories
<1>6. Moves(w, i, s)
  BY <1>1, <1>2, <1>3, <1>5 DEF Moves, AllSteps, Writes
<1>7. Knows(i, w)'
  BY <1>1, <1>2, <1>3, <1>5, <1>6, MoveFacts DEF Knows, Announcing
<1>8. Grows(w, i) /\ i \in keys' /\ published' \subseteq Events
  BY <1>1, <1>2, <1>5 DEF PersistKey, Grows, TypeOK
<1>9. dispatches' \in [Identifiers -> {"none", "pending", "completed", "failed"}]
  BY <1>1, <1>5 DEF TypeOK
<1> QED
  BY <1>1, <1>3, <1>5, <1>6, <1>7, <1>8, <1>9, HandlerStep DEF Keying, Announcing

LEMMA PersistFailsInv ==
  ASSUME PlanInv, NEW w \in Workers, PersistFails(w)
  PROVE  PlanInv'
<1>1. step[w] \in Writes /\ TypeOK
  BY DEF PersistFails, PlanInv, FlowInv
<1>2. PICK i \in Identifiers : i = Identifier(w) /\ IsAt(w, i) /\ Knows(i, w)
  BY <1>1, StepOfHandler DEF Writes
<1>3. PICK s : s = AfterWrite(w) /\ step' = [step EXCEPT ![w] = s]
  BY DEF PersistFails, Goto
<1>4. /\ step[w] = "startDispatch" =>
           \/ s = "failDispatch" /\ payload[i] = "unsized"
           \/ s = "saveOrder" /\ payload[i] = "valid"
      /\ step[w] = "saveOrder" => s = "completeDispatch"
      /\ step[w] = "completeDispatch" => s = "saveKey"
      /\ step[w] = "failDispatch" => s = "publishFailed"
      /\ step[w] = "saveKey" => s = "findDispatch" /\ i \in unguarded'
  BY <1>2, <1>3, AfterWriteResult DEF Knows, PersistFails
<1>5. UNCHANGED <<documents, published>> /\ UNCHANGED <<deliveryVars, payload>>
  BY DEF PersistFails
<1>6. unguarded' \in {unguarded, unguarded \cup {i}} /\ unfinished' = unfinished
  BY <1>2 DEF PersistFails
<1>7. Moves(w, i, s)
  BY <1>1, <1>2, <1>3, <1>4, <1>5 DEF Moves, AllSteps, Writes, Publications
<1>8. Knows(i, w)'
  BY <1>1, <1>2, <1>4, <1>5, <1>7, MoveFacts DEF Knows, Announcing, Writes
<1> QED
  BY <1>1, <1>4, <1>5, <1>6, <1>7, <1>8, Unchanged, HandlerStep
     DEF Keying, Announcing, Writes

---------------------------------------------------------------------------------
(* The publications.                                                       *)

LEMMA EventAtResult ==
  ASSUME NEW w \in Workers
  PROVE  /\ step[w] = "publishProposed" =>
              EventAt(w) = OrdersProposed(Identifier(w), {Order(w)})
         /\ step[w] = "publishEmpty" => EventAt(w) = OrdersProposed(Identifier(w), {})
         /\ step[w] = "publishFailed" => EventAt(w) = ProposalFailed(Identifier(w))
  BY DEF EventAt

LEMMA PublishInv ==
  ASSUME PlanInv, NEW w \in Workers, Publish(w)
  PROVE  PlanInv'
<1>1. step[w] \in Publications /\ TypeOK
  BY DEF Publish, PlanInv, FlowInv
<1>2. PICK i \in Identifiers : i = Identifier(w) /\ IsAt(w, i) /\ Knows(i, w)
  BY <1>1, StepOfHandler DEF Publications
<1>3. PICK s \in {"ok", "error"} :
        step' = [step EXCEPT ![w] = s] /\ (s = "error") = (step[w] = "publishFailed")
  BY DEF Publish, Goto, AfterPublish
<1>4. /\ UNCHANGED <<keys, orders, dispatches, unguarded, unfinished>>
      /\ UNCHANGED <<deliveryVars, payload>>
  BY DEF Publish, histories, documents
<1>5. Moves(w, i, s)
  BY <1>1, <1>2, <1>3, <1>4 DEF Moves, AllSteps, Publications
<1>6. /\ published' = published \cup {EventAt(w)}
      /\ EventAt(w) \in Events
      /\ EventAt(w).type = "orders.proposed" =>
           EventAt(w).orders \subseteq orders /\ payload[EventAt(w).identifier] = "valid"
  <2>1. Order(w) \in Orders
    BY <1>1, HandlerSignal DEF Publications
  <2> QED
    BY <1>1, <1>2, <2>1, EventAtResult
       DEF Publish, Publications, Events, OrdersProposed, ProposalFailed, Knows, Announcing
<1>7. Knows(i, w)'
  BY <1>1, <1>3, <1>5, MoveFacts DEF Knows, Announcing
<1>8. Grows(w, i) /\ published' \subseteq Events
  BY <1>1, <1>4, <1>6 DEF Grows, TypeOK
<1>9. ASSUME i \notin unfinished' PROVE s = "ok" => Proposed(i)'
  <2>1. step[w] # "publishEmpty"
    BY <1>2, <1>4, <1>9 DEF PlanInv, Finished
  <2>2. CASE step[w] = "publishProposed"
    <3>1. SignalOf(Order(w)) = i /\ Order(w) \in orders
      BY <1>2, <2>2 DEF SignalOf, Order, Identifier, Knows
    <3>2. OrdersProposed(i, {Order(w)}) \in published'
      BY <1>2, <1>6, <2>2, EventAtResult
    <3> QED
      BY <1>4, <3>1, <3>2 DEF Proposed, SignalOf, OrdersProposed
  <2> QED
    BY <1>1, <1>3, <2>1, <2>2 DEF Publications
<1>10. dispatches' \in [Identifiers -> {"none", "pending", "completed", "failed"}]
  BY <1>1, <1>4 DEF TypeOK
<1>11. \A e \in published' \ published : e.type = "orders.proposed" =>
         e.orders \subseteq orders' /\ payload[e.identifier] = "valid"
  BY <1>4, <1>6
<1>12. i \notin unfinished' => (s = "ok" => Kept(i)')
  BY <1>9 DEF Kept
<1>13. step[w] \notin Keying /\ s \notin {"startDispatch", "saveOrder", "publishEmpty"}
  BY <1>1, <1>3 DEF Keying, Publications
<1>14. i \notin unfinished' => (step[w] \in Announcing => Proposed(i)')
  BY <1>1, <1>3, <1>9 DEF Announcing, Publications
<1> QED
  BY <1>4, <1>5, <1>7, <1>8, <1>10, <1>11, <1>12, <1>13, <1>14, HandlerStep

LEMMA PublishFailsInv ==
  ASSUME PlanInv, NEW w \in Workers, PublishFails(w)
  PROVE  PlanInv'
<1>1. step[w] \in Publications /\ TypeOK
  BY DEF PublishFails, PlanInv, FlowInv
<1>2. PICK i \in Identifiers : i = Identifier(w) /\ IsAt(w, i) /\ Knows(i, w)
  BY <1>1, StepOfHandler DEF Publications
<1>3. PICK s \in {"ok", "error"} :
        step' = [step EXCEPT ![w] = s] /\ (s = "error") = (step[w] = "publishFailed")
  BY DEF PublishFails, Goto, AfterPublish
<1>4. UNCHANGED <<documents, published>> /\ UNCHANGED <<deliveryVars, payload>>
  BY DEF PublishFails
<1>5. /\ unfinished' \in {unfinished, unfinished \cup {i}} /\ unguarded' = unguarded
      /\ step[w] # "publishFailed" => i \in unfinished'
  BY <1>2 DEF PublishFails
<1>6. Moves(w, i, s)
  BY <1>1, <1>2, <1>3, <1>4 DEF Moves, AllSteps, Publications
<1>7. Knows(i, w)'
  BY <1>1, <1>3, <1>6, MoveFacts DEF Knows, Announcing
<1> QED
  BY <1>1, <1>3, <1>4, <1>5, <1>6, <1>7, Unchanged, HandlerStep
     DEF Keying, Announcing, Publications

---------------------------------------------------------------------------------
(* The steps that begin or end a handler, or are the subscription's own.   *)

LEMMA PushType ==
  ASSUME DeliveryTypeOK, NEW w \in Workers, NEW m \in Messages, Push(w, m)
  PROVE  /\ DeliveryTypeOK'
         /\ held' = [held EXCEPT ![w] = m]
         /\ \A v \in Workers \ {w} : lease'[v] = lease[v]
         /\ \A n \in Messages : sub'[n] = "acked" => sub[n] = "acked"
  BY DeliveryAssumption DEF DeliveryTypeOK, Push

LEMMA AnswerType ==
  ASSUME DeliveryTypeOK, NEW w \in Workers, held[w] \in Messages, Ack(w) \/ Nack(w)
  PROVE  /\ DeliveryTypeOK'
         /\ held' = [held EXCEPT ![w] = NoMessage]
         /\ \A v \in Workers \ {w} : lease'[v] = lease[v]
<1>1. /\ sub'[held[w]] \in {sub[held[w]], "acked", Requeued(held[w])}
      /\ sub' = [sub EXCEPT ![held[w]] = sub'[held[w]]]
      /\ UNCHANGED deliveries
  BY DEF Ack, Nack, Release, DeliveryTypeOK
<1>2. Requeued(held[w]) = "queued" => deliveries[held[w]] < MaxDeliveries
  BY DEF Requeued
<1>3. Requeued(held[w]) \in {"queued", "dead"}
  BY DEF Requeued
<1>4. /\ held' = [held EXCEPT ![w] = NoMessage]
      /\ lease' = [lease EXCEPT ![w] = 0]
  BY DEF Ack, Nack, Release
<1> QED
  BY <1>1, <1>2, <1>3, <1>4, DeliveryAssumption DEF DeliveryTypeOK

LEMMA SubscriptionType ==
  ASSUME DeliveryTypeOK, NEW m \in Messages, Expire(m) \/ Redeliver(m)
  PROVE  /\ DeliveryTypeOK' /\ UNCHANGED <<held, lease>>
         /\ \A n \in Messages : sub'[n] = "acked" => sub[n] = "acked"
  BY DEF DeliveryTypeOK, Expire, Redeliver, Requeued

LEMMA AnswerAcks ==
  ASSUME TypeOK, NEW w \in Workers, (step[w] = "ok" /\ Ack(w)) \/ Nack(w),
         NEW m \in Messages, sub'[m] = "acked"
  PROVE  sub[m] = "acked" \/ (m = held[w] /\ step[w] = "ok")
  BY DEF Ack, Nack, Requeued, TypeOK, DeliveryTypeOK

Unwritten == UNCHANGED <<payload, documents, published>>

LEMMA UnwrittenKeeps ==
  ASSUME Unwritten, NEW i \in Identifiers
  PROVE  /\ Proposed(i) <=> Proposed(i)'
         /\ Kept(i) <=> Kept(i)'
         /\ i \in keys <=> i \in keys'
         /\ ProposedWasSaved => ProposedWasSaved'
  BY DEF Unwritten, documents, Proposed, Kept, SignalOf, OrdersProposed, ProposedWasSaved

(* A signal whose handlers stay as they are stays guarded and finished.    *)
LEMMA SameHandlers ==
  ASSUME Unwritten, NEW j \in Identifiers,
         \A v \in Workers : IsAt(v, j)' <=> IsAt(v, j),
         \A v \in Workers : IsAt(v, j) => step'[v] = step[v] /\ Order(v)' = Order(v),
         \A m \in Messages : IdentifierOf[m] = j /\ sub'[m] = "acked" => sub[m] = "acked"
  PROVE  (Guarded(j) => Guarded(j)') /\ (Finished(j) => Finished(j)')
<1>1. Guarded(j) => Guarded(j)'
  BY DEF Guarded, Unwritten, documents, SignalOf
<1>2. Finished(j) => Finished(j)'
  BY UnwrittenKeeps DEF Finished, Unwritten
<1> QED
  BY <1>1, <1>2

LEMMA ReceiveInv ==
  ASSUME PlanInv, NEW w \in Workers, NEW m \in Messages, Receive(w, m)
  PROVE  PlanInv'
<1>1. TypeOK /\ step[w] = "idle" /\ held[w] = NoMessage /\ Push(w, m)
  BY DEF PlanInv, FlowInv, TypeOK, Receive
<1>2. PICK i \in Identifiers : i = IdentifierOf[m]
  BY PlanningAssumption
<1>3. /\ DeliveryTypeOK' /\ held' = [held EXCEPT ![w] = m]
      /\ \A v \in Workers \ {w} : lease'[v] = lease[v]
      /\ \A n \in Messages : sub'[n] = "acked" => sub[n] = "acked"
  BY <1>1, PushType DEF TypeOK
<1>4. PICK s \in {"ok", "findKey"} :
        step' = [step EXCEPT ![w] = s] /\ (s = "ok") = (payload[i] = "malformed")
  BY <1>2 DEF Receive, Goto, FirstStep
<1>5. Unwritten /\ unfinished' = unfinished /\ unguarded' \in {unguarded, unguarded \cup {i}}
  BY <1>2 DEF Receive, Unwritten
<1>6. m # NoMessage
  BY DeliveryAssumption
<1>7. /\ step'[w] = s /\ held'[w] = m
      /\ \A v \in Workers \ {w} :
           step'[v] = step[v] /\ held'[v] = held[v] /\ Order(v)' = Order(v)
  BY <1>1, <1>3, <1>4 DEF TypeOK, DeliveryTypeOK, Order
<1>8. /\ IsAt(w, i)' /\ ~\E j \in Identifiers : IsAt(w, j)
      /\ \A j \in Identifiers \ {i} : ~IsAt(w, j)'
      /\ \A v \in Workers \ {w}, j \in Identifiers : IsAt(v, j)' <=> IsAt(v, j)
  BY <1>1, <1>2, <1>6, <1>7 DEF IsAt, Identifier
<1>9. TypeOK'
  <2>1. step' \in [Workers -> AllSteps]
    BY <1>1, <1>4 DEF TypeOK, AllSteps
  <2>2. \A v \in Workers : (step'[v] = "idle") = (held'[v] = NoMessage)
    BY <1>1, <1>6, <1>7 DEF TypeOK
  <2> QED
    BY <1>1, <1>3, <1>5, <2>1, <2>2 DEF TypeOK, Unwritten, documents, AllSteps
<1>10. ProposedWasSaved'
  BY <1>2, <1>5, UnwrittenKeeps DEF PlanInv, FlowInv
<1>11. ASSUME NEW j \in Identifiers, NEW v \in Workers, IsAt(v, j)' PROVE Knows(j, v)'
  <2>1. CASE v = w
    <3>1. j = i
      BY <1>8, <1>11, <2>1
    <3> QED
      BY <1>4, <1>5, <1>7, <2>1, <3>1 DEF Knows, Announcing, Unwritten
  <2>2. CASE v # w
    BY <1>5, <1>7, <1>8, <1>11, <2>2 DEF PlanInv, FlowInv, Knows, Unwritten, documents
  <2> QED
    BY <2>1, <2>2
<1>12. ASSUME NEW j \in Identifiers, j # i
       PROVE  (Guarded(j) => Guarded(j)') /\ (Finished(j) => Finished(j)')
  <2>1. \A v \in Workers : IsAt(v, j)' <=> IsAt(v, j)
    BY <1>8, <1>12
  <2>2. \A v \in Workers : IsAt(v, j) => step'[v] = step[v] /\ Order(v)' = Order(v)
    BY <1>7, <1>8
  <2> QED
    BY <1>3, <1>5, <2>1, <2>2, SameHandlers
<1>13. ASSUME i \notin unguarded' PROVE Guarded(i)'
  <2>1. Guarded(i) /\ ~Contested(w, m)
    BY <1>2, <1>5, <1>13 DEF PlanInv, Receive
  <2>2. \A v \in Workers : ~IsAt(v, i)
    BY <1>2, <1>8, <2>1 DEF Contested, IsAt
  <2>3. \A v \in Workers : IsAt(v, i)' => v = w
    BY <1>8, <2>2
  <2>4. \A o \in orders : SignalOf(o) = i => i \in keys
    BY <2>1, <2>2 DEF Guarded
  <2>5. orders' = orders /\ keys' = keys
    BY <1>5 DEF Unwritten, documents
  <2>6. \A o \in orders' : SignalOf(o)' = i => i \in keys'
    BY <2>4, <2>5 DEF SignalOf
  <2>7. \A o, p \in orders' : SignalOf(o)' = i /\ SignalOf(p)' = i => o = p
    BY <2>1, <2>5 DEF Guarded, SignalOf
  <2> QED
    BY <1>4, <1>7, <2>3, <2>6, <2>7 DEF Guarded
<1>14. Finished(i) => Finished(i)'
  <2>1. \A v \in Workers : IsAt(v, i) => IsAt(v, i)' /\ step'[v] = step[v]
    BY <1>7, <1>8
  <2>2. \A v \in Workers \ {w} : IsAt(v, i)' => IsAt(v, i) /\ step'[v] = step[v]
    BY <1>7, <1>8
  <2>3. payload' = payload
    BY <1>5 DEF Unwritten
  <2>4. /\ step'[w] # "publishEmpty"
        /\ step'[w] = "ok" => payload[i] = "malformed"
    BY <1>4, <1>7
  <2> QED
    BY <1>3, <1>5, <2>1, <2>2, <2>3, <2>4, UnwrittenKeeps DEF Finished
<1>15. \A j \in Identifiers \ unguarded' : Guarded(j)'
  BY <1>5, <1>12, <1>13 DEF PlanInv
<1>16. \A j \in Identifiers \ unfinished' : Finished(j)'
  BY <1>5, <1>12, <1>14 DEF PlanInv
<1> QED
  BY <1>9, <1>10, <1>11, <1>15, <1>16 DEF PlanInv, FlowInv

(* The handler is gone, and its answer, if it gave one, was the last step. *)
LEMMA LeaveInv ==
  ASSUME PlanInv, NEW w \in Workers, step[w] # "idle", Ack(w) \/ Nack(w), Goto(w, "idle"),
         NEW i \in Identifiers, i = Identifier(w), IsAt(w, i), Unwritten,
         unguarded' \in {unguarded, unguarded \cup {i}},
         unfinished' \in {unfinished, unfinished \cup {i}},
         i \notin unguarded' => step[w] \notin Keying \/ Order(w) \notin orders \/ i \in keys,
         i \notin unfinished' => step[w] \notin Announcing \/ i \notin keys,
         \A n \in Messages : sub'[n] = "acked" =>
           sub[n] = "acked" \/ (n = held[w] /\ step[w] = "ok")
  PROVE  PlanInv'
<1>1. TypeOK /\ held[w] \in Messages
  BY HandlerSignal DEF PlanInv, FlowInv
<1>2. /\ DeliveryTypeOK' /\ held' = [held EXCEPT ![w] = NoMessage]
      /\ \A v \in Workers \ {w} : lease'[v] = lease[v]
  BY <1>1, AnswerType DEF TypeOK
<1>3. /\ step'[w] = "idle" /\ held'[w] = NoMessage
      /\ \A v \in Workers \ {w} :
           step'[v] = step[v] /\ held'[v] = held[v] /\ Order(v)' = Order(v)
  BY <1>1, <1>2 DEF TypeOK, DeliveryTypeOK, Goto, Order
<1>4. /\ ~\E j \in Identifiers : IsAt(w, j)'
      /\ \A j \in Identifiers \ {i} : ~IsAt(w, j)
      /\ \A v \in Workers \ {w}, j \in Identifiers : IsAt(v, j)' <=> IsAt(v, j)
  BY <1>3 DEF IsAt, Identifier
<1>5. TypeOK'
  <2>1. step' \in [Workers -> AllSteps]
    BY <1>1 DEF TypeOK, Goto, AllSteps
  <2>2. \A v \in Workers : (step'[v] = "idle") = (held'[v] = NoMessage)
    BY <1>1, <1>3 DEF TypeOK
  <2> QED
    BY <1>1, <1>2, <2>1, <2>2 DEF TypeOK, Unwritten, documents, AllSteps
<1>6. ProposedWasSaved'
  BY UnwrittenKeeps DEF PlanInv, FlowInv
<1>7. ASSUME NEW j \in Identifiers, NEW v \in Workers, IsAt(v, j)' PROVE Knows(j, v)'
  BY <1>3, <1>4, <1>7 DEF PlanInv, FlowInv, Knows, Unwritten, documents
<1>8. IdentifierOf[held[w]] = i
  BY DEF Identifier
<1>9. ASSUME NEW j \in Identifiers, j # i
      PROVE  (Guarded(j) => Guarded(j)') /\ (Finished(j) => Finished(j)')
  <2>1. \A v \in Workers : IsAt(v, j)' <=> IsAt(v, j)
    BY <1>4, <1>9
  <2>2. \A v \in Workers : IsAt(v, j) => step'[v] = step[v] /\ Order(v)' = Order(v)
    BY <1>3, <1>4, <1>9
  <2>3. \A n \in Messages : IdentifierOf[n] = j /\ sub'[n] = "acked" => sub[n] = "acked"
    BY <1>8, <1>9
  <2> QED
    BY <2>1, <2>2, <2>3, SameHandlers
<1>10. ASSUME i \notin unguarded' PROVE Guarded(i)'
  <2>1. Guarded(i)
    BY <1>10 DEF PlanInv
  <2>2. \A v \in Workers : ~IsAt(v, i)'
    BY <1>4, <2>1 DEF Guarded
  <2>3. orders' = orders /\ keys' = keys
    BY DEF Unwritten, documents
  <2>4. ASSUME NEW o \in orders, SignalOf(o) = i PROVE i \in keys
    BY <1>10, <2>1, <2>4 DEF Guarded
  <2>5. \A o \in orders' : SignalOf(o)' = i => i \in keys'
    BY <2>3, <2>4 DEF SignalOf
  <2>6. \A o, p \in orders' : SignalOf(o)' = i /\ SignalOf(p)' = i => o = p
    BY <2>1, <2>3 DEF Guarded, SignalOf
  <2> QED
    BY <2>2, <2>5, <2>6 DEF Guarded
<1>11. ASSUME i \notin unfinished' PROVE Finished(i)'
  <2>1. Finished(i)
    BY <1>11 DEF PlanInv
  <2>2. \A v \in Workers : IsAt(v, i)' => IsAt(v, i) /\ step'[v] = step[v]
    BY <1>3, <1>4
  <2>3. i \in keys => Proposed(i) \/ \E v \in Workers : IsAt(v, i)' /\ step'[v] \in Announcing
    BY <1>3, <1>4, <1>11, <2>1 DEF Finished
  <2>4. payload' = payload
    BY DEF Unwritten
  <2>5. \A m \in Messages :
          IdentifierOf[m] = i /\ sub'[m] = "acked" /\ payload[i] # "malformed" => Kept(i)
    BY <2>1 DEF Finished
  <2> QED
    BY <2>1, <2>2, <2>3, <2>4, <2>5, UnwrittenKeeps DEF Finished
<1>12. \A j \in Identifiers \ unguarded' : Guarded(j)'
  BY <1>9, <1>10 DEF PlanInv
<1>13. \A j \in Identifiers \ unfinished' : Finished(j)'
  BY <1>9, <1>11 DEF PlanInv
<1> QED
  BY <1>5, <1>6, <1>7, <1>12, <1>13 DEF PlanInv, FlowInv

LEMMA ReplyInv ==
  ASSUME PlanInv, NEW w \in Workers, Reply(w)
  PROVE  PlanInv'
<1>1. step[w] \in {"ok", "error"} /\ TypeOK
  BY DEF Reply, PlanInv, FlowInv
<1>2. PICK i \in Identifiers : i = Identifier(w) /\ IsAt(w, i)
  BY <1>1, StepOfHandler
<1>3. Unwritten /\ unguarded' = unguarded /\ unfinished' = unfinished
  BY DEF Reply, Unwritten, histories
<1>4. (step[w] = "ok" /\ Ack(w)) \/ Nack(w)
  BY DEF Reply
<1>5. \A n \in Messages : sub'[n] = "acked" =>
        sub[n] = "acked" \/ (n = held[w] /\ step[w] = "ok")
  BY <1>1, <1>4, AnswerAcks
<1>6. step[w] \notin Keying \cup Announcing /\ Goto(w, "idle")
  BY <1>1 DEF Reply, Keying, Announcing
<1> QED
  BY <1>1, <1>2, <1>3, <1>4, <1>5, <1>6, LeaveInv

LEMMA CrashInv ==
  ASSUME PlanInv, NEW w \in Workers, Crash(w)
  PROVE  PlanInv'
<1>1. step[w] # "idle" /\ TypeOK /\ Nack(w) /\ Goto(w, "idle")
  BY DEF Crash, PlanInv, FlowInv
<1>2. PICK i \in Identifiers : i = Identifier(w) /\ IsAt(w, i)
  BY <1>1, StepOfHandler
<1>3. Unwritten
  BY DEF Crash, Unwritten
<1>4. /\ unguarded' \in {unguarded, unguarded \cup {i}}
      /\ unfinished' \in {unfinished, unfinished \cup {i}}
      /\ i \notin unguarded' => Order(w) \notin orders \/ i \in keys
      /\ i \notin unfinished' => step[w] \notin Announcing \/ i \notin keys
  BY <1>2 DEF Crash
<1>5. \A n \in Messages : sub'[n] = "acked" =>
        sub[n] = "acked" \/ (n = held[w] /\ step[w] = "ok")
  BY <1>1, AnswerAcks
<1> QED
  BY <1>1, <1>2, <1>3, <1>4, <1>5, LeaveInv

(* The subscription's own steps, and stuttering.                           *)
LEMMA ElsewhereInv ==
  ASSUME PlanInv, DeliveryTypeOK', UNCHANGED <<held, lease, step>>, Unwritten,
         UNCHANGED histories, \A n \in Messages : sub'[n] = "acked" => sub[n] = "acked"
  PROVE  PlanInv'
<1>1. TypeOK'
  BY DEF PlanInv, FlowInv, TypeOK, Unwritten, documents, histories
<1>2. \A v \in Workers :
        Order(v)' = Order(v) /\ \A j \in Identifiers : IsAt(v, j)' <=> IsAt(v, j)
  BY DEF IsAt, Identifier, Order
<1>3. ASSUME NEW j \in Identifiers
      PROVE  (Guarded(j) => Guarded(j)') /\ (Finished(j) => Finished(j)')
  BY <1>2, SameHandlers
<1>4. ProposedWasSaved'
  BY DEF PlanInv, FlowInv, ProposedWasSaved, Unwritten, documents
<1>5. ASSUME NEW j \in Identifiers, NEW v \in Workers, IsAt(v, j) PROVE Knows(j, v)'
  BY <1>2, <1>5 DEF PlanInv, FlowInv, Knows, Unwritten, documents
<1> QED
  BY <1>1, <1>2, <1>3, <1>4, <1>5 DEF PlanInv, FlowInv, histories

LEMMA SubscriptionInv ==
  ASSUME PlanInv, Subscription
  PROVE  PlanInv'
<1>1. PICK m \in Messages : Expire(m) \/ Redeliver(m)
  BY DEF Subscription
<1>2. DeliveryTypeOK
  BY DEF PlanInv, FlowInv, TypeOK
<1>3. /\ DeliveryTypeOK' /\ UNCHANGED <<held, lease>>
      /\ \A n \in Messages : sub'[n] = "acked" => sub[n] = "acked"
  BY <1>1, <1>2, SubscriptionType
<1> QED
  BY <1>3, ElsewhereInv DEF Subscription, Unwritten

LEMMA StutterInv ==
  ASSUME PlanInv, UNCHANGED vars
  PROVE  PlanInv'
<1>1. DeliveryTypeOK' /\ UNCHANGED <<held, lease, step, sub>>
  BY DEF PlanInv, FlowInv, TypeOK, DeliveryTypeOK, vars, deliveryVars
<1> QED
  BY <1>1, ElsewhereInv DEF vars, Unwritten

---------------------------------------------------------------------------------
(* The theorems.                                                           *)

LEMMA InitInv == Init => PlanInv
<1> SUFFICES ASSUME Init PROVE PlanInv
  OBVIOUS
<1>1. TypeOK
  BY DeliveryAssumption DEF Init, DeliveryInit, TypeOK, DeliveryTypeOK
<1>2. \A w \in Workers, i \in Identifiers : ~IsAt(w, i)
  BY DEF Init, DeliveryInit, IsAt
<1>3. ProposedWasSaved
  BY DEF Init, ProposedWasSaved
<1>4. ASSUME NEW i \in Identifiers PROVE Guarded(i) /\ Finished(i)
  BY <1>2 DEF Init, DeliveryInit, Guarded, Finished
<1> QED
  BY <1>1, <1>2, <1>3, <1>4 DEF PlanInv, FlowInv

LEMMA NextInv ==
  ASSUME PlanInv, [Next]_vars
  PROVE  PlanInv'
<1>1. ASSUME NEW w \in Workers, Handle(w) PROVE PlanInv'
  BY <1>1, FindKeyInv, PersistDispatchInv, PersistOrderInv, PersistKeyInv, FindDispatchInv,
     FindOrderInv, PublishInv, ReplyInv
     DEF Handle, Propose, Announce
<1> QED
  BY <1>1, ReceiveInv, PersistFailsInv, PublishFailsInv, CrashInv, SubscriptionInv, StutterInv
     DEF Next

(* Every variable keeps its type.                                          *)
THEOREM TypeCorrect == Spec => []TypeOK
<1>1. PlanInv => TypeOK
  BY PlanInvImplies
<1> QED
  BY <1>1, InitInv, NextInv, PTL DEF Spec

(* A signal becomes one order at most, unless its key could not tell of    *)
(* the order that was there.                                               *)
THEOREM OneOrderEach == Spec => []OneOrderPerSignal
<1>1. PlanInv => OneOrderPerSignal
  BY PlanInvImplies
<1> QED
  BY <1>1, InitInv, NextInv, PTL DEF Spec

(* A signal that was acknowledged has become an announced order, unless a  *)
(* handler of it failed after the key was recorded.                        *)
THEOREM AcknowledgedIsProposed == Spec => []AckedIsProposed
<1>1. PlanInv => AckedIsProposed
  BY PlanInvImplies
<1> QED
  BY <1>1, InitInv, NextInv, PTL DEF Spec

---------------------------------------------------------------------------------
(* The contract: the steps that save an order or publish are steps of it,  *)
(* every other step is a stutter, or adds to the histories.                *)

Tradable == {i \in Identifiers : payload[i] = "valid"}

contractVars == <<Tradable, orders, published, unguarded, unfinished>>

StepContract == Contract!Next \/ UNCHANGED contractVars

\* What all of Next but PersistOrder and Publish does, of one signal.
LEMMA LoosenContract ==
  ASSUME NEW i \in Identifiers, UNCHANGED <<payload, orders, published>>,
         unguarded' \in {unguarded, unguarded \cup {i}},
         unfinished' \in {unfinished, unfinished \cup {i}}
  PROVE  StepContract
<1>1. Contract!Loosen(i)
  BY DEF Contract!Loosen
<1> QED
  BY <1>1 DEF StepContract, Contract!Next

LEMMA MakeContract ==
  ASSUME PlanInv, NEW w \in Workers, PersistOrder(w)
  PROVE  StepContract
<1>1. /\ step[w] = "saveOrder" /\ orders' = orders \cup {Order(w)}
      /\ UNCHANGED <<payload, published, unguarded, unfinished>>
  BY DEF PersistOrder, Written, histories
<1>2. PICK i \in Identifiers : i = Identifier(w) /\ IsAt(w, i) /\ Knows(i, w)
  BY <1>1, StepOfHandler
<1>3. Order(w) \in Orders /\ SignalOf(Order(w)) = i
  BY <1>1, <1>2, HandlerSignal DEF PlanInv, FlowInv, SignalOf, Order, Identifier
<1>4. i \in Tradable
  BY <1>1, <1>2 DEF Tradable, Knows
<1>5. Contract!Made(i) \subseteq {Order(w)} \/ i \in unguarded
  <2>1. i \notin unguarded => \A o \in orders : SignalOf(o) = i => o = Order(w)
    BY <1>1, <1>2 DEF PlanInv, Guarded
  <2> QED
    BY <2>1 DEF Contract!Made
<1>6. Contract!Make(i)
  BY <1>1, <1>3, <1>4, <1>5 DEF Contract!Make, Tradable
<1> QED
  BY <1>6 DEF StepContract, Contract!Next

LEMMA AnnounceContract ==
  ASSUME PlanInv, NEW w \in Workers, Publish(w)
  PROVE  StepContract
<1>1. /\ step[w] \in Publications /\ published' = published \cup {EventAt(w)}
      /\ UNCHANGED <<payload, orders, unguarded, unfinished>>
  BY DEF Publish, histories, documents
<1>2. PICK i \in Identifiers : i = Identifier(w) /\ IsAt(w, i) /\ Knows(i, w)
  BY <1>1, StepOfHandler DEF Publications
<1>3. CASE step[w] = "publishProposed"
  <2>1. i \in Tradable /\ Order(w) \in Contract!Made(i)
    BY <1>2, <1>3 DEF Tradable, Knows, Announcing, Contract!Made, SignalOf, Order, Identifier
  <2>2. Contract!Announce(i)
    BY <1>1, <1>2, <1>3, <2>1, EventAtResult DEF Contract!Announce, Tradable
  <2> QED
    BY <2>2 DEF StepContract, Contract!Next
<1>4. CASE step[w] = "publishEmpty"
  <2>1. i \in Tradable /\ i \in unfinished
    BY <1>2, <1>4 DEF Tradable, Knows, Announcing, PlanInv, Finished
  <2>2. Contract!Announce(i)
    BY <1>1, <1>2, <1>4, <2>1, EventAtResult DEF Contract!Announce, Tradable
  <2> QED
    BY <2>2 DEF StepContract, Contract!Next
<1>5. CASE step[w] = "publishFailed"
  <2>1. i \notin Tradable
    BY <1>2, <1>5 DEF Tradable, Knows
  <2>2. Contract!Refuse(i)
    BY <1>1, <1>2, <1>5, <2>1, EventAtResult DEF Contract!Refuse, Tradable
  <2> QED
    BY <2>2 DEF StepContract, Contract!Next
<1> QED
  BY <1>1, <1>3, <1>4, <1>5 DEF Publications

LEMMA NextContract ==
  ASSUME PlanInv, [Next]_vars
  PROVE  StepContract
<1>1. ASSUME NEW w \in Workers, NEW m \in Messages, Receive(w, m) PROVE StepContract
  <2>1. IdentifierOf[m] \in Identifiers
    BY PlanningAssumption
  <2> QED
    BY <1>1, <2>1, LoosenContract DEF Receive, documents
<1>2. ASSUME NEW w \in Workers, step[w] # "idle", UNCHANGED <<payload, orders, published>>,
             unguarded' \in {unguarded, unguarded \cup {Identifier(w)}},
             unfinished' \in {unfinished, unfinished \cup {Identifier(w)}}
      PROVE  StepContract
  BY <1>2, HandlerSignal, LoosenContract DEF PlanInv, FlowInv
<1>3. ASSUME NEW w \in Workers, FindKey(w) \/ FindDispatch(w) \/ FindOrder(w) PROVE StepContract
  BY <1>2, <1>3 DEF FindKey, FindDispatch, FindOrder, documents
<1>4. ASSUME NEW w \in Workers, PersistDispatch(w) \/ PersistKey(w) \/ PersistFails(w)
      PROVE  StepContract
  BY <1>2, <1>4 DEF PersistDispatch, PersistKey, PersistFails, Written, Writes, documents, histories
<1>5. ASSUME NEW w \in Workers, PublishFails(w) \/ Reply(w) \/ Crash(w) PROVE StepContract
  BY <1>2, <1>5 DEF PublishFails, Reply, Crash, Publications, documents, histories
<1>6. CASE Subscription \/ UNCHANGED vars
  BY <1>6 DEF Subscription, vars, documents, histories, StepContract, contractVars, Tradable
<1> QED
  BY <1>1, <1>3, <1>4, <1>5, <1>6, MakeContract, AnnounceContract
  DEF Next, Handle, Propose, Announce

(* Whatever fails and however handlers overlap, portfolio-planner          *)
(* implements PlanningContract: orders are made and announced only of      *)
(* signals that may be traded, saved before they are announced, and one of *)
(* each signal whose key can tell of it.                                   *)
THEOREM ImplementsContract == Spec => ContractSpec
<1>1. Init => Contract!Init
  BY DEF Init, Contract!Init
<1>2. PlanInv /\ [Next]_vars => [Contract!Next]_contractVars
  BY NextContract DEF StepContract
<1> QED
  BY <1>1, <1>2, InitInv, NextInv, PTL
  DEF Spec, ContractSpec, Contract!Spec, contractVars, Tradable

---------------------------------------------------------------------------------
(***************************************************************************)
(* Where no fault of four kinds happens, and one message at most carries a *)
(* signal, no signal is ever unguarded; and if no publication is lost      *)
(* either, none is ever unfinished.                                        *)
(***************************************************************************)

Calm ==
  /\ Faults \cap {"crash", "overlap", "readError", "persistLost"} = {}
  /\ \A m, n \in Messages : IdentifierOf[m] = IdentifierOf[n] => m = n

\* No two handlers work on one message, and what they work on is outstanding.
HandlersApart ==
  /\ \A w \in Workers : held[w] # NoMessage => sub[held[w]] = "outstanding"
  /\ \A v, w \in Workers : held[v] # NoMessage /\ held[v] = held[w] => v = w

\* What a handler has written by its step.
Recorded(w) ==
  /\ step[w] \in Writes \cup Announcing /\ step[w] # "startDispatch" =>
       dispatches[Identifier(w)] # "none"
  /\ step[w] \in {"completeDispatch", "saveKey", "findDispatch", "findOrder"} =>
       Order(w) \in orders

CalmInv ==
  /\ PlanInv
  /\ HandlersApart
  /\ unguarded = {}
  /\ \A w \in Workers : Recorded(w)
  /\ "publishLost" \notin Faults => unfinished = {}

(* The subscription, and the end of a handler, keep the others apart.      *)
LEMMA ApartWhenPushed ==
  ASSUME TypeOK, HandlersApart, NEW w \in Workers, NEW m \in Messages, Push(w, m)
  PROVE  HandlersApart' /\ \A v \in Workers : held[v] # m
  BY DeliveryAssumption DEF TypeOK, DeliveryTypeOK, HandlersApart, Push

LEMMA ApartWhenReleased ==
  ASSUME TypeOK, HandlersApart, NEW w \in Workers, held[w] # NoMessage, Ack(w) \/ Nack(w)
  PROVE  HandlersApart'
<1>1. /\ held' = [held EXCEPT ![w] = NoMessage]
      /\ \A m \in Messages : m # held[w] => sub'[m] = sub[m]
  BY DEF Ack, Nack, Release, TypeOK, DeliveryTypeOK
<1> QED
  BY <1>1 DEF HandlersApart, TypeOK, DeliveryTypeOK

LEMMA ApartWhenRedelivered ==
  ASSUME TypeOK, HandlersApart, NEW m \in Messages, Redeliver(m)
  PROVE  HandlersApart'
  BY DEF TypeOK, DeliveryTypeOK, HandlersApart, Redeliver

(* What the other handlers have recorded stays.                            *)
LEMMA RecordedStays ==
  ASSUME NEW v \in Workers, Recorded(v), step'[v] = step[v], held'[v] = held[v],
         lease'[v] = lease[v], orders \subseteq orders',
         \A i \in Identifiers : dispatches'[i] = "none" => dispatches[i] = "none",
         step[v] # "idle" => Identifier(v) \in Identifiers
  PROVE  Recorded(v)'
  BY DEF Recorded, Identifier, Order, Writes, Announcing

(* A step of a handler at work.                                            *)
LEMMA CalmByHandler ==
  ASSUME CalmInv, PlanInv', NEW w \in Workers, step[w] # "idle", UNCHANGED deliveryVars,
         NEW s, Goto(w, s), orders \subseteq orders',
         \A i \in Identifiers : dispatches'[i] = "none" => dispatches[i] = "none",
         unguarded' = unguarded, "publishLost" \notin Faults => unfinished' = unfinished,
         Recorded(w)'
  PROVE  CalmInv'
<1>1. TypeOK
  BY DEF CalmInv, PlanInv, FlowInv
<1>2. HandlersApart'
  BY DEF CalmInv, HandlersApart, deliveryVars
<1>3. ASSUME NEW v \in Workers, v # w PROVE Recorded(v)'
  <2>1. step'[v] = step[v] /\ held'[v] = held[v] /\ lease'[v] = lease[v]
    BY <1>1, <1>3 DEF Goto, TypeOK, deliveryVars
  <2> QED
    BY <1>1, <2>1, HandlerSignal, RecordedStays DEF CalmInv
<1> QED
  BY <1>2, <1>3 DEF CalmInv

LEMMA CalmRequest ==
  ASSUME Calm, CalmInv, PlanInv', NEW w \in Workers,
         Propose(w) \/ Announce(w) \/ PublishFails(w)
  PROVE  CalmInv'
<1>1. TypeOK
  BY DEF CalmInv, PlanInv, FlowInv
<1>2. step[w] # "idle"
  BY DEF Propose, Announce, PublishFails, FindKey, PersistDispatch, PersistOrder, PersistKey,
     FindDispatch, FindOrder, Publish, Publications
<1>3. /\ Identifier(w) \in Identifiers
      /\ UNCHANGED deliveryVars => Identifier(w)' = Identifier(w) /\ Order(w)' = Order(w)
  BY <1>1, <1>2, HandlerSignal DEF deliveryVars, Identifier, Order
<1>4. Recorded(w)
  BY DEF CalmInv
<1>5. CASE FindKey(w)
  <2>1. /\ \E s \in {"ok", "publishFailed", "startDispatch"} : Goto(w, s)
        /\ UNCHANGED <<deliveryVars, orders, dispatches, unguarded, unfinished>>
    BY <1>5 DEF FindKey, Unseen, Calm, AfterKey, documents
  <2>2. PICK s \in {"ok", "publishFailed", "startDispatch"} : Goto(w, s)
    BY <2>1
  <2>3. Recorded(w)'
    BY <1>1, <2>2 DEF Goto, TypeOK, Recorded, Writes, Announcing
  <2> QED
    BY <1>2, <2>1, <2>2, <2>3, CalmByHandler
<1>6. CASE PersistDispatch(w) \/ PersistOrder(w) \/ PersistKey(w)
  <2>1. Written(w) /\ UNCHANGED <<deliveryVars, unguarded, unfinished>>
    BY <1>6 DEF PersistDispatch, PersistOrder, PersistKey, Written, histories
  <2>2. PICK s \in {step[w], AfterWrite(w)} : step' = [step EXCEPT ![w] = s]
    BY <1>1, <2>1, WrittenStep
  <2>3. /\ step[w] = "startDispatch" => s \in {"startDispatch", "failDispatch", "saveOrder"}
        /\ step[w] = "failDispatch" => s \in {"failDispatch", "publishFailed"}
        /\ step[w] = "saveOrder" => s \in {"saveOrder", "completeDispatch"}
        /\ step[w] = "completeDispatch" => s \in {"completeDispatch", "saveKey"}
        /\ step[w] = "saveKey" => s \in {"saveKey", "findDispatch"}
    BY <2>2, AfterWriteResult
  <2>4. CASE PersistDispatch(w)
    <3>1. /\ step[w] \in {"startDispatch", "completeDispatch", "failDispatch"}
          /\ dispatches' = [dispatches EXCEPT ![Identifier(w)] = StatusAt(step[w])]
          /\ orders' = orders
      BY <2>4 DEF PersistDispatch
    <3>2. StatusAt(step[w]) # "none"
      BY <3>1 DEF StatusAt
    <3>3. /\ dispatches'[Identifier(w)] # "none"
          /\ \A i \in Identifiers : dispatches'[i] = "none" => dispatches[i] = "none"
      BY <1>1, <1>3, <3>1, <3>2 DEF TypeOK
    <3>4. Recorded(w)'
      BY <1>1, <1>3, <1>4, <2>1, <2>2, <2>3, <3>1, <3>3 DEF Recorded, TypeOK, Writes, Announcing
    <3> QED
      BY <1>2, <2>1, <2>2, <3>1, <3>3, <3>4, CalmByHandler DEF Goto
  <2>5. CASE PersistOrder(w)
    <3>1. step[w] = "saveOrder" /\ orders' = orders \cup {Order(w)} /\ dispatches' = dispatches
      BY <2>5 DEF PersistOrder
    <3>2. Recorded(w)'
      BY <1>1, <1>3, <1>4, <2>1, <2>2, <2>3, <3>1 DEF Recorded, TypeOK, Writes, Announcing
    <3> QED
      BY <1>2, <2>1, <2>2, <3>1, <3>2, CalmByHandler DEF Goto
  <2>6. CASE PersistKey(w)
    <3>1. step[w] = "saveKey" /\ UNCHANGED <<orders, dispatches>>
      BY <2>6 DEF PersistKey
    <3>2. Recorded(w)'
      BY <1>1, <1>3, <1>4, <2>1, <2>2, <2>3, <3>1 DEF Recorded, TypeOK, Writes, Announcing
    <3> QED
      BY <1>2, <2>1, <2>2, <3>1, <3>2, CalmByHandler DEF Goto
  <2> QED
    BY <1>6, <2>4, <2>5, <2>6
<1>7. CASE FindDispatch(w)
  <2>1. /\ Goto(w, "findOrder")
        /\ step[w] = "findDispatch"
        /\ UNCHANGED <<deliveryVars, orders, dispatches, unguarded, unfinished>>
    BY <1>4, <1>7 DEF FindDispatch, Unseen, Calm, Recorded, Announcing, documents
  <2>2. Recorded(w)'
    BY <1>1, <1>3, <1>4, <2>1 DEF Goto, TypeOK, Recorded, Writes, Announcing
  <2> QED
    BY <1>2, <2>1, <2>2, CalmByHandler
<1>8. CASE FindOrder(w)
  <2>1. /\ Goto(w, "publishProposed")
        /\ step[w] = "findOrder"
        /\ UNCHANGED <<deliveryVars, orders, dispatches, unguarded, unfinished>>
    BY <1>4, <1>8 DEF FindOrder, Unseen, Calm, Recorded, documents
  <2>2. Recorded(w)'
    BY <1>1, <1>3, <1>4, <2>1 DEF Goto, TypeOK, Recorded, Writes, Announcing
  <2> QED
    BY <1>2, <2>1, <2>2, CalmByHandler
<1>9. CASE Publish(w) \/ PublishFails(w)
  <2>1. PICK s \in {"ok", "error"} : Goto(w, s)
    BY <1>9 DEF Publish, PublishFails, AfterPublish
  <2>2. /\ UNCHANGED <<deliveryVars, orders, dispatches, unguarded>>
        /\ "publishLost" \notin Faults => unfinished' = unfinished
    BY <1>9 DEF Publish, PublishFails, documents, histories
  <2>3. Recorded(w)'
    BY <1>1, <2>1 DEF Goto, TypeOK, Recorded, Writes, Announcing
  <2> QED
    BY <1>2, <2>1, <2>2, <2>3, CalmByHandler
<1> QED
  BY <1>5, <1>6, <1>7, <1>8, <1>9 DEF Propose, Announce

LEMMA CalmStep ==
  ASSUME Calm, CalmInv, [Next]_vars
  PROVE  CalmInv'
<1>1. TypeOK /\ PlanInv'
  BY NextInv DEF CalmInv, PlanInv, FlowInv
<1>2. ASSUME NEW w \in Workers, NEW m \in Messages, Receive(w, m) PROVE CalmInv'
  <2>1. /\ Push(w, m) /\ held' = [held EXCEPT ![w] = m]
        /\ step[w] = "idle" /\ step'[w] \in {"ok", "findKey"}
        /\ \A v \in Workers \ {w} : step'[v] = step[v] /\ held'[v] = held[v] /\ lease'[v] = lease[v]
        /\ UNCHANGED <<orders, dispatches, unfinished>>
    BY <1>1, <1>2, PushType DEF Receive, Goto, FirstStep, TypeOK, DeliveryTypeOK, documents
  <2>2. HandlersApart' /\ \A v \in Workers : held[v] # m
    BY <1>1, <2>1, ApartWhenPushed DEF CalmInv
  <2>3. ~Contested(w, m)
    BY <1>1, <2>2 DEF Contested, Calm, Identifier, TypeOK, DeliveryTypeOK
  <2>4. unguarded' = unguarded
    BY <1>2, <2>3 DEF Receive
  <2>5. ASSUME NEW v \in Workers PROVE Recorded(v)'
    <3>1. CASE v = w
      BY <2>1, <3>1 DEF Recorded, Writes, Announcing
    <3>2. CASE v # w
      BY <1>1, <2>1, <3>2, HandlerSignal, RecordedStays DEF CalmInv
    <3> QED
      BY <3>1, <3>2
  <2> QED
    BY <1>1, <2>1, <2>2, <2>4, <2>5 DEF CalmInv
<1>3. ASSUME NEW w \in Workers, Reply(w) PROVE CalmInv'
  <2>1. /\ step[w] # "idle" /\ held[w] \in Messages /\ held[w] # NoMessage
        /\ Ack(w) \/ Nack(w)
        /\ step' = [step EXCEPT ![w] = "idle"]
        /\ UNCHANGED <<orders, dispatches, unguarded, unfinished>>
    BY <1>1, <1>3, HandlerSignal, DeliveryAssumption DEF Reply, Goto, documents, histories
  <2>2. /\ held' = [held EXCEPT ![w] = NoMessage]
        /\ \A v \in Workers \ {w} : lease'[v] = lease[v]
    BY <1>1, <2>1, AnswerType DEF TypeOK
  <2>3. ASSUME NEW v \in Workers PROVE Recorded(v)'
    <3>1. CASE v = w
      BY <1>1, <2>1, <3>1 DEF TypeOK, Recorded, Writes, Announcing
    <3>2. CASE v # w
      <4>1. step'[v] = step[v] /\ held'[v] = held[v] /\ lease'[v] = lease[v]
        BY <1>1, <2>1, <2>2, <3>2 DEF TypeOK, DeliveryTypeOK
      <4> QED
        BY <1>1, <2>1, <4>1, HandlerSignal, RecordedStays DEF CalmInv
    <3> QED
      BY <3>1, <3>2
  <2> QED
    BY <1>1, <2>1, <2>3, ApartWhenReleased DEF CalmInv
<1>4. ASSUME NEW w \in Workers, PersistFails(w) \/ Crash(w) PROVE FALSE
  BY <1>4 DEF PersistFails, Crash, Calm
<1>5. CASE Subscription
  <2>1. PICK m \in Messages : Redeliver(m)
    BY <1>5 DEF Subscription, Expire, Calm
  <2>2. HandlersApart'
    BY <1>1, <2>1, ApartWhenRedelivered DEF CalmInv
  <2>3. UNCHANGED <<step, held, lease, orders, dispatches, unguarded, unfinished>>
    BY <1>5, <2>1 DEF Subscription, Redeliver, documents, histories
  <2>4. \A v \in Workers : Recorded(v)'
    BY <2>3 DEF CalmInv, Recorded, Identifier, Order
  <2> QED
    BY <1>1, <2>2, <2>3, <2>4 DEF CalmInv
<1>6. CASE UNCHANGED vars
  <2>1. UNCHANGED <<step, held, lease, sub, orders, dispatches, unguarded, unfinished>>
    BY <1>6 DEF vars, deliveryVars, documents, histories
  <2>2. HandlersApart'
    BY <2>1 DEF CalmInv, HandlersApart
  <2>3. \A v \in Workers : Recorded(v)'
    BY <2>1 DEF CalmInv, Recorded, Identifier, Order
  <2> QED
    BY <1>1, <2>1, <2>2, <2>3 DEF CalmInv
<1> QED
  BY <1>1, <1>2, <1>3, <1>4, <1>5, <1>6, CalmRequest DEF Next, Handle

LEMMA AlwaysCalm ==
  ASSUME Calm
  PROVE  Spec => []CalmInv
<1>1. Init => CalmInv
  BY InitInv DEF Init, DeliveryInit, CalmInv, HandlersApart, Recorded, Writes, Announcing
<1> QED
  BY <1>1, CalmStep, PTL DEF Spec

(* Redeliveries, lost answers and lost publications alone never make a     *)
(* second order of a signal, whose identifier is new in every push         *)
(* (RULE-PP-003, INV-PP-003).                                              *)
THEOREM OneOrderWhenCalm ==
  ASSUME Calm
  PROVE  Spec => [](\A o, p \in orders : SignalOf(o) = SignalOf(p) => o = p)
<1>1. CalmInv => \A o, p \in orders : SignalOf(o) = SignalOf(p) => o = p
  <2> SUFFICES ASSUME CalmInv, NEW o \in orders, NEW p \in orders, SignalOf(o) = SignalOf(p)
               PROVE  o = p
    OBVIOUS
  <2>1. OneOrderPerSignal /\ unguarded = {}
    BY PlanInvImplies DEF CalmInv
  <2>2. SignalOf(o) \in Identifiers
    BY PlanningAssumption DEF CalmInv, PlanInv, FlowInv, TypeOK, Orders, SignalOf
  <2> QED
    BY <2>1, <2>2 DEF OneOrderPerSignal
<1> QED
  BY <1>1, AlwaysCalm, PTL

(* When no publication is lost either, every signal that was acknowledged  *)
(* and could be decoded has become an announced order.                     *)
THEOREM ProposedWhenCalm ==
  ASSUME Calm, "publishLost" \notin Faults
  PROVE  Spec => [](\A m \in Messages : LET i == IdentifierOf[m] IN
                      sub[m] = "acked" /\ payload[i] # "malformed" /\ AtRest(i) => Proposed(i))
<1>1. CalmInv => \A m \in Messages : LET i == IdentifierOf[m] IN
                   sub[m] = "acked" /\ payload[i] # "malformed" /\ AtRest(i) => Proposed(i)
  BY PlanInvImplies DEF CalmInv, AckedIsProposed
<1> QED
  BY <1>1, AlwaysCalm, PTL

=================================================================================
