------------------------------- MODULE LeasedKey --------------------------------
(***************************************************************************)
(* The idempotency key of feature-engineering and hypothesis-lab: one      *)
(* document per event, which a handler creates or takes over for a lease   *)
(* of five minutes, marks as processed when all is published, and releases *)
(* when the work failed (firestore_idempotency_key_repository.py, the same *)
(* file in both services).  The documents of processed keys are kept 30    *)
(* days, longer than Pub/Sub keeps a message, so none is ever deleted.     *)
(*                                                                         *)
(* reserve walks through  create -> look -> take,  the work that follows   *)
(* starts at  reserved  and ends at  settle, release, ok or error.         *)
(***************************************************************************)
EXTENDS PushDelivery

CONSTANTS
  Identifiers,  \* the identifiers of events
  WellFormed,   \* the messages whose envelope can be decoded
  IdentifierOf  \* IdentifierOf[m]: the event that m carries

ASSUME LeasedKeyAssumption ==
  /\ WellFormed \subseteq Messages
  /\ IdentifierOf \in [Messages -> Identifiers]

VARIABLES
  step,      \* step[w]: where the handler w is
  keys,      \* keys[i]: the idempotency_keys document of the service for i
  disturbed  \* the events whose handling did not go as planned (history):
             \* a request failed, an instance died, the work was given up or
             \* a lease ran out under the handler

keyVars == <<keys, disturbed>>

KeyStates == {"absent", "leased", "lapsed", "processed"}

\* The event the handler w works on.
Identifier(w) == IdentifierOf[held[w]]

Goto(w, s) == step' = [step EXCEPT ![w] = s]

Disturb(w) == disturbed' = disturbed \cup {Identifier(w)}

ReserveSteps == {"create", "look", "take"}

(* An error inside the try block releases the key; one while the key is    *)
(* reserved, or being released, escapes to the framework.                  *)
OnError(s) == IF s \in ReserveSteps \cup {"release"} THEN "error" ELSE "release"

Fail(w) ==
  /\ Goto(w, OnError(step[w]))
  /\ Disturb(w)

\* A request was carried out; its answer arrives or gets lost.
Done(w, next) ==
  \/ Goto(w, next) /\ UNCHANGED disturbed
  \/ "lostAnswer" \in Faults /\ Fail(w)

---------------------------------------------------------------------------------
(* The repository.                                                         *)

SetKey(w, value) == keys' = [keys EXCEPT ![Identifier(w)] = value]

CreateKey(w) ==
  /\ step[w] = "create"
  /\ IF keys[Identifier(w)] = "absent"
     THEN SetKey(w, "leased") /\ Done(w, "reserved")
     ELSE UNCHANGED keys /\ Done(w, "look")

\* Mutant: a lease that stands is taken over.
AfterLookTakesLeased(key) == IF key = "processed" THEN "ok" ELSE "take"

\* Mutant: an event somebody works on is taken for a duplicate.
AfterLookAcksLeased(key) == IF key \in {"processed", "leased"} THEN "ok" ELSE "take"

(* What a key that exists means: PROCESSED answers 204, LEASED 503, and    *)
(* any other is taken over.                                                *)
AfterLook(key) ==
  IF key = "processed" THEN "ok" ELSE IF key = "leased" THEN "error" ELSE "take"

LookAtKey(w) ==
  /\ step[w] = "look"
  /\ Done(w, AfterLook(keys[Identifier(w)]))
  /\ UNCHANGED keys

\* The document is overwritten, whatever became of it since it was read.
TakeKey(w) ==
  /\ step[w] = "take"
  /\ SetKey(w, "leased")
  /\ Done(w, "reserved")

Reserve(w) == CreateKey(w) \/ LookAtKey(w) \/ TakeKey(w)

\* persist: the event is processed.
SettleKey(w) ==
  /\ step[w] = "settle"
  /\ SetKey(w, "processed")
  /\ Done(w, "ok")

Released(key) == IF key = "leased" THEN "lapsed" ELSE key

\* release: the lease ends, whoever holds it.
ReleaseKey(w) ==
  /\ step[w] = "release"
  /\ SetKey(w, Released(keys[Identifier(w)]))
  /\ Goto(w, "error")
  /\ Disturb(w)

---------------------------------------------------------------------------------
(* The life of a handler around the work.                                  *)

\* The steps in which a handler works under its lease.
Outside == {"idle", "ok", "error"} \cup ReserveSteps

Working(w) == step[w] \notin Outside

Owners(i) == {w \in Workers : Working(w) /\ Identifier(w) = i}

\* A message that cannot be decoded is answered 400, and pushed again.
ReceiveMessage(w, m) ==
  /\ step[w] = "idle"
  /\ Push(w, m)
  /\ Goto(w, IF m \in WellFormed THEN "create" ELSE "error")
  /\ UNCHANGED keyVars

\* 2xx acknowledges; 400, 404, 409, 500 and 503 all ask for a redelivery.
Answer(w) ==
  /\ \/ step[w] = "ok" /\ Ack(w)
     \/ step[w] = "error" /\ Nack(w)
  /\ Goto(w, "idle")
  /\ UNCHANGED keyVars

\* The instance dies: what it did stays, and so does the lease.
Crash(w) ==
  /\ "crash" \in Faults
  /\ step[w] # "idle"
  /\ Nack(w)
  /\ Goto(w, "idle")
  /\ Disturb(w)
  /\ UNCHANGED keys

\* leaseExpiresAt passes, as a rule after the holder died.
LeaseExpires(i) ==
  /\ keys[i] = "leased"
  /\ \/ Owners(i) = {} /\ UNCHANGED disturbed
     \/ "overrun" \in Faults /\ disturbed' = disturbed \cup {i}
  /\ keys' = [keys EXCEPT ![i] = "lapsed"]
  /\ UNCHANGED <<deliveryVars, step>>

LeasedKeyInit ==
  /\ DeliveryInit
  /\ step = [w \in Workers |-> "idle"]
  /\ keys = [i \in Identifiers |-> "absent"]
  /\ disturbed = {}

LeasedKeyTypeOK ==
  /\ DeliveryTypeOK
  /\ \A w \in Workers : (step[w] = "idle") = (held[w] = NoMessage)
  /\ keys \in [Identifiers -> KeyStates]
  /\ disturbed \subseteq Identifiers

=================================================================================
