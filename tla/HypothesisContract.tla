--------------------------- MODULE HypothesisContract ---------------------------
(***************************************************************************)
(* What hypothesis-lab and the BFF promise of each hypothesis, without     *)
(* proposals, demo results, requests, messages, handlers or keys: it moves *)
(* along the life cycle only, and out of no verdict; what is announced of  *)
(* it is what was saved; and failure knowledge is kept of those only that  *)
(* were announced to be rejected.  A contested one, on which more than one *)
(* demo or request comes to a decision, may be written over, but is never  *)
(* out of its trial again.                                                 *)
(***************************************************************************)

CONSTANTS
  Hypotheses,   \* the identifiers of hypotheses
  InDemo        \* those that are in demo from the beginning

VARIABLES
  status,      \* status[h]: the saved status of h, "absent" when there is none
  published,   \* published[h]: what hypothesis-lab announced about h
  decided,     \* decided[h]: what the BFF announced about h
  failures,    \* the hypotheses that failure knowledge is kept of
  contested,   \* the hypotheses that several demos or requests decide on (input)
  overwritten  \* those that a status was replaced of (history)

InTrial == {"demo", "live", "rejected", "lost"}

Init ==
  /\ status = [h \in Hypotheses |-> IF h \in InDemo THEN "demo" ELSE "absent"]
  /\ published = [h \in Hypotheses |-> IF h \in InDemo THEN {"hypothesis.backtested"} ELSE {}]
  /\ decided = [h \in Hypotheses |-> {}]
  /\ failures = {}
  /\ overwritten = {}

Backtest(h) ==
  /\ status[h] = "absent"
  /\ \E s \in {"backtested", "rejected"} : status' = [status EXCEPT ![h] = s]
  /\ UNCHANGED <<published, decided, failures, overwritten>>

StartDemo(h) ==
  /\ status[h] = "backtested"
  /\ status' = [status EXCEPT ![h] = "demo"]
  /\ UNCHANGED <<published, decided, failures, overwritten>>

\* The verdict, or the loss of the status, is final.
Decide(h) ==
  /\ status[h] = "demo"
  /\ \E s \in InTrial : status' = [status EXCEPT ![h] = s]
  /\ UNCHANGED <<published, decided, failures, overwritten>>

\* But one who decided on h as well replaces it.
Overwrite(h) ==
  /\ status[h] \in InTrial
  /\ \E s \in InTrial : status' = [status EXCEPT ![h] = s]
  /\ overwritten' = overwritten \cup {h}
  /\ h \in contested
  /\ UNCHANGED <<published, decided, failures>>

\* A verdict is announced while it stands, or after one was replaced.
Stands(h, s) == status[h] = s \/ h \in overwritten

Announce(h, e) ==
  /\ \/ e = "hypothesis.backtested" /\ status[h] # "absent"
     \/ e = "hypothesis.promoted" /\ Stands(h, "live")
     \/ e = "hypothesis.rejected" /\ Stands(h, "rejected")
  /\ \/ published' = [published EXCEPT ![h] = @ \cup {e}] /\ UNCHANGED decided
     \/ decided' = [decided EXCEPT ![h] = @ \cup {e}] /\ UNCHANGED published
  /\ UNCHANGED <<status, failures, overwritten>>

RecordFailure(h) ==
  /\ "hypothesis.rejected" \in published[h]
  /\ failures' = failures \cup {h}
  /\ UNCHANGED <<status, published, decided, overwritten>>

Next ==
  \E h \in Hypotheses :
    \/ \E e \in {"hypothesis.backtested", "hypothesis.promoted", "hypothesis.rejected"} : Announce(h, e)
    \/ RecordFailure(h)
    \/ Backtest(h) \/ StartDemo(h) \/ Decide(h) \/ Overwrite(h)

Spec == Init /\ [][Next]_<<status, published, decided, failures, overwritten>>

=================================================================================
