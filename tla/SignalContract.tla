----------------------------- MODULE SignalContract -----------------------------
(***************************************************************************)
(* What signal-generator promises of each event, without messages,         *)
(* handlers, keys, dispatches or runs (the rules of its domain model):     *)
(* signals are made of verified input only (RULE-SG-001), stored before    *)
(* they are announced (RULE-SG-005), and final once they are: neither they *)
(* nor a failure is announced again (INV-SG-004).  The two histories say   *)
(* of which events the last is not promised.                               *)
(***************************************************************************)
EXTENDS Naturals

CONSTANTS
  Identifiers,  \* the identifiers of events
  Events        \* the announcements, "signal.generated" among them

VARIABLES
  verified,   \* the events whose input can be verified
  signals,    \* the events whose signals are stored
  published,  \* published[i][e]: how often e was announced about i
  disturbed,  \* the events whose handling was disturbed
  doubted     \* the events of which an announcement was not answered

Init ==
  /\ verified \subseteq Identifiers
  /\ signals = {}
  /\ published = [i \in Identifiers |-> [e \in Events |-> 0]]
  /\ disturbed = {}
  /\ doubted = {}

Store(i) ==
  /\ i \in verified
  /\ signals' = signals \cup {i}
  /\ UNCHANGED <<verified, published, disturbed, doubted>>

\* The signals of i are announced, and nothing excuses another announcement.
Final(i) == published[i]["signal.generated"] > 0 /\ i \notin disturbed \cup doubted

Announce(i, e) ==
  /\ e = "signal.generated" => i \in signals
  /\ ~Final(i)
  /\ published' = [published EXCEPT ![i][e] = @ + 1]
  /\ doubted' \in {doubted, doubted \cup {i}}
  /\ UNCHANGED <<verified, signals, disturbed>>

Disturb(i) ==
  /\ disturbed' = disturbed \cup {i}
  /\ UNCHANGED <<verified, signals, published, doubted>>

Next ==
  \E i \in Identifiers :
    \/ Store(i) \/ Disturb(i)
    \/ \E e \in Events : Announce(i, e)

Spec == Init /\ [][Next]_<<verified, signals, published, disturbed, doubted>>

=================================================================================
