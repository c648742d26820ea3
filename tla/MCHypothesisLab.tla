---------------------------- MODULE MCHypothesisLab -----------------------------
(* Small instances of HypothesisLab for TLC. *)
EXTENDS HypothesisLab, TLC

CONSTANTS i1, i2, m1, m2, w1, w2, h1, h2, h3, r1

Identifies == [m \in Messages |-> IF m = m1 THEN i1 ELSE i2]

ForIt == Rules \ {"declared"}

Passing == [kind |-> "proposed", complete |-> TRUE, costAdjustedReturn |-> 1, dsr |-> 1,
            pbo |-> 49, grounds |-> ForIt]

Promotable == [kind |-> "demo", hypothesis |-> h1, addressed |-> TRUE, window |-> TRUE,
               demoPeriodDays |-> 30, promotable |-> TRUE]

OfProposed == [Promotable EXCEPT !.hypothesis = h2]

Untitled == [Passing EXCEPT !.complete = FALSE]

Case(first, second, request) == i1 :> first @@ i2 :> second @@ r1 :> request

Unasked(first, second) == Case(first, second, NoRequest)

Asked(first, second, kind) == Case(first, second, [kind |-> kind, hypothesis |-> h1])

(* Two that meet, a proposal and the demo of what it becomes; the backtest *)
(* passes, or it fails for want of metrics.  The others keep to            *)
(* themselves: a proposal without a title, beside a demo that is a day     *)
(* short and two that are malformed, one of these beside a rejection by    *)
(* the BFF.  Then two demos of one hypothesis disagree, and at last the    *)
(* BFF is asked to promote what is not promotable, and to declare on what  *)
(* is.                                                                     *)
SomeCases ==
  {Unasked(Passing, OfProposed), Unasked(NoMetrics @@ Passing, OfProposed),
   Asked(Untitled, [Promotable EXCEPT !.addressed = FALSE], "reject"),
   Unasked(Untitled, [Promotable EXCEPT !.window = FALSE]),
   Unasked(Untitled, [Promotable EXCEPT !.demoPeriodDays = 29]),
   Unasked(Promotable, [Promotable EXCEPT !.promotable = FALSE]),
   Asked(Untitled, [Promotable EXCEPT !.promotable = FALSE], "promote"),
   Asked(Untitled, Promotable, "declare")}

AllGrounds == {Rules}

\* Both workers run the same handlers.
Symmetry == Permutations(Workers)

=================================================================================
