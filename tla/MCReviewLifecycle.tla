------------------------- MODULE MCReviewLifecycle -------------------------
(***************************************************************************)
(* Small instances of ReviewLifecycle for TLC.                             *)
(***************************************************************************)
EXTENDS ReviewSafety, TLC

CONSTANTS p1, p2, f1

OnePlan == {p1}
TwoPlans == {p1, p2}
OneFinding == {f1}
NoFindings == {}

\* A grade that blocks in either round, and one that may become advisory.
Blocking == {[severity |-> "CRITICAL", blocking |-> TRUE]}
Minor == {[severity |-> "LOW", blocking |-> FALSE]}

\* The plans are interchangeable; used by safety runs only.
PlanSymmetry == Permutations(TwoPlans)
=============================================================================
