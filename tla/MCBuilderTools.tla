--------------------------- MODULE MCBuilderTools ---------------------------
(***************************************************************************)
(* A Builder that asks for a Final review and retries it, and two Workers. *)
(***************************************************************************)
EXTENDS BuilderTools, TLC

CONSTANTS p1, p2, w1, w2, e1, k1, r1

TwoPlans == {p1, p2}
TwoWorkers == {w1, w2}
OneTest == {e1}
OneFinal == {k1}
OneRetry == {r1}

Symmetry == Permutations(TwoPlans) \cup Permutations(TwoWorkers)
=============================================================================
