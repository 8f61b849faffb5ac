--------------------------- MODULE MCSharedSweep ---------------------------
(***************************************************************************)
(* Small instances of SharedSweep for TLC: the Task of MCReviewLifecycle,  *)
(* next to another one or alone.                                           *)
(***************************************************************************)
EXTENDS MCReviewLifecycle, SharedSweep

CONSTANT t1

OneOther == {t1}
NoOther == {}
=============================================================================
