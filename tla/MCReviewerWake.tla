--------------------------- MODULE MCReviewerWake ---------------------------
(***************************************************************************)
(* Small instances of ReviewerWake for TLC.                                *)
(***************************************************************************)
EXTENDS ReviewerWake

CONSTANTS w1, w2

\* A Supervisor and the one started while the first still hangs in a call.
TwoWakers == {w1, w2}
=============================================================================
