--------------------------- MODULE MCLocalReviewer ---------------------------
(***************************************************************************)
(* A small instance of LocalReviewer for TLC: one request, which Grok or  *)
(* a Reviewer of the Hub is asked for.                                     *)
(***************************************************************************)
EXTENDS LocalReviewer

CONSTANTS h1, k1, k2, w1, w2, good, unfounded

OneHandler == {h1}
TwoWorkers == {w1, w2}
TwoKeys == {k1, k2}
Answers == {good, unfounded}
GoodAnswers == {good}
Both == {"grok_bot", "mock"}
=============================================================================
