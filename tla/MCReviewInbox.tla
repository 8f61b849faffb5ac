---------------------------- MODULE MCReviewInbox ----------------------------
(***************************************************************************)
(* A small instance of ReviewInbox for TLC.                                *)
(***************************************************************************)
EXTENDS ReviewInbox, TLC

CONSTANTS h1, h2, k1, k2, good, unfounded

TwoHandlers == {h1, h2}
TwoKeys == {k1, k2}

\* One answer that may be accepted and one that breaks a rule of the verdict;
\* a malformed one is refused like one that names an old version.
Answers == {good, unfounded}
GoodAnswers == {good}
Grok == {"grok_bot"}

Interchangeable == Permutations(TwoHandlers) \cup Permutations(TwoKeys)
=============================================================================
