--------------------------- MODULE MCGitHubIngress ---------------------------
(***************************************************************************)
(* A small instance of GitHubIngress for TLC.                              *)
(***************************************************************************)
EXTENDS GitHubIngress, TLC

CONSTANTS h1, h2, d1, d2, opened, push1, push2

TwoHandlers == {h1, h2}
TwoDeliveries == {d1, d2}

\* Payload and event are one here: a payload that differs in nothing the
\* Hub reads behaves like another delivery id.
Payloads == {opened, push1, push2}
SameEvent == [b \in Payloads |-> b]
Pushes == {push1, push2}

Interchangeable ==
  Permutations(TwoHandlers) \cup Permutations(TwoDeliveries) \cup Permutations(Pushes)
=============================================================================
