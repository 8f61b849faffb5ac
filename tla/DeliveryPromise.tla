--------------------------- MODULE DeliveryPromise ---------------------------
(***************************************************************************)
(* What the Hub promises of a thing it delivers to GitHub as a comment: to *)
(* call it sent only when a copy was accepted, to come to one end and stay *)
(* there, and to have no more copies accepted than it may.  A copy can     *)
(* arrive after the Hub gave up, as the POST may then be on its way.       *)
(*                                                                         *)
(* OutboxDelivery (a review request, retried) and CommentProjection (the   *)
(* comment on a completed review, never retried) both implement it.        *)
(***************************************************************************)
CONSTANTS Copy,    \* the copies that may ever be posted
          Single   \* whether only one of them may be accepted

VARIABLES state, copies

vars == <<state, copies>>

Init == state = "open" /\ copies = {}

Accept(copy) ==
  /\ Single => copies = {}
  /\ copies' = copies \cup {copy}
  /\ UNCHANGED state

Confirm ==
  /\ state = "open" /\ copies # {}
  /\ state' = "sent"
  /\ UNCHANGED copies

GiveUp ==
  /\ state = "open"
  /\ state' = "given up"
  /\ UNCHANGED copies

Next == (\E copy \in Copy : Accept(copy)) \/ Confirm \/ GiveUp

Spec == Init /\ [][Next]_vars
=============================================================================
