--------------------------- MODULE AssignmentLife ---------------------------
(***************************************************************************)
(* The hand-over of one Task to its Workers, generation by generation, of  *)
(* which only the latest counts: it is offered when no other is open,      *)
(* completed only by a claim whose lease runs, offered again by the        *)
(* Supervisor only when the lease of the claim has run out; and it is      *)
(* never claimed twice.  BuilderTools has all generations of it with their *)
(* Workers and the clock, ReviewLifecycle the latest with its findings;    *)
(* both implement this module.                                             *)
(***************************************************************************)
VARIABLES status,  \* of the latest generation
          late     \* it is claimed, and its lease has run out

vars == <<status, late>>

Live == {"OFFERED", "CLAIMED"}

Status == Live \cup {"NONE", "COMPLETED", "FROZEN", "CANCELLED"}

Init == status = "NONE" /\ late = FALSE

Offer ==
  /\ status \notin Live
  /\ status' = "OFFERED" /\ late' = FALSE

\* The lease is cut to the deadline of the Task, which may have passed.
Claim ==
  /\ status = "OFFERED"
  /\ status' = "CLAIMED" /\ late' \in BOOLEAN

Complete ==
  /\ status = "CLAIMED" /\ ~late
  /\ status' = "COMPLETED" /\ late' = FALSE

Lapse ==
  /\ status = "CLAIMED" /\ ~late
  /\ status' = status /\ late' = TRUE

\* The claim is fenced off, and its work offered again if it is still wanted.
Recover ==
  /\ status = "CLAIMED" /\ late
  /\ status' \in {"OFFERED", "FROZEN"} /\ late' = FALSE

Cancel ==
  /\ status \in Live
  /\ status' = "CANCELLED" /\ late' = FALSE

Next == Offer \/ Claim \/ Complete \/ Lapse \/ Recover \/ Cancel

Spec == Init /\ [][Next]_vars
=============================================================================
