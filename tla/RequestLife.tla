---------------------------- MODULE RequestLife ----------------------------
(***************************************************************************)
(* The life of the review requests of one Task, as every part of the Hub   *)
(* that works on them may rely on: one is open at a time; it is started or *)
(* completed only before its deadline and timed out only after it; and its *)
(* end stays.  The end may come at any moment and from anywhere, which is  *)
(* what makes the parts hard: the Dispatcher, the wake worker, the inbox   *)
(* and the services of the Task each look at the request between any two   *)
(* of their steps.                                                         *)
(*                                                                         *)
(* ReviewLifecycle, OutboxDelivery, ReviewerWake and ReviewInbox each have *)
(* their own picture of a request; each implements this module.            *)
(***************************************************************************)
CONSTANT Request

VARIABLES status,  \* of each request
          late     \* the deadline of the open request has passed

vars == <<status, late>>

Active == {"PENDING", "IN_PROGRESS"}

\* "STOPPED" stands for every end that is neither an answer nor a time-out.
Status == Active \cup {"NONE", "COMPLETED", "TIMED_OUT", "STOPPED"}

Open(r) == status[r] \in Active

Init ==
  /\ late = FALSE
  /\ \/ status = [r \in Request |-> "NONE"]
     \/ \E r \in Request : status = [s \in Request |-> IF s = r THEN "PENDING" ELSE "NONE"]

Becomes(r, next) == status' = [status EXCEPT ![r] = next]

Ask(r) ==
  /\ \A s \in Request : ~Open(s)
  /\ status[r] = "NONE" /\ Becomes(r, "PENDING")
  /\ late' = FALSE

Start(r) ==
  /\ status[r] = "PENDING" /\ ~late
  /\ Becomes(r, "IN_PROGRESS")
  /\ UNCHANGED late

Complete(r) ==
  /\ Open(r) /\ ~late
  /\ Becomes(r, "COMPLETED")
  /\ UNCHANGED late

TimeOut(r) ==
  /\ Open(r) /\ late
  /\ Becomes(r, "TIMED_OUT")
  /\ late' = FALSE

\* The delivery fails, the Reviewer gives up or the Human decides, late or not.
Stop(r) ==
  /\ Open(r)
  /\ Becomes(r, "STOPPED")
  /\ late' = FALSE

Deadline ==
  /\ ~late /\ \E r \in Request : Open(r)
  /\ late' = TRUE
  /\ UNCHANGED status

Next == Deadline \/ \E r \in Request : Ask(r) \/ Start(r) \/ Complete(r) \/ TimeOut(r) \/ Stop(r)

Spec == Init /\ [][Next]_vars
=============================================================================
