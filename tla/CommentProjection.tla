-------------------------- MODULE CommentProjection --------------------------
(***************************************************************************)
(* The comment by which a completed Final Review shows on its pull request:*)
(* the projection row (github_comment_projections), the processes that     *)
(* project it (the Supervisor's worker and the project-once command) and   *)
(* the pull request.  Unlike a review request, a comment must never show   *)
(* twice; so once a POST may have happened none follows, and the projector *)
(* only looks whether it did.                                              *)
(*                                                                         *)
(* Review, task and binding are immutable by then, and with them the body  *)
(* of the comment; on GitHub somebody may edit the comment, and the        *)
(* projector puts the text right.  Nobody deletes it.                      *)
(*                                                                         *)
(* attempts and lease_generation start at 0 and are only incremented       *)
(* together: one number, which also names a claim and what it posted.      *)
(***************************************************************************)
EXTENDS Naturals

CONSTANTS Projector,    \* processes that run project_one
          MaxAttempts,  \* settings.delivery_max_attempts
          MaxClaims     \* bound on the claims; the last one meets no failure

ASSUME ProjectionAssumption == MaxAttempts \in Nat /\ MaxClaims \in Nat

VARIABLES bound,     \* the Task is bound to its pull request
          row,       \* the projection row
          proc,      \* the project_one call of each process
          posted,    \* claims whose comment was sent to GitHub
          accepted,  \* of these, the ones GitHub accepted
          listed,    \* of these, the ones find_comment finds
          edited     \* whether the comment has another text than the row

vars == <<bound, row, proc, posted, accepted, listed, edited>>

github == <<posted, accepted, listed, edited>>

-----------------------------------------------------------------------------
RowStatus == {"NONE", "READY", "LEASED", "RETRY", "UNKNOWN", "SENT", "FAILED"}

\* "bound": binding and text are in the row; "due": next_attempt_at or lease_until is past.
RowType == [status : RowStatus, bound : BOOLEAN, attempts : Nat, due : BOOLEAN]

\* MISSED is a lookup in doubt that found nothing, TROUBLE a retryable
\* failure before any POST, LOST one of a lookup in doubt or of a POST.
Outcome == {"SENT", "MISSED", "TROUBLE", "LOST", "REFUSED"}

Idle == [pc |-> "idle", claim |-> 0, unsure |-> FALSE, outcome |-> "SENT"]

\* "unsure": claimed_from_status is UNKNOWN.
CallType == [pc : {"idle", "find", "update", "create", "settle"}, claim : Nat,
             unsure : BOOLEAN, outcome : Outcome]

TypeOK ==
  /\ bound \in BOOLEAN
  /\ row \in RowType
  /\ proc \in [Projector -> CallType]
  /\ posted \in SUBSET Nat
  /\ accepted \in SUBSET posted
  /\ listed \in SUBSET accepted
  /\ edited \in BOOLEAN

\* A v2 Final Review leaves an intent when it completes, a v1 one leaves none.
Init ==
  /\ bound = FALSE
  /\ \E status \in {"NONE", "UNKNOWN"} :
       row = [status |-> status, bound |-> FALSE, attempts |-> 0, due |-> TRUE]
  /\ proc = [p \in Projector |-> Idle]
  /\ posted = {} /\ accepted = {} /\ listed = {} /\ edited = FALSE

-----------------------------------------------------------------------------
\* bind_pull_request: a Task has at most one binding, and keeps it.
Bind ==
  /\ ~bound
  /\ bound' = TRUE
  /\ UNCHANGED <<row, proc, github>>

\* Mutant: queueing a review again starts its projection again.
NeedsTextOrNew == TRUE

\* The row lacks its binding; with it the text never changes again.
NeedsText == ~row.bound

\* enqueue_final_review
Enqueue ==
  /\ bound
  /\ NeedsText
  /\ row' = [row EXCEPT !.status = "READY", !.bound = TRUE, !.due = TRUE]
  /\ UNCHANGED <<bound, proc, github>>

Call(p, next) == proc' = [proc EXCEPT ![p] = next]

Ends(p, outcome) == Call(p, [proc[p] EXCEPT !.pc = "settle", !.outcome = outcome])

\* Mutant: a lease that ran out is taken over as if nothing had been tried.
UnsureByStatus == row.status = "UNKNOWN"

Unsure == row.status \in {"UNKNOWN", "LEASED"}

\* Mutant: the lease of a process that died is never taken over.
ReadyWithoutRecovery == row.bound /\ row.status \in {"READY", "RETRY", "UNKNOWN"} /\ row.due

Ready == row.bound /\ row.status \in {"READY", "RETRY", "UNKNOWN", "LEASED"} /\ row.due

\* _claim
Claim(p) ==
  /\ proc[p].pc = "idle"
  /\ Ready
  /\ row.attempts < MaxClaims
  /\ row' = [row EXCEPT !.status = "LEASED", !.attempts = @ + 1, !.due = FALSE]
  /\ Call(p, [pc |-> "find", claim |-> row.attempts + 1, unsure |-> Unsure, outcome |-> "SENT"])
  /\ UNCHANGED <<bound, github>>

Unlucky(p) == proc[p].claim < MaxClaims

\* find_comment, and what the answer leads to.
Find(p) ==
  /\ proc[p].pc = "find"
  /\ \/ listed # {} /\ edited /\ Call(p, [proc[p] EXCEPT !.pc = "update"])
     \/ listed # {} /\ ~edited /\ Ends(p, "SENT")
     \/ listed = {} /\ proc[p].unsure /\ Ends(p, "MISSED")
     \/ listed = {} /\ ~proc[p].unsure /\ Call(p, [proc[p] EXCEPT !.pc = "create"])
     \/ Unlucky(p) /\ Ends(p, IF proc[p].unsure THEN "LOST" ELSE "TROUBLE")
     \/ Unlucky(p) /\ Ends(p, "REFUSED")
  /\ UNCHANGED <<bound, row, github>>

\* update_comment; a failed answer says nothing about the text.
Update(p) ==
  /\ proc[p].pc = "update"
  /\ \/ edited' = FALSE /\ Ends(p, "SENT")
     \/ Unlucky(p) /\ edited' \in {edited, FALSE} /\ (Ends(p, "TROUBLE") \/ Ends(p, "REFUSED"))
  /\ UNCHANGED <<bound, row, posted, accepted, listed>>

\* A time-out or a broken connection, or an answer that cannot be read.
NoAnswer(p) == Ends(p, "LOST") \/ Ends(p, "REFUSED")

\* create_comment; what GitHub accepts it may list at once or later.
Create(p) ==
  /\ proc[p].pc = "create"
  /\ posted' = posted \cup {proc[p].claim}
  /\ \/ /\ accepted' = accepted \cup {proc[p].claim}
        /\ listed' \in {listed, listed \cup {proc[p].claim}}
        /\ Ends(p, "SENT") \/ NoAnswer(p)
     \/ UNCHANGED <<accepted, listed>> /\ NoAnswer(p)
  /\ UNCHANGED <<bound, row, edited>>

-----------------------------------------------------------------------------
HoldsLease(p) == row.status = "LEASED" /\ row.attempts = proc[p].claim

Exhausted == row.attempts >= MaxAttempts

SettledStatus(outcome) ==
  CASE outcome = "SENT"    -> "SENT"
    [] outcome = "MISSED"  -> IF Exhausted THEN "FAILED" ELSE "UNKNOWN"
    [] outcome = "TROUBLE" -> IF Exhausted THEN "FAILED" ELSE "RETRY"
    [] outcome = "LOST"    -> "UNKNOWN"
    [] outcome = "REFUSED" -> "FAILED"

\* The last transaction of project_one, whichever way it ends.
Settle(p) ==
  /\ proc[p].pc = "settle"
  /\ Call(p, Idle)
  /\ row' = IF HoldsLease(p)
            THEN [row EXCEPT !.status = SettledStatus(proc[p].outcome)]
            ELSE row
  /\ UNCHANGED <<bound, github>>

Crash(p) ==
  /\ proc[p].pc # "idle" /\ Unlucky(p)
  /\ Call(p, Idle)
  /\ UNCHANGED <<bound, row, github>>

\* next_attempt_at or lease_until comes.
Due ==
  /\ ~row.due
  /\ row' = [row EXCEPT !.due = TRUE]
  /\ UNCHANGED <<bound, proc, github>>

\* GitHub lists a comment it accepted before; somebody edits the comment.
List ==
  /\ \E claim \in accepted \ listed : listed' = listed \cup {claim}
  /\ UNCHANGED <<bound, row, proc, posted, accepted, edited>>

Edit ==
  /\ accepted # {} /\ ~edited
  /\ edited' = TRUE
  /\ UNCHANGED <<bound, row, proc, posted, accepted, listed>>

-----------------------------------------------------------------------------
Project(p) == Claim(p) \/ Find(p) \/ Update(p) \/ Create(p) \/ Settle(p)

Next ==
  \/ Bind \/ Enqueue
  \/ \E p \in Projector : Project(p) \/ Crash(p)
  \/ Due \/ List \/ Edit

Spec == Init /\ [][Next]_vars

(***************************************************************************)
(* ProjectionWorker queues intents whose Task is bound, and projects; time *)
(* passes.  Nobody has to bind the Task, and GitHub has to list nothing.   *)
(***************************************************************************)
Fairness ==
  /\ WF_vars(row.status # "NONE" /\ Enqueue)
  /\ \A p \in Projector : WF_vars(Project(p))
  /\ WF_vars(Due)

FairSpec == Spec /\ Fairness

-----------------------------------------------------------------------------
(***************************************************************************)
(* The comment is posted at most once, whichever processes crash, hang     *)
(* past their lease or lose the answer, and however late GitHub lists it.  *)
(***************************************************************************)
PostsOnce == \A c, d \in posted : c = d

(***************************************************************************)
(* The projection keeps the promise of a delivery that is made once: SENT  *)
(* says that the comment was accepted, SENT and FAILED stay, also against  *)
(* a process that comes back late and a review that is queued again.       *)
(***************************************************************************)
Promise == INSTANCE DeliveryPromise WITH
  Copy   <- 1..MaxClaims,
  Single <- TRUE,
  state  <- IF row.status = "SENT" THEN "sent"
            ELSE IF row.status = "FAILED" THEN "given up" ELSE "open",
  copies <- accepted

KeepsPromise == Promise!Spec

(***************************************************************************)
(* A bound intent comes to SENT or FAILED in the end, without a person,    *)
(* however many leases were lost and lookups in doubt found nothing, if    *)
(* failures and crashes stop at some time.                                 *)
(***************************************************************************)
ProjectionEnds ==
  (bound /\ row.status # "NONE") ~> (row.status \in {"SENT", "FAILED"})
=============================================================================
