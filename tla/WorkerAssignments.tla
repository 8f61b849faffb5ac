------------------------- MODULE WorkerAssignments -------------------------
(***************************************************************************)
(* The hand-over of an approved plan to Workers (application/              *)
(* worker_tasks.py): an assignment is offered, claimed under a lease, and  *)
(* completed with evidence; the Supervisor fences a claim whose lease has  *)
(* run out and offers the work again as the next generation.               *)
(*   task         what the operations read and write of the tasks row      *)
(*   assignments  the worker_assignments rows; the generation is the place *)
(*   uploads      the evidence artifacts Workers have submitted            *)
(*   now          the clock                                                *)
(* Every operation is one serialized transaction.  This module has no      *)
(* behaviour of its own: BuilderTools puts the Builder, the Human and the  *)
(* clock around it.                                                        *)
(*                                                                         *)
(* Left out: the version of a row.  It starts at 0 in every generation, so *)
(* a call that comes late may carry one that matches by accident; here a   *)
(* call's version always matches, and only the other guards can refuse it. *)
(* Left out too: the Task deadline, to which a lease is cut, and the       *)
(* findings an assignment has to fix; ReviewLifecycle has both.  The Task  *)
(* is frozen exactly at the Human Gate and after its end, which the guard  *)
(* on its state covers.                                                    *)
(***************************************************************************)
EXTENDS Integers, Sequences

CONSTANTS Plans,            \* PLAN artifacts that may be approved
          NoPlan,           \* the null plan id
          Workers,          \* WorkBuddy principals
          NoWorker,         \* the null principal
          LeaseTime,        \* settings.lease_seconds
          MaxTime,          \* bound on the clock
          MaxGenerations,   \* bound on the assignments of the Task
          MaxUploads        \* bound on the artifacts Workers submit

ASSUME AssignmentConstants ==
  /\ NoPlan \notin Plans /\ NoWorker \notin Workers
  /\ LeaseTime \in Nat \ {0}
  /\ {MaxTime, MaxGenerations, MaxUploads} \subseteq Nat

VARIABLES task, assignments, uploads, now

NoTime == -1
Time == NoTime..MaxTime + LeaseTime

LiveStatus == {"OFFERED", "CLAIMED"}

Assignment == [status : LiveStatus \cup {"COMPLETED", "FROZEN", "CANCELLED"},
               plan : Plans, worker : Workers \cup {NoWorker}, lease : Time,
               claimed : Time, progress : Time, evidence : Nat]

\* "under" is the generation the Worker held when it submitted the artifact.
Upload == [by : Workers, at : Time, under : Nat]

Generations == DOMAIN assignments

LiveGenerations == {g \in Generations : assignments[g].status \in LiveStatus}

Executable == task.state = "EXECUTING"

-----------------------------------------------------------------------------
Offered(plan) == [status |-> "OFFERED", plan |-> plan, worker |-> NoWorker,
                  lease |-> 0, claimed |-> NoTime, progress |-> NoTime, evidence |-> 0]

\* Mutant: a left-over assignment is no obstacle to a new one.
OfferAnyway(row) ==
  /\ row.plan # NoPlan
  /\ Len(assignments) < MaxGenerations
  /\ assignments' = Append(assignments, Offered(row.plan))

\* _create_worker_assignment, for the Task row "row" its caller has just written.
Offer(row) ==
  /\ LiveGenerations = {}
  /\ row.plan # NoPlan
  /\ Len(assignments) < MaxGenerations
  /\ assignments' = Append(assignments, Offered(row.plan))

\* claim_task
Claim(w) ==
  \E g \in LiveGenerations :
    /\ assignments[g].status = "OFFERED" /\ Executable
    /\ assignments' = [assignments EXCEPT ![g] =
         [@ EXCEPT !.status = "CLAIMED", !.worker = w, !.lease = now + LeaseTime,
                   !.claimed = now]]
    /\ UNCHANGED uploads

\* The claim a Worker's call is taken to be about: _assignment(..., ('CLAIMED',)).
Holds(w, g) == assignments[g].status = "CLAIMED" /\ assignments[g].worker = w

InTime(w, g) == Holds(w, g) /\ Executable /\ assignments[g].lease > now

\* report_worker_progress
Progress(w) ==
  \E g \in Generations :
    /\ InTime(w, g)
    /\ assignments' = [assignments EXCEPT ![g].progress = now, ![g].lease = now + LeaseTime]
    /\ UNCHANGED uploads

\* submit_artifact of a Worker: it needs a claim, and no lease.
SubmitEvidence(w) ==
  \E g \in Generations :
    /\ Holds(w, g) /\ Executable
    /\ Len(uploads) < MaxUploads
    /\ uploads' = Append(uploads, [by |-> w, at |-> now, under |-> g])
    /\ UNCHANGED assignments

\* Mutant: any artifact of the principal will do.
IsEvidenceOfPrincipal(a, g) ==
  /\ uploads[a].by = assignments[g].worker
  /\ uploads[a].at <= assignments[g].progress

IsEvidence(a, g) ==
  /\ uploads[a].by = assignments[g].worker
  /\ assignments[g].claimed <= uploads[a].at
  /\ uploads[a].at <= assignments[g].progress

\* complete_worker_task
Complete(w, a) ==
  \E g \in Generations :
    /\ InTime(w, g) /\ IsEvidence(a, g)
    /\ assignments' = [assignments EXCEPT ![g] =
         [@ EXCEPT !.status = "COMPLETED", !.lease = 0, !.evidence = a]]
    /\ UNCHANGED uploads

\* recover_assignments
Recover ==
  \E g \in LiveGenerations :
    /\ assignments[g].status = "CLAIMED" /\ assignments[g].lease <= now
    /\ LET fenced == [assignments EXCEPT ![g].status = "FROZEN", ![g].lease = 0]
       IN  assignments' = IF Executable
                          THEN Append(fenced, Offered(assignments[g].plan)) ELSE fenced
    /\ Executable => Len(assignments) < MaxGenerations
    /\ UNCHANGED uploads

\* _stop_task_automation(..., cancel_assignments=True)
CancelAssignments ==
  assignments' = [g \in Generations |->
    IF g \in LiveGenerations
    THEN [assignments[g] EXCEPT !.status = "CANCELLED", !.lease = 0] ELSE assignments[g]]

\* Mutant: some generation was completed.
WorkWasDone == \E g \in Generations : assignments[g].status = "COMPLETED"

\* self_test: the latest generation is completed.
WorkIsDone == Len(assignments) > 0 /\ assignments[Len(assignments)].status = "COMPLETED"

-----------------------------------------------------------------------------
(***************************************************************************)
(* At most one assignment is open to a Worker, and it is the latest        *)
(* generation: whatever the gates, aborts and recoveries in between, two   *)
(* Workers are never both at work on the Task.                             *)
(***************************************************************************)
OneLiveAssignment == LiveGenerations \subseteq {Len(assignments)}

(***************************************************************************)
(* A completed assignment carries evidence its Worker submitted under this *)
(* very claim: what it made under an earlier claim, which was fenced off,  *)
(* is refused even if the same Worker claimed the work again.  The code    *)
(* compares times, so an artifact of the instant of the claim is accepted. *)
(***************************************************************************)
EvidenceOfTheClaim ==
  \A g \in Generations : assignments[g].status = "COMPLETED" =>
    LET artifact == uploads[assignments[g].evidence]
    IN  /\ artifact.by = assignments[g].worker
        /\ artifact.under = g \/ artifact.at = assignments[g].claimed

=============================================================================
