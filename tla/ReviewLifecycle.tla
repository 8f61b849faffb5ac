--------------------------- MODULE ReviewLifecycle ---------------------------
(***************************************************************************)
(* The life of one production Task: a v2 Task under the V1 dual-round      *)
(* policy, as the application services of the Hub move it.                 *)
(*                                                                         *)
(* Every command, event and worker tick runs in one serialized database    *)
(* transaction (adapters/sqlite.py), so it is one action here; a command   *)
(* the code refuses rolls back and is simply not enabled.  The rows that   *)
(* belong to the Task are the variables:                                   *)
(*   task      the tasks row                                               *)
(*   rr        the review_requests rows, by type, in the order of rounds   *)
(*   finding   the review_findings rows                                    *)
(*   moved     the findings whose version is no longer the one frozen in   *)
(*             the context of the active request                           *)
(*   approval  the latest HIGH_RISK_ACTION row of human_approvals          *)
(*   worker    the latest worker_assignments row                           *)
(* Timestamps are abstracted to one Boolean per deadline, "expired":       *)
(* whether the clock has reached it.  The deadline of a row that is closed *)
(* is never read again and counts as not reached.                          *)
(*                                                                         *)
(* A definition introduced as a "Mutant" is no part of the model: it is a  *)
(* plausible bug in the definition after it, with which TLC has to find a  *)
(* property violated.                                                      *)
(***************************************************************************)
EXTENDS TaskRules, Sequences

CONSTANTS Plans,        \* PLAN artifacts the Builder has uploaded
          NoPlan,       \* the null plan id
          Findings,     \* identities a finding can get
          Grades,       \* [severity, blocking] a Reviewer gives a new finding
          MaxRevision,  \* bound on content_revision
          MaxPackages   \* bound on the packages submitted for one revision

ASSUME ConstantsAssumption ==
  /\ NoPlan \notin Plans
  /\ Grades \subseteq [severity : Severity, blocking : BOOLEAN]
  /\ MaxRevision \in Nat
  /\ MaxPackages \in Nat

VARIABLES task, rr, finding, moved, approval, worker

vars == <<task, rr, finding, moved, approval, worker>>

-----------------------------------------------------------------------------
(***************************************************************************)
(* Rows.  A request is named by its type and its round, which is its place *)
(* in rr; a Final package by the revision it was built for and its rank    *)
(* among the packages of that revision.                                    *)
(***************************************************************************)
NoRR == <<"NONE", 0>>
NoPackage == <<0, 0>>
Package == Nat \X Nat

Request == [status : RequestStatus, input : Plans \cup Package, rev : Nat,
            limit : 1..V1_LIMIT, verdict : Verdict \cup {"NONE"}, expired : BOOLEAN]

NoFinding == [status |-> "NONE", stage |-> "NONE", severity |-> "LOW",
              blocking |-> FALSE, advisory |-> FALSE]

FindingRow == [status : FindingStatus, stage : ReviewType, severity : Severity,
               blocking : BOOLEAN, advisory : BOOLEAN]

LiveAssignment == {"OFFERED", "CLAIMED"}

WorkerStatus == LiveAssignment \cup {"NONE", "COMPLETED", "FROZEN", "CANCELLED"}

ClosedAction == {"NONE", "CONSUMED", "WITHDRAWN"}

ApprovalStatus == ClosedAction \cup {"PENDING", "APPROVED", "REJECTED", "EXPIRED"}

CompletionBasis == {"NONE", "FINAL_REVIEW_PASS", "HUMAN_OVERRIDE"}

TaskRow == [state : TaskState, frozen : BOOLEAN, expired : BOOLEAN,
            basis : CompletionBasis, rev : Nat, plan : Plans \cup {NoPlan},
            approvedPlan : Plans \cup {NoPlan}, approvedScope : Plans \cup {NoPlan},
            final : Package, selfTest : BOOLEAN, fixable : SUBSET Findings,
            activeFix : SUBSET Findings, limit : [ReviewType -> 1..V1_LIMIT],
            active : (ReviewType \cup {"NONE"}) \X Nat]

\* The requests of each type; what a Plan review reviews is a plan.
RequestTable ==
  {table \in [ReviewType -> Seq(Request)] :
     \A n \in DOMAIN table["PLAN_REVIEW"] : table["PLAN_REVIEW"][n].input \in Plans}

TypeOK ==
  /\ task \in TaskRow
  /\ rr \in RequestTable
  /\ finding \in [Findings -> FindingRow \cup {NoFinding}]
  /\ moved \in SUBSET Findings
  /\ approval \in [status : ApprovalStatus, rev : Nat, expired : BOOLEAN]
  /\ worker \in [status : WorkerStatus, fixes : SUBSET Findings, expired : BOOLEAN]

\* create_task with verified trigger evidence.
Init ==
  /\ task = [state |-> "NEW", frozen |-> FALSE, expired |-> FALSE, basis |-> "NONE",
             rev |-> 0, plan |-> NoPlan, approvedPlan |-> NoPlan,
             approvedScope |-> NoPlan, final |-> NoPackage, selfTest |-> FALSE,
             fixable |-> {}, activeFix |-> {},
             limit |-> [type \in ReviewType |-> V1_LIMIT], active |-> NoRR]
  /\ rr = [type \in ReviewType |-> <<>>]
  /\ finding = [f \in Findings |-> NoFinding]
  /\ moved = {}
  /\ approval = [status |-> "NONE", rev |-> 0, expired |-> FALSE]
  /\ worker = [status |-> "NONE", fixes |-> {}, expired |-> FALSE]

-----------------------------------------------------------------------------
(***************************************************************************)
(* What the handlers share.                                                *)
(***************************************************************************)
Known == {f \in Findings : finding[f].status # "NONE"}

OpenFindings == {f \in Known : Unresolved(finding[f])}

\* task_for(..., live=True)
Live == task.state \notin Terminal \cup {"ESCALATED"} /\ ~task.expired

ActionsClosed == approval.status \in ClosedAction

Requests == UNION {{type} \X DOMAIN rr[type] : type \in ReviewType}

Row(r) == rr[r[1]][r[2]]

Rounds(type) == Len(rr[type])

Latest(type) == rr[type][Rounds(type)]

GateType(state) == IF state = "PLAN_HUMAN_REVIEW" THEN "PLAN_REVIEW" ELSE "FINAL_REVIEW"

\* The requests when request r ends.
End(r, status, verdict) ==
  [rr EXCEPT ![r[1]][r[2]] = [@ EXCEPT !.status = status, !.verdict = verdict,
                                       !.expired = FALSE]]

\* Mutant: the Task forgets its request and the request stays open.
StopKeepsRequest(status) == rr

\* Mutant: every request of the Task is stopped, those that have ended as well.
StopEveryRequest(status) ==
  [type \in ReviewType |-> [n \in DOMAIN rr[type] |->
     [rr[type][n] EXCEPT !.status = status, !.verdict = "NONE", !.expired = FALSE]]]

\* stop_request: the requests after it; its callers also set task.active to NoRR.
Stop(status) ==
  IF task.active \in Requests /\ Row(task.active).status \in ActiveRequest
  THEN End(task.active, status, "NONE")
  ELSE rr

(***************************************************************************)
(* review_failure_gate: the active request ends as "status" and the Task   *)
(* is frozen at the Human Gate of that request's type or, without one, of  *)
(* the stage the Task is in.  transition raises, and the caller's whole    *)
(* transaction is undone, when that gate cannot be entered from here.      *)
(***************************************************************************)
\* Mutant: the list of planning states misses one.
PlanStatesBeforeChanges == PlanUnderReview \cup {"NEW", "PLANNING"}

PlanStates == PlanUnderReview \cup {"NEW", "PLANNING", "PLAN_CHANGES_REQUIRED"}

FailureGate(status) ==
  LET type  == IF task.active # NoRR THEN task.active[1]
               ELSE IF task.state \in PlanStates THEN "PLAN_REVIEW" ELSE "FINAL_REVIEW"
      event == IF type = "PLAN_REVIEW" THEN "plan_human_review" ELSE "final_human_review"
  IN  /\ CanMove(task.state, event)
      /\ rr' = Stop(status)
      /\ task' = [task EXCEPT !.state = MoveTo(event), !.active = NoRR, !.frozen = TRUE]
      /\ UNCHANGED <<finding, moved, approval, worker>>

\* escalate
Escalate ==
  /\ CanMove(task.state, "escalate")
  /\ rr' = Stop("ESCALATED")
  /\ task' = [task EXCEPT !.state = "ESCALATED", !.active = NoRR]
  /\ UNCHANGED <<finding, moved, worker>>

\* _create_worker_assignment, for the Task row "row" its caller has just written.
Offer(row, fixes) ==
  /\ worker.status \notin LiveAssignment
  /\ row.approvedPlan # NoPlan /\ row.approvedScope # NoPlan
  /\ worker' = [status |-> "OFFERED", fixes |-> fixes, expired |-> FALSE]

\* Findings the active request no longer knows at their frozen version.
Touches(f) == moved' = IF task.active = NoRR THEN moved ELSE moved \cup {f}

-----------------------------------------------------------------------------
(***************************************************************************)
(* Builder: planning, findings and review requests.                        *)
(***************************************************************************)
BeginPlan ==
  /\ Live
  /\ CanMove(task.state, "begin_plan")
  /\ task' = [task EXCEPT !.state = "PLANNING"]
  /\ UNCHANGED <<rr, finding, moved, approval, worker>>

\* The plan may be any uploaded PLAN artifact, the current one included.
SubmitPlan(plan) ==
  /\ Live
  /\ task.state = "PLANNING" /\ task.active = NoRR
  /\ task.rev < MaxRevision
  /\ task' = [task EXCEPT !.plan = plan, !.final = NoPackage, !.approvedPlan = NoPlan,
                          !.rev = @ + 1]
  /\ UNCHANGED <<rr, finding, moved, approval, worker>>

MayRequest(type) ==
  /\ Live
  /\ task.state = IF type = "PLAN_REVIEW" THEN "PLANNING" ELSE "SELF_TESTING"
  /\ task.active = NoRR
  /\ type = "PLAN_REVIEW" => task.plan # NoPlan
  /\ type = "FINAL_REVIEW" => /\ task.final # NoPackage
                              /\ task.approvedScope # NoPlan
                              /\ task.selfTest
                              /\ ActionsClosed

\* Mutant: off by one.
WithinLimitOfLast(type) == Rounds(type) <= task.limit[type]

WithinLimit(type) == Rounds(type) + 1 <= task.limit[type]

\* Mutant: the plan that was approved before is reviewed again.
ApprovedInput(type) == IF type = "PLAN_REVIEW" THEN task.approvedPlan ELSE task.final

Input(type) == IF type = "PLAN_REVIEW" THEN task.plan ELSE task.final

\* request_review: the next round of this type, with the input frozen in it.
RequestReview(type) ==
  /\ MayRequest(type)
  /\ WithinLimit(type)
  /\ rr' = [rr EXCEPT ![type] = Append(@,
              [status |-> "PENDING", input |-> Input(type), rev |-> task.rev,
               limit |-> task.limit[type], verdict |-> "NONE", expired |-> FALSE])]
  /\ task' = [task EXCEPT !.active = <<type, Rounds(type) + 1>>,
                          !.state = MoveTo(IF type = "PLAN_REVIEW" THEN "request_plan"
                                           ELSE "request_final")]
  /\ moved' = {}
  /\ UNCHANGED <<finding, approval, worker>>

\* request_review past the round limit: no request, the Task escalates.
RequestBeyondLimit(type) ==
  /\ MayRequest(type)
  /\ ~WithinLimit(type)
  /\ Escalate
  /\ UNCHANGED approval

\* respond_finding
RespondFinding(f, action) ==
  /\ f \in Known /\ ~finding[f].advisory
  /\ Live /\ task.active = NoRR
  /\ CanMoveFinding(finding[f].status, action)
  /\ action = "fix" =>
       /\ \/ task.state = "EXECUTING"
          \/ task.state = "PLANNING" /\ finding[f].stage = "PLAN_REVIEW"
       /\ finding[f].stage = "FINAL_REVIEW" => f \in task.activeFix
  /\ finding' = [finding EXCEPT ![f].status = FindingEdges[action].to]
  /\ Touches(f)
  /\ UNCHANGED <<task, rr, approval, worker>>

-----------------------------------------------------------------------------
(***************************************************************************)
(* Builder and Worker: execution of the approved plan.                     *)
(***************************************************************************)
\* move(execute): out of FINAL_CHANGES_REQUIRED only begin_final_fix may lead.
Execute ==
  /\ Live /\ ActionsClosed
  /\ task.state = "PLAN_APPROVED"
  /\ Offer(task, task.activeFix)
  /\ task' = [task EXCEPT !.state = MoveTo("execute")]
  /\ UNCHANGED <<rr, finding, moved, approval>>

\* begin_final_fix: inside the approved scope a new assignment, outside a new plan.
BeginFinalFix(fixes, within) ==
  /\ Live
  /\ task.state = "FINAL_CHANGES_REQUIRED"
  /\ fixes # {} /\ fixes \subseteq task.fixable
  /\ \/ /\ within
        /\ Offer(task, fixes)
        /\ task' = [task EXCEPT !.activeFix = fixes, !.state = MoveTo("execute")]
     \/ /\ ~within
        /\ task' = [task EXCEPT !.approvedPlan = NoPlan, !.approvedScope = NoPlan,
                                !.final = NoPackage, !.selfTest = FALSE,
                                !.state = MoveTo("scope_replan")]
        /\ UNCHANGED worker
  /\ UNCHANGED <<rr, finding, moved, approval>>

\* claim_task does not look at the Task deadline, to which the lease is cut.
ClaimAssignment ==
  /\ worker.status = "OFFERED"
  /\ task.state = "EXECUTING" /\ ~task.frozen
  /\ worker' = [worker EXCEPT !.status = "CLAIMED", !.expired = task.expired]
  /\ UNCHANGED <<task, rr, finding, moved, approval>>

\* report_worker_progress and complete_worker_task of the principal that claimed.
CompleteAssignment ==
  /\ worker.status = "CLAIMED" /\ ~worker.expired
  /\ task.state = "EXECUTING" /\ ~task.frozen
  /\ worker' = [worker EXCEPT !.status = "COMPLETED"]
  /\ UNCHANGED <<task, rr, finding, moved, approval>>

(***************************************************************************)
(* recover_assignments: an expired claim is fenced off, and offered again  *)
(* as the next generation if the Task is still executing.                  *)
(***************************************************************************)
RecoverAssignment ==
  /\ worker.status = "CLAIMED" /\ worker.expired
  /\ worker' = [worker EXCEPT
       !.status = IF task.state = "EXECUTING" /\ ~task.frozen /\ ~task.expired
                  THEN "OFFERED" ELSE "FROZEN",
       !.expired = FALSE]
  /\ UNCHANGED <<task, rr, finding, moved, approval>>

\* Mutant: a self-test does not look at high-risk actions.
WorkIsDoneWithActions == /\ worker.status = "COMPLETED"
                         /\ \A f \in worker.fixes : finding[f].status = "FIXED"

WorkIsDone == /\ ActionsClosed
              /\ worker.status = "COMPLETED"
              /\ \A f \in worker.fixes : finding[f].status = "FIXED"

Tested(passed) == [task EXCEPT !.selfTest = passed, !.final = NoPackage, !.rev = @ + 1]

SelfTest(passed) ==
  /\ Live /\ WorkIsDone
  /\ CanMove(task.state, "self_test")
  /\ task.rev < MaxRevision
  /\ task' = [Tested(passed) EXCEPT !.state = MoveTo(IF passed THEN "self_test"
                                                     ELSE "self_test_failed")]
  /\ UNCHANGED <<rr, finding, moved, approval, worker>>

\* move(self_test_failed): the Builder takes a passed self-test back.
SelfTestFailed ==
  /\ Live
  /\ CanMove(task.state, "self_test_failed")
  /\ task' = [task EXCEPT !.state = MoveTo("self_test_failed")]
  /\ UNCHANGED <<rr, finding, moved, approval, worker>>

SubmitFinalPackage ==
  LET rank == IF task.final[1] = task.rev THEN task.final[2] + 1 ELSE 1
  IN  /\ Live /\ ActionsClosed
      /\ task.state = "SELF_TESTING" /\ task.selfTest
      /\ task.approvedPlan # NoPlan
      /\ rank <= MaxPackages
      /\ task' = [task EXCEPT !.final = <<task.rev, rank>>]
      /\ UNCHANGED <<rr, finding, moved, approval, worker>>

-----------------------------------------------------------------------------
(***************************************************************************)
(* High-risk actions: requested by the Builder, decided by the Human and   *)
(* used once.  The authorization is bound to the content revision; of a    *)
(* closed one the binding is never read again.                             *)
(***************************************************************************)
Closed(status) == [status |-> status, rev |-> 0, expired |-> FALSE]

RequestAction ==
  /\ Live
  /\ approval.status # "APPROVED"
  /\ CanMove(task.state, "request_approval")
  /\ approval' = [status |-> "PENDING", rev |-> task.rev, expired |-> FALSE]
  /\ task' = [task EXCEPT !.state = MoveTo("request_approval")]
  /\ UNCHANGED <<rr, finding, moved, worker>>

DecideAction(event) ==
  /\ Live
  /\ approval.status = "PENDING" /\ ~approval.expired
  /\ approval.rev = task.rev
  /\ CanMove(task.state, event)
  /\ approval' = CASE event = "approve_action" -> [approval EXCEPT !.status = "APPROVED"]
                   [] event = "reject_replan" -> Closed("WITHDRAWN")
                   [] event = "cancel" -> Closed("REJECTED")
  /\ task' = [task EXCEPT !.state = MoveTo(event)]
  /\ UNCHANGED <<rr, finding, moved, worker>>

ConsumeAction ==
  /\ Live
  /\ task.state = "EXECUTING"
  /\ approval.status = "APPROVED" /\ ~approval.expired
  /\ approval.rev = task.rev
  /\ approval' = Closed("CONSUMED")
  /\ UNCHANGED <<task, rr, finding, moved, worker>>

\* withdraw_action: the Human gives up an action that can no longer be used.
WithdrawAction ==
  /\ task.state \notin Terminal
  /\ \/ approval.status \in {"PENDING", "APPROVED"} /\ approval.expired
     \/ approval.status \in {"EXPIRED", "REJECTED"}
  /\ approval' = Closed("WITHDRAWN")
  /\ UNCHANGED <<task, rr, finding, moved, worker>>

-----------------------------------------------------------------------------
(***************************************************************************)
(* Reviewer events.  Any event may be lost, come again, or come after the  *)
(* request it is about has ended, so r ranges over all requests ever made. *)
(* Events the code records as DUPLICATE, LATE_EVENT or REJECTED change     *)
(* nothing here.                                                           *)
(***************************************************************************)
Accepted(r) ==
  /\ Row(r).status \in ActiveRequest
  /\ task.state \notin Terminal \cup Stopped \cup HumanGate
  /\ ~task.frozen

\* The event is in time and about what is under review now.
Current(r) ==
  /\ Accepted(r)
  /\ ~task.expired /\ ~Row(r).expired
  /\ task.active = r
  /\ task.rev = Row(r).rev

\* handle_one on an event that comes when a deadline has passed.
EventPastDeadline(r) ==
  /\ Accepted(r)
  /\ task.expired \/ Row(r).expired
  /\ FailureGate("TIMED_OUT")

ReviewStarted(r) ==
  /\ Current(r)
  /\ Row(r).status = "PENDING"
  /\ rr' = [rr EXCEPT ![r[1]][r[2]].status = "IN_PROGRESS"]
  /\ LET event == IF r[1] = "PLAN_REVIEW" THEN "plan_started" ELSE "final_started"
     IN  /\ CanMove(task.state, event)
         /\ task' = [task EXCEPT !.state = MoveTo(event)]
  /\ UNCHANGED <<finding, moved, approval, worker>>

ReviewFailed(r) ==
  /\ Current(r)
  /\ FailureGate("FAILED")

(***************************************************************************)
(* A ReviewCompleted result: the verdict, the findings it creates, the     *)
(* open findings it names again, and what it says of earlier findings.     *)
(***************************************************************************)
Outcome == {"VERIFIED", "REOPENED", "ADVISORY"}

Partial(S, T) == UNION {[D -> T] : D \in SUBSET S}

Result == [verdict : Verdict, new : Partial(Findings, Grades),
           refs : SUBSET Findings, outcome : Partial(Findings, Outcome)]

Advised(result) == {f \in DOMAIN result.outcome : result.outcome[f] = "ADVISORY"}

AdvisesInSecondRound(r, result) == r[2] # 2 => Advised(result) = {}

\* The rules of the v2 result schema and of the dual-round policy.
FollowsProtocol(r, result) ==
  LET round == r[2]
      named == DOMAIN result.new \cup result.refs
  IN  /\ round <= V1_LIMIT
      /\ \/ result.verdict = "NEEDS_CHANGES"
         \/ round = 1 /\ result.verdict = "BLOCK"
         => named # {}
      /\ round = 2 => result.verdict \in {"PASS", "BLOCK"}
      /\ AdvisesInSecondRound(r, result)

\* Mutant: the review of one stage makes a finding of the other advisory.
MayAdviseAnyStage(r, f) == f \in OpenFindings /\ finding[f].severity = "LOW"

MayAdvise(r, f) == /\ f \in OpenFindings
                   /\ finding[f].severity = "LOW"
                   /\ finding[f].stage = r[1]

\* _prepare_v2_findings: every finding is used as its frozen version allows.
FitsFindings(r, result) ==
  /\ DOMAIN result.new \cap Known = {}
  /\ result.refs \subseteq OpenFindings
  /\ DOMAIN result.outcome \subseteq Known \ result.refs
  /\ (result.refs \cup DOMAIN result.outcome) \cap moved = {}
  /\ \A f \in DOMAIN result.outcome :
       CASE result.outcome[f] = "ADVISORY" -> MayAdvise(r, f)
         [] result.outcome[f] = "VERIFIED" -> CanMoveFinding(finding[f].status, "verify")
         [] result.outcome[f] = "REOPENED" -> CanMoveFinding(finding[f].status, "reopen")

\* The findings as _apply_v2_findings leaves them.
Projected(r, result) ==
  [f \in Findings |->
     IF f \in DOMAIN result.new
     THEN [status |-> "OPEN", stage |-> r[1], severity |-> result.new[f].severity,
           blocking |-> result.new[f].blocking, advisory |-> FALSE]
     ELSE IF f \notin DOMAIN result.outcome THEN finding[f]
     ELSE CASE result.outcome[f] = "ADVISORY" -> [finding[f] EXCEPT !.advisory = TRUE]
            [] result.outcome[f] = "VERIFIED" -> [finding[f] EXCEPT !.status = "VERIFIED"]
            [] result.outcome[f] = "REOPENED" -> [finding[f] EXCEPT !.status = "OPEN"]]

\* A Plan review answers for the Plan findings, a Final review for all of them.
Relevant(r, rows) ==
  {f \in Findings : rows[f].status # "NONE"
                    /\ (r[1] = "PLAN_REVIEW" => rows[f].stage = "PLAN_REVIEW")}

LeftOpen(r, rows) == {f \in Relevant(r, rows) : Unresolved(rows[f])}

\* _complete refuses a verdict its own findings contradict.
VerdictHolds(r, result) ==
  LET rows == Projected(r, result)
      open == LeftOpen(r, rows)
  IN  /\ result.verdict = "PASS" => open = {}
      /\ result.verdict = "NEEDS_CHANGES" => (DOMAIN result.new \cup result.refs) \cap open # {}
      /\ result.verdict = "BLOCK" /\ r[2] = 1 => open # {}
      /\ result.verdict = "BLOCK" /\ r[2] = 2 =>
           \E f \in open : rows[f].blocking /\ rows[f].severity \in {"HIGH", "CRITICAL"}

Settled == [task EXCEPT !.active = NoRR]

\* The task row after a completed review of effective verdict "verdict".
Decided(r, verdict, open) ==
  LET plan == r[1] = "PLAN_REVIEW"
  IN  IF verdict = "PASS"
      THEN IF plan
           THEN [Settled EXCEPT !.approvedPlan = Row(r).input, !.approvedScope = task.plan,
                                !.frozen = FALSE, !.state = MoveTo("plan_pass")]
           ELSE [Settled EXCEPT !.basis = "FINAL_REVIEW_PASS", !.frozen = FALSE,
                                !.state = MoveTo("final_pass")]
      ELSE IF r[2] >= Row(r).limit
      THEN [Settled EXCEPT !.frozen = TRUE,
                           !.state = MoveTo(IF plan THEN "plan_human_review"
                                            ELSE "final_human_review")]
      ELSE [Settled EXCEPT !.fixable = IF plan THEN @ ELSE open,
                           !.state = MoveTo(IF plan THEN "plan_changes" ELSE "final_changes")]

ReviewCompleted(r, result) ==
  LET rows == Projected(r, result)
      open == LeftOpen(r, rows)
      verdict == AggregateVerdict({rows[f] : f \in Relevant(r, rows)}, result.verdict)
  IN  /\ Current(r)
      /\ FollowsProtocol(r, result) /\ FitsFindings(r, result) /\ VerdictHolds(r, result)
      /\ r[1] = "FINAL_REVIEW" =>
           ActionsClosed /\ task.selfTest /\ task.final = Row(r).input
      /\ task' = Decided(r, verdict, open)
      /\ rr' = End(r, "COMPLETED", verdict)
      /\ finding' = rows
      /\ UNCHANGED <<moved, approval, worker>>

-----------------------------------------------------------------------------
(***************************************************************************)
(* Delivery: what the Dispatcher does to the Task of the request it sends. *)
(***************************************************************************)
\* Dispatcher._claim of a request that is already late.
DispatchPastDeadline(r) ==
  /\ Accepted(r)
  /\ task.expired \/ Row(r).expired
  /\ FailureGate("TIMED_OUT")

\* Dispatcher.dispatch_one: the delivery is refused, or its attempts are used up.
DeliveryFailed(r) ==
  /\ Accepted(r)
  /\ FailureGate("FAILED")

(***************************************************************************)
(* TimeoutService.sweep: the first deadline of the Task that has passed.   *)
(***************************************************************************)
\* Mutant: no time-out while a Reviewer is at work.
SweptBetweenReviews ==
  /\ task.state \notin Terminal \cup HumanGate
                         \cup {"ESCALATED", "PLAN_REVIEWING", "FINAL_REVIEWING"}
  /\ ~task.frozen

Swept == task.state \notin Terminal \cup {"ESCALATED"} \cup HumanGate /\ ~task.frozen

ReviewOverdue == /\ task.active \in Requests
                 /\ Row(task.active).status \in ActiveRequest
                 /\ Row(task.active).expired

SweepTaskTimeout ==
  /\ Swept /\ task.expired
  /\ FailureGate("TIMED_OUT")

SweepReviewTimeout ==
  /\ Swept /\ ~task.expired
  /\ ReviewOverdue
  /\ FailureGate("TIMED_OUT")

SweepApprovalExpiry ==
  /\ Swept /\ ~task.expired /\ ~ReviewOverdue
  /\ approval.status \in {"PENDING", "APPROVED"} /\ approval.expired
  /\ approval' = Closed("EXPIRED")
  /\ Escalate

-----------------------------------------------------------------------------
(***************************************************************************)
(* Human.  A command that authorizes more work comes with a future Task    *)
(* deadline where the old one has passed, so the Task is not expired after *)
(* it; that deadline is never earlier than the one it replaces.            *)
(***************************************************************************)
\* Mutant: a waiver under review.
MayWaiveUnderReview == task.state \notin Terminal

MayWaive == task.state \notin Terminal /\ task.active = NoRR

WaiveFinding(f) ==
  /\ MayWaive
  /\ f \in Known /\ CanMoveFinding(finding[f].status, "waive")
  /\ finding' = [finding EXCEPT ![f].status = FindingEdges["waive"].to]
  /\ Touches(f)
  /\ UNCHANGED <<task, rr, approval, worker>>

\* _abort_task, which revokes a live assignment as well.
Abort ==
  /\ CanMove(task.state, "cancel")
  /\ rr' = Stop("ESCALATED")
  /\ task' = [task EXCEPT !.active = NoRR, !.frozen = TRUE, !.state = MoveTo("cancel")]
  /\ worker' = IF worker.status \in LiveAssignment
               THEN [worker EXCEPT !.status = "CANCELLED", !.expired = FALSE] ELSE worker
  /\ UNCHANGED <<finding, moved, approval>>

Cancel == Abort

\* _latest_gate_request: a gate without any request of its type can decide nothing.
AtGate(gate) == task.state = gate /\ Rounds(GateType(gate)) > 0

GateAbort == (\E gate \in HumanGate : AtGate(gate)) /\ Abort

\* Mutant: a review that timed out counts as one.
AcceptableUnreviewed == /\ task.final # NoPackage
                        /\ Latest("FINAL_REVIEW").input = task.final
                        /\ task.selfTest

Acceptable == /\ task.final # NoPackage
              /\ Latest("FINAL_REVIEW").input = task.final
              /\ Latest("FINAL_REVIEW").status = "COMPLETED"
              /\ task.selfTest

\* ACCEPT, with every open finding acknowledged; a plan needs the Reviewer's PASS.
GateAccept ==
  /\ AtGate("FINAL_HUMAN_REVIEW")
  /\ ActionsClosed
  /\ Acceptable
  /\ task' = [task EXCEPT !.basis = "HUMAN_OVERRIDE", !.frozen = FALSE,
                          !.active = NoRR, !.state = MoveTo("human_accept_final")]
  /\ rr' = Stop("ESCALATED")
  /\ UNCHANGED <<finding, moved, approval, worker>>

\* _ensure_next_review_budget
HasBudget(type) == Rounds(type) < V1_LIMIT /\ Rounds(type) < task.limit[type]

\* Mutant: the gate opens and automation stays frozen.
ReopenedFrozen == [task EXCEPT !.active = NoRR, !.expired = FALSE]

\* The task row a Human decision to go on starts from.
Reopened == [task EXCEPT !.active = NoRR, !.frozen = FALSE, !.expired = FALSE]

GateModify(gate, selected, within) ==
  /\ AtGate(gate) /\ ActionsClosed
  /\ selected \subseteq OpenFindings /\ (selected = {} => OpenFindings = {})
  /\ rr' = Stop("ESCALATED")
  /\ \/ /\ gate = "PLAN_HUMAN_REVIEW" /\ within
        /\ HasBudget("PLAN_REVIEW")
        /\ task' = [Reopened EXCEPT !.state = MoveTo("human_modify_plan")]
        /\ UNCHANGED worker
     \/ /\ gate = "FINAL_HUMAN_REVIEW" /\ within
        /\ HasBudget("FINAL_REVIEW")
        /\ task' = [Reopened EXCEPT !.activeFix = selected, !.fixable = OpenFindings,
                                    !.state = MoveTo("human_modify_final")]
        /\ Offer(task, selected)
     \/ /\ gate = "FINAL_HUMAN_REVIEW" /\ ~within
        /\ HasBudget("PLAN_REVIEW")
        /\ task' = [Reopened EXCEPT !.approvedPlan = NoPlan, !.approvedScope = NoPlan,
                                    !.final = NoPackage, !.selfTest = FALSE,
                                    !.state = MoveTo("human_modify_final_replan")]
        /\ UNCHANGED worker
  /\ UNCHANGED <<finding, moved, approval>>

GateContinue(gate) ==
  LET last == Latest(GateType(gate))
  IN  /\ AtGate(gate) /\ ActionsClosed
      /\ Rounds(GateType(gate)) < V1_LIMIT
      /\ rr' = Stop("ESCALATED")
      /\ \/ /\ gate = "PLAN_HUMAN_REVIEW"
            /\ task.plan # NoPlan /\ last.input = task.plan
            /\ task' = [Reopened EXCEPT !.state = MoveTo("human_continue_plan")]
            /\ UNCHANGED worker
         \/ /\ gate = "FINAL_HUMAN_REVIEW"
            /\ task.final # NoPackage /\ last.input = task.final /\ task.selfTest
            /\ task' = [Reopened EXCEPT !.state = MoveTo("human_continue_final")]
            /\ UNCHANGED worker
         \/ /\ gate = "FINAL_HUMAN_REVIEW"
            /\ ~(task.final # NoPackage /\ last.input = task.final /\ task.selfTest)
            /\ task' = [Reopened EXCEPT !.activeFix = OpenFindings,
                                        !.state = MoveTo("human_continue_final_rework")]
            /\ Offer(task, OpenFindings)
      /\ UNCHANGED <<finding, moved, approval>>

\* Mutant: Final remediation of no plan.
MayResumeUnapproved(type) == TRUE

ResumeBudget(type, limit) == limit <= V1_LIMIT /\ limit > Rounds(type)

MayResume(type) == type = "FINAL_REVIEW" => task.approvedPlan # NoPlan

\* resume creates no assignment and leaves "frozen" as it is.
Resume(type, limit) ==
  LET event == IF type = "PLAN_REVIEW" THEN "resume_plan" ELSE "resume_final"
  IN  /\ CanMove(task.state, event)
      /\ ResumeBudget(type, limit) /\ MayResume(type)
      /\ ActionsClosed
      /\ rr' = Stop("ESCALATED")
      /\ task' = [task EXCEPT !.active = NoRR, !.expired = FALSE, !.limit[type] = limit,
                              !.state = MoveTo(event)]
      /\ UNCHANGED <<finding, moved, approval, worker>>

\* override_review of the current Final package; a plan is refused.
OverrideFinal ==
  /\ CanMove(task.state, "override_final")
  /\ ActionsClosed
  /\ task.final # NoPackage /\ task.selfTest
  /\ rr' = Stop("ESCALATED")
  /\ task' = [task EXCEPT !.active = NoRR, !.expired = FALSE,
                          !.state = MoveTo("override_final")]
  /\ UNCHANGED <<finding, moved, approval, worker>>

-----------------------------------------------------------------------------
(***************************************************************************)
(* The clock.  Requests, approvals and leases are cut to the Task deadline *)
(* when they are made, so all that are open have passed when it passes.    *)
(***************************************************************************)
OpenApproval == approval.status \in {"PENDING", "APPROVED"}

TaskDeadline ==
  /\ task.state \notin Terminal /\ ~task.expired
  /\ task' = [task EXCEPT !.expired = TRUE]
  /\ rr' = IF task.active \in Requests
           THEN [rr EXCEPT ![task.active[1]][task.active[2]].expired = TRUE] ELSE rr
  /\ approval' = [approval EXCEPT !.expired = @ \/ OpenApproval]
  /\ worker' = [worker EXCEPT !.expired = @ \/ worker.status = "CLAIMED"]
  /\ UNCHANGED <<finding, moved>>

ReviewDeadline ==
  /\ task.active \in Requests /\ ~Row(task.active).expired
  /\ rr' = [rr EXCEPT ![task.active[1]][task.active[2]].expired = TRUE]
  /\ UNCHANGED <<task, finding, moved, approval, worker>>

ApprovalDeadline ==
  /\ task.state \notin Terminal
  /\ OpenApproval /\ ~approval.expired
  /\ approval' = [approval EXCEPT !.expired = TRUE]
  /\ UNCHANGED <<task, rr, finding, moved, worker>>

LeaseDeadline ==
  /\ worker.status = "CLAIMED" /\ ~worker.expired
  /\ worker' = [worker EXCEPT !.expired = TRUE]
  /\ UNCHANGED <<task, rr, finding, moved, approval>>

-----------------------------------------------------------------------------
Builder ==
  \/ BeginPlan
  \/ \E plan \in Plans : SubmitPlan(plan)
  \/ \E type \in ReviewType : RequestReview(type) \/ RequestBeyondLimit(type)
  \/ \E f \in Findings, action \in {"accept", "reject", "fix"} : RespondFinding(f, action)
  \/ Execute
  \/ \E fixes \in SUBSET Findings, within \in BOOLEAN : BeginFinalFix(fixes, within)
  \/ \E passed \in BOOLEAN : SelfTest(passed)
  \/ SelfTestFailed
  \/ SubmitFinalPackage
  \/ RequestAction
  \/ ConsumeAction

Worker == ClaimAssignment \/ CompleteAssignment

Reviewer ==
  \E r \in Requests : \/ EventPastDeadline(r)
                      \/ ReviewStarted(r)
                      \/ ReviewFailed(r)
                      \/ \E result \in Result : ReviewCompleted(r, result)

Delivery == \E r \in Requests : DispatchPastDeadline(r) \/ DeliveryFailed(r)

Sweep == SweepTaskTimeout \/ SweepReviewTimeout \/ SweepApprovalExpiry

Human ==
  \/ \E event \in {"approve_action", "reject_replan", "cancel"} : DecideAction(event)
  \/ WithdrawAction
  \/ \E f \in Findings : WaiveFinding(f)
  \/ Cancel
  \/ GateAbort
  \/ GateAccept
  \/ \E gate \in HumanGate : \/ GateContinue(gate)
                            \/ \E selected \in SUBSET Findings, within \in BOOLEAN :
                                 GateModify(gate, selected, within)
  \/ \E type \in ReviewType, limit \in 1..V1_LIMIT + 1 : Resume(type, limit)
  \/ OverrideFinal

Clock == TaskDeadline \/ ReviewDeadline \/ ApprovalDeadline \/ LeaseDeadline

Next == Builder \/ Worker \/ Reviewer \/ Delivery \/ Sweep \/ RecoverAssignment
          \/ Human \/ Clock

Spec == Init /\ [][Next]_vars
=============================================================================
