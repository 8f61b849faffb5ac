----------------------------- MODULE TaskRules -----------------------------
(***************************************************************************)
(* The pure rules of the domain (src/grokbuddy/domain): the states of a    *)
(* Task, a Review Request and a Finding, the event-labelled edges between  *)
(* them, and the verdict a set of findings imposes on a review.  Nothing   *)
(* here changes state; ReviewLifecycle applies these rules.                *)
(***************************************************************************)
EXTENDS Naturals

TaskState == {"NEW", "PLANNING", "PLAN_REVIEW_PENDING", "PLAN_REVIEWING",
              "PLAN_CHANGES_REQUIRED", "PLAN_HUMAN_REVIEW", "PLAN_APPROVED",
              "EXECUTING", "SELF_TESTING", "FINAL_REVIEW_PENDING",
              "FINAL_REVIEWING", "FINAL_CHANGES_REQUIRED", "FINAL_HUMAN_REVIEW",
              "AWAITING_HUMAN_APPROVAL", "BLOCKED", "ESCALATED", "FAILED",
              "CANCELLED", "DONE"}

Terminal == {"DONE", "CANCELLED", "FAILED"}

HumanGate == {"PLAN_HUMAN_REVIEW", "FINAL_HUMAN_REVIEW"}

ReviewType == {"PLAN_REVIEW", "FINAL_REVIEW"}

RequestStatus == {"PENDING", "IN_PROGRESS", "COMPLETED", "FAILED",
                  "TIMED_OUT", "ESCALATED"}

ActiveRequest == {"PENDING", "IN_PROGRESS"}

FindingStatus == {"OPEN", "ACCEPTED", "REJECTED_WITH_EVIDENCE", "FIXED",
                  "VERIFIED", "WAIVED_BY_HUMAN"}

ClosedFinding == {"VERIFIED", "WAIVED_BY_HUMAN"}

Verdict == {"PASS", "NEEDS_CHANGES", "BLOCK"}

Severity == {"CRITICAL", "HIGH", "MEDIUM", "LOW"}

\* The absolute number of rounds of each review type of a dual-round Task.
V1_LIMIT == 2

(***************************************************************************)
(* TASK_EDGES: an event may be applied in the states of "from" and leads   *)
(* to the state "to"; a caller names an event, never a state.              *)
(***************************************************************************)
Edge(from, to) == [from |-> from, to |-> to]

PlanUnderReview == {"PLAN_REVIEW_PENDING", "PLAN_REVIEWING"}
FinalUnderReview == {"FINAL_REVIEW_PENDING", "FINAL_REVIEWING"}
Stopped == {"BLOCKED", "ESCALATED"}

TaskEdges ==
  [begin_plan          |-> Edge({"NEW", "PLAN_CHANGES_REQUIRED"}, "PLANNING"),
   request_plan        |-> Edge({"PLANNING"}, "PLAN_REVIEW_PENDING"),
   plan_started        |-> Edge({"PLAN_REVIEW_PENDING"}, "PLAN_REVIEWING"),
   plan_pass           |-> Edge(PlanUnderReview, "PLAN_APPROVED"),
   plan_changes        |-> Edge(PlanUnderReview, "PLAN_CHANGES_REQUIRED"),
   plan_human_review   |-> Edge({"NEW", "PLANNING", "PLAN_CHANGES_REQUIRED"}
                                  \cup PlanUnderReview, "PLAN_HUMAN_REVIEW"),
   plan_block          |-> Edge(PlanUnderReview, "BLOCKED"),
   execute             |-> Edge({"PLAN_APPROVED", "FINAL_CHANGES_REQUIRED"}, "EXECUTING"),
   self_test           |-> Edge({"EXECUTING"}, "SELF_TESTING"),
   self_test_failed    |-> Edge({"SELF_TESTING"}, "EXECUTING"),
   request_final       |-> Edge({"SELF_TESTING"}, "FINAL_REVIEW_PENDING"),
   final_started       |-> Edge({"FINAL_REVIEW_PENDING"}, "FINAL_REVIEWING"),
   final_pass          |-> Edge(FinalUnderReview, "DONE"),
   final_changes       |-> Edge(FinalUnderReview, "FINAL_CHANGES_REQUIRED"),
   final_human_review  |-> Edge({"PLAN_APPROVED", "EXECUTING", "SELF_TESTING",
                                 "FINAL_CHANGES_REQUIRED"}
                                  \cup FinalUnderReview, "FINAL_HUMAN_REVIEW"),
   human_accept_plan   |-> Edge({"PLAN_HUMAN_REVIEW"}, "PLAN_APPROVED"),
   human_accept_final  |-> Edge({"FINAL_HUMAN_REVIEW"}, "DONE"),
   human_modify_plan   |-> Edge({"PLAN_HUMAN_REVIEW"}, "PLANNING"),
   human_modify_final  |-> Edge({"FINAL_HUMAN_REVIEW"}, "EXECUTING"),
   human_modify_final_replan   |-> Edge({"FINAL_HUMAN_REVIEW"}, "PLANNING"),
   human_continue_plan         |-> Edge({"PLAN_HUMAN_REVIEW"}, "PLANNING"),
   human_continue_final        |-> Edge({"FINAL_HUMAN_REVIEW"}, "SELF_TESTING"),
   human_continue_final_rework |-> Edge({"FINAL_HUMAN_REVIEW"}, "EXECUTING"),
   final_block         |-> Edge(FinalUnderReview, "BLOCKED"),
   scope_replan        |-> Edge({"FINAL_CHANGES_REQUIRED", "EXECUTING"}, "PLANNING"),
   request_approval    |-> Edge({"EXECUTING"}, "AWAITING_HUMAN_APPROVAL"),
   approve_action      |-> Edge({"AWAITING_HUMAN_APPROVAL"}, "EXECUTING"),
   reject_replan       |-> Edge({"AWAITING_HUMAN_APPROVAL"}, "PLANNING"),
   resume_plan         |-> Edge(Stopped, "PLANNING"),
   resume_final        |-> Edge(Stopped, "EXECUTING"),
   override_plan       |-> Edge(PlanUnderReview \cup Stopped
                                  \cup {"PLAN_CHANGES_REQUIRED"}, "PLAN_APPROVED"),
   override_final      |-> Edge(FinalUnderReview \cup Stopped
                                  \cup {"FINAL_CHANGES_REQUIRED"}, "DONE"),
   cancel              |-> Edge(TaskState \ Terminal, "CANCELLED"),
   fail                |-> Edge(TaskState \ Terminal, "FAILED"),
   escalate            |-> Edge(TaskState \ (Terminal \cup {"ESCALATED"}), "ESCALATED")]

\* transition(state, event), which raises outside "from".
CanMove(state, event) == state \in TaskEdges[event].from
MoveTo(event) == TaskEdges[event].to

(***************************************************************************)
(* FINDING_EDGES.  The role of each edge is the role of the action that    *)
(* uses it: Builder responses, Reviewer verifications, Human waivers.      *)
(***************************************************************************)
FindingEdges ==
  [accept |-> Edge({"OPEN", "REJECTED_WITH_EVIDENCE"}, "ACCEPTED"),
   reject |-> Edge({"OPEN", "ACCEPTED"}, "REJECTED_WITH_EVIDENCE"),
   fix    |-> Edge({"ACCEPTED"}, "FIXED"),
   verify |-> Edge({"FIXED", "REJECTED_WITH_EVIDENCE"}, "VERIFIED"),
   reopen |-> Edge({"FIXED", "REJECTED_WITH_EVIDENCE"}, "OPEN"),
   waive  |-> Edge(FindingStatus \ ClosedFinding, "WAIVED_BY_HUMAN")]

\* finding_transition(status, action, role)
CanMoveFinding(status, action) == status \in FindingEdges[action].from

\* A finding row still counts against its Task.
Unresolved(row) == row.status \in FindingStatus \ ClosedFinding /\ ~row.advisory

(***************************************************************************)
(* aggregate_verdict: the graver of the verdict the findings impose and    *)
(* the verdict the Reviewer reported.                                      *)
(***************************************************************************)
Rank(verdict) == CASE verdict = "PASS" -> 0
                   [] verdict = "NEEDS_CHANGES" -> 1
                   [] verdict = "BLOCK" -> 2

AggregateVerdict(rows, reported) ==
  LET unresolved == {row \in rows : Unresolved(row)}
      calculated == IF \E row \in unresolved : row.severity = "CRITICAL" THEN "BLOCK"
                    ELSE IF unresolved # {} THEN "NEEDS_CHANGES" ELSE "PASS"
  IN  IF Rank(calculated) > Rank(reported) THEN calculated ELSE reported
=============================================================================
