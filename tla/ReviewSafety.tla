---------------------------- MODULE ReviewSafety ----------------------------
(***************************************************************************)
(* What the life of a Task promises: properties of ReviewLifecycle.        *)
(***************************************************************************)
EXTENDS ReviewLifecycle

(***************************************************************************)
(* The Task row and the request rows tell the same story: a request is     *)
(* open exactly while the Task names it as its active one, and the Task is *)
(* then in the review state of that request's type and progress.  Every    *)
(* path that ends a review (result, failure event, delivery failure, four  *)
(* time-outs, Human decisions) has to keep the two rows in step.           *)
(***************************************************************************)
ReviewState(r) ==
  IF r[1] = "PLAN_REVIEW"
  THEN IF Row(r).status = "PENDING" THEN "PLAN_REVIEW_PENDING" ELSE "PLAN_REVIEWING"
  ELSE IF Row(r).status = "PENDING" THEN "FINAL_REVIEW_PENDING" ELSE "FINAL_REVIEWING"

ActiveRequestAgrees ==
  /\ \A r \in Requests : Row(r).status \in ActiveRequest <=> task.active = r
  /\ task.active # NoRR => task.active \in Requests /\ task.state = ReviewState(task.active)
  /\ task.active = NoRR => task.state \notin PlanUnderReview \cup FinalUnderReview

(***************************************************************************)
(* What is under review is what the Task would build on if it passed: the  *)
(* frozen input is the current plan or package of the current revision,    *)
(* and a Final review has its self-test and no open high-risk action.      *)
(***************************************************************************)
ReviewedInputIsCurrent ==
  task.active # NoRR =>
    LET row == Row(task.active)
    IN  /\ row.rev = task.rev
        /\ task.active[1] = "PLAN_REVIEW" => row.input = task.plan
        /\ task.active[1] = "FINAL_REVIEW" =>
             row.input = task.final /\ task.selfTest /\ ActionsClosed

(***************************************************************************)
(* No code without the Reviewer: from PLAN_APPROVED to DONE the approved   *)
(* plan is the current plan, its scope was frozen with it, and a completed *)
(* Plan review of just this plan passed (V1_REVIEW_DECISION_POLICY: a      *)
(* Human cannot authorize coding without the Plan PASS), whatever re-plans,*)
(* gates and resumes the Task went through.                                *)
(***************************************************************************)
CodingStates == {"PLAN_APPROVED", "EXECUTING", "AWAITING_HUMAN_APPROVAL", "SELF_TESTING",
                 "FINAL_REVIEW_PENDING", "FINAL_REVIEWING", "FINAL_CHANGES_REQUIRED",
                 "FINAL_HUMAN_REVIEW", "DONE"}

CodingNeedsPlanPass ==
  task.state \in CodingStates =>
    /\ task.approvedPlan # NoPlan
    /\ task.approvedPlan = task.plan /\ task.approvedScope = task.plan
    /\ \E n \in DOMAIN rr["PLAN_REVIEW"] :
         LET row == rr["PLAN_REVIEW"][n]
         IN  row.status = "COMPLETED" /\ row.verdict = "PASS" /\ row.input = task.plan

(***************************************************************************)
(* DONE is earned: by the PASS of the last Final review, of the current    *)
(* package and revision, with every finding closed; or by a Human ACCEPT   *)
(* of a package whose review was completed without a PASS, never of one    *)
(* that only timed out or failed.  Both with a passed self-test and no     *)
(* open high-risk action.                                                  *)
(***************************************************************************)
DoneIsEarned ==
  task.state = "DONE" /\ task.basis # "NONE" =>
    /\ Rounds("FINAL_REVIEW") > 0
    /\ LET last == Latest("FINAL_REVIEW")
       IN  /\ last.status = "COMPLETED" /\ last.input = task.final /\ last.rev = task.rev
           /\ task.basis = "FINAL_REVIEW_PASS" => last.verdict = "PASS" /\ OpenFindings = {}
           /\ task.basis = "HUMAN_OVERRIDE" => last.verdict # "PASS"
    /\ task.selfTest /\ ActionsClosed

(***************************************************************************)
(* The absolute cap: whatever the Human resumes, continues or modifies, no *)
(* review type of a dual-round Task ever gets a third round.               *)
(***************************************************************************)
NoThirdRound == \A type \in ReviewType : Rounds(type) <= V1_LIMIT

(***************************************************************************)
(* automation_frozen is set exactly while the Task waits at a Human Gate   *)
(* and after it was aborted; a frozen Task has no request in flight.       *)
(***************************************************************************)
FrozenExactlyAtGate ==
  /\ task.state \in HumanGate => task.frozen
  /\ task.frozen => task.state \in HumanGate \cup {"CANCELLED"} /\ task.active = NoRR

(***************************************************************************)
(* An undecided or unused high-risk action keeps the Task from going on to *)
(* self-test, review or a plan, an authorization that can still be used is *)
(* bound to the revision the Task is at, and while the Human has yet to    *)
(* decide, the Task waits and does nothing else.                           *)
(***************************************************************************)
OpenActionHoldsTask ==
  ~ActionsClosed =>
    /\ task.state \in {"EXECUTING", "AWAITING_HUMAN_APPROVAL", "ESCALATED",
                       "FINAL_HUMAN_REVIEW", "CANCELLED"}
    /\ OpenApproval => approval.rev = task.rev
    /\ task.state = "EXECUTING" => approval.status = "APPROVED"
    /\ approval.status = "PENDING" => task.state \in {"AWAITING_HUMAN_APPROVAL", "CANCELLED"}

-----------------------------------------------------------------------------
(***************************************************************************)
(* Review history is append-only: no step changes the frozen input of a    *)
(* request or anything of a request that has ended, and none removes one.  *)
(* A late, repeated or overtaken event cannot rewrite an outcome.          *)
(***************************************************************************)
HistoryIsImmutable ==
  [][\A r \in Requests :
       /\ r[2] \in DOMAIN rr'[r[1]]
       /\ LET next == rr'[r[1]][r[2]]
          IN  /\ next.input = Row(r).input /\ next.rev = Row(r).rev
              /\ Row(r).status \notin ActiveRequest => next = Row(r)]_vars

(***************************************************************************)
(* While a review goes on, findings hold still: the Reviewer judges them   *)
(* by the context frozen in the request, so only its result moves them.    *)
(* And a finding that was verified or waived is never opened again.        *)
(***************************************************************************)
FindingsHoldStill ==
  [][/\ task.active # NoRR /\ finding' # finding
          => /\ task'.active = NoRR
             /\ rr'[task.active[1]][task.active[2]].status = "COMPLETED"
     /\ \A f \in Findings : finding[f].status \in ClosedFinding => finding'[f] = finding[f]]_vars

(***************************************************************************)
(* Only a Reviewer result verifies a finding or takes it off the count as  *)
(* advisory, and advisory only in the second round of the stage that found *)
(* it.                                                                     *)
(***************************************************************************)
ReviewerAloneAbsolves ==
  [][\A f \in Findings :
       /\ finding'[f].status = "VERIFIED" /\ finding[f].status # "VERIFIED"
            => task.active # NoRR
       /\ finding'[f].advisory /\ ~finding[f].advisory
            => task.active = <<finding[f].stage, 2>>]_vars

-----------------------------------------------------------------------------
(***************************************************************************)
(* The contract of the dual-round policy and STATE_MACHINE.md:             *)
(* AWAITING_HUMAN_APPROVAL ends when the Task times out.  In the code no   *)
(* edge leads from it to the gate the time-out asks for.                   *)
(***************************************************************************)
AwaitingTimesOut ==
  task.state = "AWAITING_HUMAN_APPROVAL" /\ task.expired
    ~> task.state # "AWAITING_HUMAN_APPROVAL"

-----------------------------------------------------------------------------
(***************************************************************************)
(* The Task as the Reviewer and the Human know it: what was asked, what    *)
(* came of it, and how the Task ended.                                     *)
(***************************************************************************)
\* The requests of one type whose review came to a verdict.
Completed(type) == {n \in DOMAIN rr[type] : rr[type][n].status = "COMPLETED"}

PassedPlans ==
  {rr["PLAN_REVIEW"][n].input : n \in {m \in Completed("PLAN_REVIEW") :
                                         rr["PLAN_REVIEW"][m].verdict = "PASS"}}

JudgedPackages == {rr["FINAL_REVIEW"][n].input : n \in Completed("FINAL_REVIEW")}

\* An override leaves DONE without a basis.
TaskOutcome ==
  CASE task.state \notin Terminal -> "open"
    [] task.state \in Terminal \ {"DONE"} -> "cancelled"
    [] task.state = "DONE" /\ task.basis = "FINAL_REVIEW_PASS" -> "passed"
    [] task.state = "DONE" /\ task.basis = "HUMAN_OVERRIDE" -> "accepted"
    [] OTHER -> "overridden"

Promise == INSTANCE ReviewPromise WITH
  Plan <- Plans, Limit <- V1_LIMIT,
  asked <- [type \in ReviewType |-> Rounds(type)],
  review <- task.active[1], passed <- PassedPlans, judged <- JudgedPackages,
  approved <- task.approvedPlan, package <- task.final,
  coding <- task.state = "EXECUTING", outcome <- TaskOutcome

(***************************************************************************)
(* The life of a Task implements ReviewPromise: no order of results,       *)
(* failures, late events, re-plans, gates, resumes and overrides begins a  *)
(* third round or a second review at a time, starts the work or packs it   *)
(* without a plan that was passed, or ends the Task in another way than    *)
(* by the Reviewer's PASS, the Human's decision or a cancellation.         *)
(***************************************************************************)
KeepsReviewPromise == Promise!Spec
=============================================================================
