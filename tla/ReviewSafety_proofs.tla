------------------------ MODULE ReviewSafety_proofs ------------------------
(***************************************************************************)
(* Types and safety of ReviewLifecycle.  Types first: the edges of the     *)
(* Task, what changing one request row does to the table of requests, and  *)
(* one lemma for each of the actors.  Then safety: as far as the request   *)
(* rows are concerned, a step is one of six kinds; that the kinds cover    *)
(* Next is proved once, and what is about requests goes by kind instead of *)
(* by action.  Then the abstract specifications it implements: the Task as *)
(* ReviewPromise has it, its requests as RequestLife has them, and its     *)
(* assignment as AssignmentLife has it.  Between and after them: where its *)
(* time-outs can close a review, that other Tasks can keep it from being   *)
(* swept but not lead it elsewhere, that its end stays, and what the       *)
(* verdict of a review says.                                               *)
(***************************************************************************)
EXTENDS SharedSweep, TLAPS

-----------------------------------------------------------------------------
(***************************************************************************)
(* The edges, looked up once.                                              *)
(***************************************************************************)
\* Where each event leads (TASK_EDGES).
LEMMA Moves ==
  /\ MoveTo("begin_plan") = "PLANNING"
  /\ MoveTo("request_plan") = "PLAN_REVIEW_PENDING"
  /\ MoveTo("plan_started") = "PLAN_REVIEWING"
  /\ MoveTo("plan_pass") = "PLAN_APPROVED"
  /\ MoveTo("plan_changes") = "PLAN_CHANGES_REQUIRED"
  /\ MoveTo("plan_human_review") = "PLAN_HUMAN_REVIEW"
  /\ MoveTo("execute") = "EXECUTING"
  /\ MoveTo("self_test") = "SELF_TESTING"
  /\ MoveTo("self_test_failed") = "EXECUTING"
  /\ MoveTo("request_final") = "FINAL_REVIEW_PENDING"
  /\ MoveTo("final_started") = "FINAL_REVIEWING"
  /\ MoveTo("final_pass") = "DONE"
  /\ MoveTo("final_changes") = "FINAL_CHANGES_REQUIRED"
  /\ MoveTo("final_human_review") = "FINAL_HUMAN_REVIEW"
  /\ MoveTo("human_accept_final") = "DONE"
  /\ MoveTo("human_modify_plan") = "PLANNING"
  /\ MoveTo("human_modify_final") = "EXECUTING"
  /\ MoveTo("human_modify_final_replan") = "PLANNING"
  /\ MoveTo("human_continue_plan") = "PLANNING"
  /\ MoveTo("human_continue_final") = "SELF_TESTING"
  /\ MoveTo("human_continue_final_rework") = "EXECUTING"
  /\ MoveTo("scope_replan") = "PLANNING"
  /\ MoveTo("request_approval") = "AWAITING_HUMAN_APPROVAL"
  /\ MoveTo("approve_action") = "EXECUTING"
  /\ MoveTo("reject_replan") = "PLANNING"
  /\ MoveTo("resume_plan") = "PLANNING"
  /\ MoveTo("resume_final") = "EXECUTING"
  /\ MoveTo("override_final") = "DONE"
  /\ MoveTo("cancel") = "CANCELLED"
  /\ MoveTo("escalate") = "ESCALATED"
BY DEF MoveTo, TaskEdges, Edge

\* The states named in the steps are states.
LEMMA States ==
  /\ {"NEW", "PLANNING", "PLAN_REVIEW_PENDING", "PLAN_REVIEWING", "PLAN_CHANGES_REQUIRED",
      "PLAN_HUMAN_REVIEW", "PLAN_APPROVED", "EXECUTING", "SELF_TESTING",
      "FINAL_REVIEW_PENDING", "FINAL_REVIEWING", "FINAL_CHANGES_REQUIRED",
      "FINAL_HUMAN_REVIEW", "AWAITING_HUMAN_APPROVAL", "ESCALATED", "CANCELLED", "DONE"}
       \subseteq TaskState
  /\ NoPackage \in Package /\ NoRR \in (ReviewType \cup {"NONE"}) \X Nat
BY DEF TaskState, NoPackage, Package, NoRR

\* The states in which an event that a guard tests may be applied.
LEMMA Sources ==
  ASSUME NEW s
  PROVE  /\ CanMove(s, "begin_plan") <=> s \in {"NEW", "PLAN_CHANGES_REQUIRED"}
         /\ CanMove(s, "plan_started") <=> s = "PLAN_REVIEW_PENDING"
         /\ CanMove(s, "final_started") <=> s = "FINAL_REVIEW_PENDING"
         /\ CanMove(s, "self_test") <=> s = "EXECUTING"
         /\ CanMove(s, "self_test_failed") <=> s = "SELF_TESTING"
         /\ CanMove(s, "request_approval") <=> s = "EXECUTING"
         /\ CanMove(s, "approve_action") <=> s = "AWAITING_HUMAN_APPROVAL"
         /\ CanMove(s, "reject_replan") <=> s = "AWAITING_HUMAN_APPROVAL"
         /\ CanMove(s, "resume_plan") <=> s \in {"BLOCKED", "ESCALATED"}
         /\ CanMove(s, "resume_final") <=> s \in {"BLOCKED", "ESCALATED"}
         /\ CanMove(s, "plan_human_review")
              <=> s \in {"NEW", "PLANNING", "PLAN_CHANGES_REQUIRED"} \cup PlanUnderReview
         /\ CanMove(s, "final_human_review")
              <=> s \in {"PLAN_APPROVED", "EXECUTING", "SELF_TESTING", "FINAL_CHANGES_REQUIRED"}
                         \cup FinalUnderReview
         /\ CanMove(s, "override_final")
              <=> s \in {"FINAL_CHANGES_REQUIRED", "BLOCKED", "ESCALATED"}
                         \cup FinalUnderReview
         /\ CanMove(s, "cancel") <=> s \in TaskState \ Terminal
         /\ CanMove(s, "escalate") <=> s \in TaskState \ (Terminal \cup {"ESCALATED"})
BY DEF CanMove, TaskEdges, Edge, Stopped

-----------------------------------------------------------------------------
(***************************************************************************)
(* What changing a request row does to the table of requests.              *)
(***************************************************************************)
\* A request names a row, and its name is its type and round.
LEMMA RowOfRequest ==
  ASSUME TypeOK, NEW r \in Requests
  PROVE  /\ r[1] \in ReviewType
         /\ r[2] \in 1..Len(rr[r[1]])
         /\ r = <<r[1], r[2]>>
         /\ Row(r) \in Request
         /\ r[1] = "PLAN_REVIEW" => Row(r).input \in Plans
         /\ r # NoRR
<1>1. PICK type \in ReviewType : r \in {type} \X DOMAIN rr[type]
  BY DEF Requests
<1>2. rr[type] \in Seq(Request)
  BY DEF TypeOK, RequestTable
<1>3. r[1] = type /\ r[2] \in 1..Len(rr[type]) /\ r = <<r[1], r[2]>>
  BY <1>1, <1>2
<1>4. Row(r) \in Request
  BY <1>2, <1>3 DEF Row
<1>5. r[1] = "PLAN_REVIEW" => Row(r).input \in Plans
  BY <1>2, <1>3 DEF Row, TypeOK, RequestTable
<1> QED
  BY <1>3, <1>4, <1>5 DEF NoRR, ReviewType

\* The table of requests with another row in the place of request r.
Put(r, row) == [rr EXCEPT ![r[1]][r[2]] = row]

\* "next" is the table of requests but for the row of request r.
OnlyRow(r, row, next) ==
  /\ next \in RequestTable
  /\ \A type \in ReviewType : /\ Len(next[type]) = Len(rr[type])
                              /\ DOMAIN next[type] = DOMAIN rr[type]
  /\ next[r[1]][r[2]] = row
  /\ \A q \in Requests : q # r => next[q[1]][q[2]] = Row(q)

\* Replacing one row leaves as many rounds of each type and all other rows.
LEMMA PutRow ==
  ASSUME TypeOK, NEW r \in Requests, NEW row \in Request, row.input = Row(r).input
  PROVE  OnlyRow(r, row, Put(r, row))
<1>1. /\ r[1] \in ReviewType /\ r[2] \in 1..Len(rr[r[1]]) /\ r = <<r[1], r[2]>>
  BY RowOfRequest
<1>2. rr \in [ReviewType -> Seq(Request)]
  BY DEF TypeOK, RequestTable
<1> DEFINE s == rr[r[1]]
           t == [s EXCEPT ![r[2]] = row]
<1>3. /\ s \in Seq(Request) /\ t \in Seq(Request) /\ Len(t) = Len(s)
      /\ DOMAIN t = DOMAIN s /\ t[r[2]] = row
      /\ \A i \in 1..Len(s) : i # r[2] => t[i] = s[i]
  BY <1>1, <1>2
<1> DEFINE next == Put(r, row)
<1>4. next = [rr EXCEPT ![r[1]] = t]
  BY <1>1, <1>2 DEF Put
<1> HIDE DEF next
<1>5. \A q \in Requests : q # r => next[q[1]][q[2]] = Row(q)
  <2> SUFFICES ASSUME NEW q \in Requests, q # r PROVE next[q[1]][q[2]] = Row(q)
    OBVIOUS
  <2>1. q[1] \in ReviewType /\ q[2] \in 1..Len(rr[q[1]]) /\ q = <<q[1], q[2]>>
    BY RowOfRequest
  <2>2. CASE q[1] = r[1]
    <3>1. q[2] # r[2]
      BY <2>1, <2>2, <1>1
    <3> QED
      BY <2>1, <2>2, <3>1, <1>1, <1>2, <1>3, <1>4 DEF Row
  <2>3. CASE q[1] # r[1]
    BY <2>1, <2>3, <1>1, <1>2, <1>4 DEF Row
  <2> QED
    BY <2>2, <2>3
<1>6. \A n \in DOMAIN next["PLAN_REVIEW"] : next["PLAN_REVIEW"][n].input \in Plans
  <2>1. \A n \in DOMAIN rr["PLAN_REVIEW"] : rr["PLAN_REVIEW"][n].input \in Plans
    BY DEF TypeOK, RequestTable
  <2>2. CASE r[1] = "PLAN_REVIEW"
    BY <1>1, <1>2, <1>3, <1>4, <2>1, <2>2 DEF Row
  <2>3. CASE r[1] # "PLAN_REVIEW"
    BY <1>1, <1>2, <1>4, <2>1, <2>3
  <2> QED
    BY <2>2, <2>3
<1>7. next \in [ReviewType -> Seq(Request)]
  BY <1>1, <1>2, <1>3, <1>4
<1>8. OnlyRow(r, row, next)
  BY <1>1, <1>2, <1>3, <1>4, <1>5, <1>6, <1>7 DEF OnlyRow, RequestTable
<1> QED
  BY <1>8 DEF next

\* What End and Stop do to the table.
LEMMA EndRow ==
  ASSUME TypeOK, NEW r \in Requests, NEW status \in RequestStatus,
         NEW verdict \in Verdict \cup {"NONE"}
  PROVE  OnlyRow(r, [Row(r) EXCEPT !.status = status, !.verdict = verdict,
                                   !.expired = FALSE],
                 End(r, status, verdict))
<1> DEFINE row == [Row(r) EXCEPT !.status = status, !.verdict = verdict, !.expired = FALSE]
<1>1. r[1] \in ReviewType /\ r[2] \in 1..Len(rr[r[1]]) /\ Row(r) \in Request
  BY RowOfRequest
<1>2. row \in Request /\ row.input = Row(r).input
  BY <1>1 DEF Request
<1>3. End(r, status, verdict) = Put(r, row)
  BY <1>1 DEF End, Row, Put, TypeOK, RequestTable
<1> HIDE DEF row
<1>4. OnlyRow(r, row, End(r, status, verdict))
  BY <1>2, <1>3, PutRow
<1> QED
  BY <1>4 DEF row

\* Giving up the active request leaves a table of requests.
LEMMA StopType ==
  ASSUME TypeOK, NEW status \in RequestStatus
  PROVE  /\ Stop(status) \in RequestTable
         /\ \A type \in ReviewType : Len(Stop(status)[type]) = Len(rr[type])
<1>1. CASE task.active \in Requests /\ Row(task.active).status \in ActiveRequest
  <2>1. Stop(status) = End(task.active, status, "NONE")
    BY <1>1 DEF Stop
  <2>2. "NONE" \in Verdict \cup {"NONE"}
    OBVIOUS
  <2>3. OnlyRow(task.active, [Row(task.active) EXCEPT !.status = status, !.verdict = "NONE",
                                                     !.expired = FALSE], Stop(status))
    BY <1>1, <2>1, <2>2, EndRow
  <2> QED
    BY <2>3 DEF OnlyRow
<1>2. CASE ~(task.active \in Requests /\ Row(task.active).status \in ActiveRequest)
  BY <1>2 DEF Stop, TypeOK
<1> QED
  BY <1>1, <1>2

-----------------------------------------------------------------------------
(***************************************************************************)
(* The variables stay in their types, a row at a time.                     *)
(***************************************************************************)
\* The failure gate leaves well-typed rows behind.
LEMMA FailureGateType ==
  ASSUME TypeOK, NEW status \in RequestStatus, FailureGate(status)
  PROVE  TypeOK'
<1>1. rr' \in RequestTable
  BY StopType DEF FailureGate
<1>2. task' \in TaskRow
  BY Moves, States DEF FailureGate, TypeOK, TaskRow
<1> QED
  BY <1>1, <1>2 DEF FailureGate, TypeOK

\* An escalation leaves well-typed rows behind.
LEMMA EscalateType ==
  ASSUME TypeOK, Escalate
  PROVE  /\ task' \in TaskRow
         /\ rr' \in RequestTable
         /\ UNCHANGED <<finding, moved, worker>>
<1>1. rr' \in RequestTable
  BY StopType DEF Escalate, RequestStatus
<1>2. task' \in TaskRow
  BY Moves, States DEF Escalate, TypeOK, TaskRow
<1> QED
  BY <1>1, <1>2 DEF Escalate

\* An offer leaves a well-typed assignment.
LEMMA OfferType ==
  ASSUME TypeOK, NEW row, NEW fixes \in SUBSET Findings, Offer(row, fixes)
  PROVE  worker' \in [status : WorkerStatus, fixes : SUBSET Findings, expired : BOOLEAN]
BY DEF Offer, WorkerStatus, LiveAssignment

\* What the Builder does keeps the types.
LEMMA BuilderType == ASSUME TypeOK, ConstantsAssumption, Builder PROVE TypeOK'
<1>0. /\ task \in TaskRow /\ rr \in RequestTable /\ rr \in [ReviewType -> Seq(Request)]
      /\ finding \in [Findings -> FindingRow \cup {NoFinding}]
      /\ moved \in SUBSET Findings
  BY DEF TypeOK, RequestTable
<1>1. CASE BeginPlan
  <2>1. task' \in TaskRow
    BY <1>0, <1>1, Moves, States DEF BeginPlan, TaskRow
  <2> QED
    BY <1>1, <2>1 DEF BeginPlan, TypeOK
<1>2. ASSUME NEW plan \in Plans, SubmitPlan(plan) PROVE TypeOK'
  <2>1. task' = [task EXCEPT !.plan = plan, !.final = NoPackage, !.approvedPlan = NoPlan,
                             !.rev = @ + 1]
    BY <1>2 DEF SubmitPlan
  <2>2. task.rev + 1 \in Nat
    BY <1>0 DEF TaskRow
  <2>3. task' \in TaskRow
    BY <1>0, <1>2, <2>1, <2>2, States DEF TaskRow
  <2> QED
    BY <1>2, <2>3 DEF SubmitPlan, TypeOK
<1>3. ASSUME NEW type \in ReviewType, RequestReview(type) PROVE TypeOK'
  <2>1. Input(type) \in Plans \cup Package
    BY <1>0, <1>3 DEF RequestReview, MayRequest, Input, TaskRow, ReviewType
  <2> DEFINE row == [status |-> "PENDING", input |-> Input(type), rev |-> task.rev,
                     limit |-> task.limit[type], verdict |-> "NONE", expired |-> FALSE]
  <2>2. row \in Request
    BY <1>0, <2>1 DEF Request, RequestStatus, TaskRow
  <2>3. Append(rr[type], row) \in Seq(Request)
    BY <1>0, <2>2
  <2>4. rr' \in RequestTable
    <3>1. rr' = [rr EXCEPT ![type] = Append(rr[type], row)]
      BY <1>3 DEF RequestReview
    <3>2. type = "PLAN_REVIEW" => Input(type) \in Plans
      BY <1>0, <1>3 DEF RequestReview, MayRequest, Input, TaskRow
    <3>3. \A n \in DOMAIN rr'["PLAN_REVIEW"] : rr'["PLAN_REVIEW"][n].input \in Plans
      BY <1>0, <2>2, <3>1, <3>2 DEF RequestTable, ReviewType
    <3> QED
      BY <1>0, <2>3, <3>1, <3>3 DEF RequestTable
  <2>5. <<type, Rounds(type) + 1>> \in (ReviewType \cup {"NONE"}) \X Nat
    BY <1>0 DEF Rounds
  <2>6. MoveTo(IF type = "PLAN_REVIEW" THEN "request_plan" ELSE "request_final") \in TaskState
    BY Moves, States
  <2>7. task' \in TaskRow
    BY <1>0, <1>3, <2>5, <2>6 DEF RequestReview, TaskRow
  <2> QED
    BY <1>3, <2>4, <2>7 DEF RequestReview, TypeOK
<1>4. ASSUME NEW type \in ReviewType, RequestBeyondLimit(type) PROVE TypeOK'
  BY <1>4, EscalateType DEF RequestBeyondLimit, TypeOK
<1>5. ASSUME NEW f \in Findings, NEW action \in {"accept", "reject", "fix"},
             RespondFinding(f, action)
      PROVE  TypeOK'
  <2>1. FindingEdges[action].to \in FindingStatus
    BY DEF FindingEdges, Edge, FindingStatus
  <2>2. finding[f] \in FindingRow
    BY <1>0, <1>5 DEF RespondFinding, Known, NoFinding
  <2>3. [finding[f] EXCEPT !.status = FindingEdges[action].to] \in FindingRow
    BY <2>1, <2>2 DEF FindingRow
  <2>4. finding' \in [Findings -> FindingRow \cup {NoFinding}]
    BY <1>0, <1>5, <2>3 DEF RespondFinding
  <2>5. moved' \in SUBSET Findings
    BY <1>0, <1>5 DEF RespondFinding, Touches
  <2> QED
    BY <1>5, <2>4, <2>5 DEF RespondFinding, TypeOK
<1>6. CASE Execute
  <2>1. task' \in TaskRow
    BY <1>0, <1>6, Moves, States DEF Execute, TaskRow
  <2>2. task.activeFix \in SUBSET Findings
    BY <1>0 DEF TaskRow
  <2> QED
    BY <1>6, <2>1, <2>2, OfferType DEF Execute, TypeOK
<1>7. ASSUME NEW fixes \in SUBSET Findings, NEW within \in BOOLEAN,
             BeginFinalFix(fixes, within)
      PROVE  TypeOK'
  <2>1. CASE within
    <3>1. task' = [task EXCEPT !.activeFix = fixes, !.state = MoveTo("execute")]
          /\ Offer(task, fixes)
      BY <1>7, <2>1 DEF BeginFinalFix
    <3>2. task' \in TaskRow
      BY <1>0, <3>1, Moves, States DEF TaskRow
    <3> QED
      BY <1>7, <3>1, <3>2, OfferType DEF BeginFinalFix, TypeOK
  <2>2. CASE ~within
    <3>1. /\ task' = [task EXCEPT !.approvedPlan = NoPlan, !.approvedScope = NoPlan,
                                !.final = NoPackage, !.selfTest = FALSE,
                                !.state = MoveTo("scope_replan")]
          /\ UNCHANGED worker
      BY <1>7, <2>2 DEF BeginFinalFix
    <3>2. task' \in TaskRow
      BY <1>0, <3>1, Moves, States DEF TaskRow
    <3> QED
      BY <1>7, <3>1, <3>2 DEF BeginFinalFix, TypeOK
  <2> QED
    BY <2>1, <2>2
<1>8. ASSUME NEW passed \in BOOLEAN, SelfTest(passed) PROVE TypeOK'
  <2>0. task.rev + 1 \in Nat
    BY <1>0 DEF TaskRow
  <2>1. Tested(passed) \in TaskRow
    BY <1>0, <2>0, States DEF Tested, TaskRow
  <2>2. MoveTo(IF passed THEN "self_test" ELSE "self_test_failed") \in TaskState
    BY Moves, States
  <2>3. task' \in TaskRow
    BY <1>8, <2>1, <2>2 DEF SelfTest, TaskRow
  <2> QED
    BY <1>8, <2>3 DEF SelfTest, TypeOK
<1>9. CASE SelfTestFailed
  <2>1. task' \in TaskRow
    BY <1>0, <1>9, Moves, States DEF SelfTestFailed, TaskRow
  <2> QED
    BY <1>9, <2>1 DEF SelfTestFailed, TypeOK
<1>10. CASE SubmitFinalPackage
  <2>1. task' = [task EXCEPT !.final =
          <<task.rev, IF task.final[1] = task.rev THEN task.final[2] + 1 ELSE 1>>]
    BY <1>10 DEF SubmitFinalPackage
  <2>2. <<task.rev, IF task.final[1] = task.rev THEN task.final[2] + 1 ELSE 1>> \in Package
    BY <1>0 DEF TaskRow, Package
  <2>3. task' \in TaskRow
    BY <1>0, <2>1, <2>2 DEF TaskRow
  <2> QED
    BY <1>10, <2>3 DEF SubmitFinalPackage, TypeOK
<1>11. CASE RequestAction
  <2>1. task' \in TaskRow /\ task.rev \in Nat
    BY <1>0, <1>11, Moves, States DEF RequestAction, TaskRow
  <2> QED
    BY <1>11, <2>1 DEF RequestAction, ApprovalStatus, TypeOK
<1>12. CASE ConsumeAction
  BY <1>12 DEF ConsumeAction, Closed, ApprovalStatus, ClosedAction, TypeOK
<1> QED
  BY <1>1, <1>2, <1>3, <1>4, <1>5, <1>6, <1>7, <1>8, <1>9, <1>10, <1>11, <1>12 DEF Builder

\* What the Worker does and the recovery of its assignment keep the types.
LEMMA WorkerType == ASSUME TypeOK, Worker \/ RecoverAssignment PROVE TypeOK'
<1>1. task.expired \in BOOLEAN
  BY DEF TypeOK, TaskRow
<1> QED
  BY <1>1 DEF Worker, ClaimAssignment, CompleteAssignment, RecoverAssignment, TypeOK,
              WorkerStatus, LiveAssignment

\* A result applied to the findings leaves well-typed findings behind.
LEMMA ProjectedType ==
  ASSUME TypeOK, ConstantsAssumption, NEW r \in Requests, NEW result \in Result,
         FitsFindings(r, result)
  PROVE  Projected(r, result) \in [Findings -> FindingRow \cup {NoFinding}]
<1>1. finding \in [Findings -> FindingRow \cup {NoFinding}] /\ r[1] \in ReviewType
  BY RowOfRequest DEF TypeOK
<1>2. \A f \in DOMAIN result.new : result.new[f] \in Grades
  BY DEF Result, Partial
<1>3. \A f \in DOMAIN result.outcome : result.outcome[f] \in Outcome
  BY DEF Result, Partial
<1>4. \A f \in DOMAIN result.outcome : f \in Findings => finding[f] \in FindingRow
  BY <1>1 DEF FitsFindings, Known, NoFinding
<1> SUFFICES ASSUME NEW f \in Findings
             PROVE  Projected(r, result)[f] \in FindingRow \cup {NoFinding}
  BY DEF Projected
<1>5. CASE f \in DOMAIN result.new
  <2>1. Projected(r, result)[f]
          = [status |-> "OPEN", stage |-> r[1], severity |-> result.new[f].severity,
             blocking |-> result.new[f].blocking, advisory |-> FALSE]
    BY <1>5 DEF Projected
  <2> QED
    BY <1>1, <1>2, <1>5, <2>1 DEF ConstantsAssumption, FindingRow, FindingStatus
<1>6. CASE f \notin DOMAIN result.new /\ f \notin DOMAIN result.outcome
  BY <1>1, <1>6 DEF Projected
<1>7. CASE f \notin DOMAIN result.new /\ f \in DOMAIN result.outcome
  <2>1. finding[f] \in FindingRow
    BY <1>4, <1>7
  <2>2. Projected(r, result)[f] \in {[finding[f] EXCEPT !.advisory = TRUE],
                                     [finding[f] EXCEPT !.status = "VERIFIED"],
                                     [finding[f] EXCEPT !.status = "OPEN"]}
    BY <1>3, <1>7 DEF Projected, Outcome
  <2> QED
    BY <2>1, <2>2 DEF FindingRow, FindingStatus
<1> QED
  BY <1>5, <1>6, <1>7

\* The task row a completed review decides on.
LEMMA DecidedType ==
  ASSUME TypeOK, NEW r \in Requests, NEW verdict, NEW open \in SUBSET Findings
  PROVE  Decided(r, verdict, open) \in TaskRow
<1>1. task \in TaskRow
  BY DEF TypeOK
<1>2. Settled \in TaskRow
  BY <1>1, States DEF Settled, TaskRow
<1>3. r[1] = "PLAN_REVIEW" => Row(r).input \in Plans
  BY RowOfRequest
<1>4. CASE verdict = "PASS" /\ r[1] = "PLAN_REVIEW"
  BY <1>1, <1>2, <1>3, <1>4, Moves, States DEF Decided, TaskRow
<1>5. CASE verdict = "PASS" /\ r[1] # "PLAN_REVIEW"
  BY <1>2, <1>5, Moves, States DEF Decided, TaskRow, CompletionBasis
<1>6. CASE verdict # "PASS" /\ r[2] >= Row(r).limit
  <2>1. MoveTo(IF r[1] = "PLAN_REVIEW" THEN "plan_human_review" ELSE "final_human_review")
          \in TaskState
    BY Moves, States
  <2> QED
    BY <1>2, <1>6, <2>1 DEF Decided, TaskRow
<1>7. CASE verdict # "PASS" /\ ~(r[2] >= Row(r).limit)
  <2>1. MoveTo(IF r[1] = "PLAN_REVIEW" THEN "plan_changes" ELSE "final_changes") \in TaskState
    BY Moves, States
  <2>2. Decided(r, verdict, open)
          = [Settled EXCEPT !.fixable = IF r[1] = "PLAN_REVIEW" THEN @ ELSE open,
               !.state = MoveTo(IF r[1] = "PLAN_REVIEW" THEN "plan_changes" ELSE "final_changes")]
    BY <1>7 DEF Decided
  <2> QED
    BY <1>2, <2>1, <2>2 DEF TaskRow
<1> QED
  BY <1>4, <1>5, <1>6, <1>7

\* The aggregated verdict is a verdict.
LEMMA AggregateType ==
  ASSUME NEW rows, NEW reported \in Verdict PROVE AggregateVerdict(rows, reported) \in Verdict
BY DEF AggregateVerdict, Verdict

\* What a Reviewer's events do keeps the types.
LEMMA ReviewerType == ASSUME TypeOK, ConstantsAssumption, Reviewer PROVE TypeOK'
<1> SUFFICES ASSUME NEW r \in Requests,
                    \/ EventPastDeadline(r) \/ ReviewStarted(r) \/ ReviewFailed(r)
                    \/ \E result \in Result : ReviewCompleted(r, result)
             PROVE  TypeOK'
  BY DEF Reviewer
<1>1. CASE EventPastDeadline(r) \/ ReviewFailed(r)
  BY <1>1, FailureGateType DEF EventPastDeadline, ReviewFailed, RequestStatus
<1>2. CASE ReviewStarted(r)
  <2> DEFINE row == [Row(r) EXCEPT !.status = "IN_PROGRESS"]
  <2>1. row \in Request /\ row.input = Row(r).input
    BY RowOfRequest DEF Request, RequestStatus
  <2>2. rr' = Put(r, row)
    BY <1>2, RowOfRequest DEF ReviewStarted, Put, Row, TypeOK, RequestTable
  <2>3. rr' \in RequestTable
    <3> HIDE DEF row
    <3> QED
      BY <2>1, <2>2, PutRow DEF OnlyRow
  <2>4. MoveTo(IF r[1] = "PLAN_REVIEW" THEN "plan_started" ELSE "final_started") \in TaskState
    BY Moves, States
  <2>5. task' \in TaskRow
    BY <1>2, <2>4 DEF ReviewStarted, TypeOK, TaskRow
  <2> QED
    BY <1>2, <2>3, <2>5 DEF ReviewStarted, TypeOK
<1>3. ASSUME NEW result \in Result, ReviewCompleted(r, result) PROVE TypeOK'
  <2> DEFINE rows == Projected(r, result)
             open == LeftOpen(r, rows)
             verdict == AggregateVerdict({rows[f] : f \in Relevant(r, rows)}, result.verdict)
  <2>1. rows \in [Findings -> FindingRow \cup {NoFinding}]
    BY <1>3, ProjectedType DEF ReviewCompleted
  <2>2. open \in SUBSET Findings
    BY DEF LeftOpen, Relevant
  <2>3. verdict \in Verdict
    BY AggregateType DEF Result
  <2>4. task' = Decided(r, verdict, open) /\ rr' = End(r, "COMPLETED", verdict)
        /\ finding' = rows /\ UNCHANGED <<moved, approval, worker>>
    BY <1>3 DEF ReviewCompleted
  <2> HIDE DEF rows, open, verdict
  <2>5. task' \in TaskRow
    BY <2>2, <2>4, DecidedType
  <2>6. rr' \in RequestTable
    BY <2>3, <2>4, EndRow DEF OnlyRow, RequestStatus
  <2> QED
    BY <2>1, <2>4, <2>5, <2>6 DEF TypeOK
<1> QED
  BY <1>1, <1>2, <1>3

\* What the Dispatcher and the sweep do keeps the types.
LEMMA TimeoutType == ASSUME TypeOK, Delivery \/ Sweep PROVE TypeOK'
<1>1. CASE Delivery
  BY <1>1, FailureGateType DEF Delivery, DispatchPastDeadline, DeliveryFailed, RequestStatus
<1>2. CASE SweepTaskTimeout \/ SweepReviewTimeout
  BY <1>2, FailureGateType DEF SweepTaskTimeout, SweepReviewTimeout, RequestStatus
<1>3. CASE SweepApprovalExpiry
  BY <1>3, EscalateType DEF SweepApprovalExpiry, Closed, ApprovalStatus, TypeOK
<1> QED
  BY <1>1, <1>2, <1>3 DEF Sweep

\* An abort leaves well-typed rows behind.
LEMMA AbortType == ASSUME TypeOK, Abort PROVE TypeOK'
<1>1. rr' \in RequestTable
  BY StopType DEF Abort, RequestStatus
<1>2. task' \in TaskRow
  BY Moves, States DEF Abort, TypeOK, TaskRow
<1>3. worker' \in [status : WorkerStatus, fixes : SUBSET Findings, expired : BOOLEAN]
  BY DEF Abort, TypeOK, WorkerStatus
<1> QED
  BY <1>1, <1>2, <1>3 DEF Abort, TypeOK

\* A decision to go on starts from a well-typed Task row.
LEMMA ReopenedType == ASSUME TypeOK PROVE Reopened \in TaskRow
BY States DEF Reopened, TypeOK, TaskRow

\* MODIFY at a gate keeps the types.
LEMMA GateModifyType ==
  ASSUME TypeOK, NEW gate \in HumanGate, NEW selected \in SUBSET Findings,
         NEW within \in BOOLEAN, GateModify(gate, selected, within)
  PROVE  TypeOK'
<1>1. rr' \in RequestTable
  BY StopType DEF GateModify, RequestStatus
<1>2. OpenFindings \in SUBSET Findings
  BY DEF OpenFindings, Known
<1>3. CASE gate = "PLAN_HUMAN_REVIEW" /\ within
  <2>1. task' = [Reopened EXCEPT !.state = MoveTo("human_modify_plan")] /\ UNCHANGED worker
    BY <1>3 DEF GateModify
  <2>2. task' \in TaskRow
    BY <2>1, ReopenedType, Moves, States DEF TaskRow
  <2> QED
    BY <1>1, <2>1, <2>2 DEF GateModify, TypeOK
<1>4. CASE gate = "FINAL_HUMAN_REVIEW" /\ within
  <2>1. /\ task' = [Reopened EXCEPT !.activeFix = selected, !.fixable = OpenFindings,
                                    !.state = MoveTo("human_modify_final")]
        /\ Offer(task, selected)
    BY <1>4 DEF GateModify
  <2>2. task' \in TaskRow
    BY <1>2, <2>1, ReopenedType, Moves, States DEF TaskRow
  <2> QED
    BY <1>1, <2>1, <2>2, OfferType DEF GateModify, TypeOK
<1>5. CASE gate = "FINAL_HUMAN_REVIEW" /\ ~within
  <2>1. /\ task' = [Reopened EXCEPT !.approvedPlan = NoPlan, !.approvedScope = NoPlan,
                                    !.final = NoPackage, !.selfTest = FALSE,
                                    !.state = MoveTo("human_modify_final_replan")]
        /\ UNCHANGED worker
    BY <1>5 DEF GateModify
  <2>2. task' \in TaskRow
    BY <2>1, ReopenedType, Moves, States DEF TaskRow
  <2> QED
    BY <1>1, <2>1, <2>2 DEF GateModify, TypeOK
<1> QED
  BY <1>3, <1>4, <1>5 DEF GateModify

\* CONTINUE at a gate keeps the types.
LEMMA GateContinueType ==
  ASSUME TypeOK, NEW gate \in HumanGate, GateContinue(gate)
  PROVE  TypeOK'
<1>1. rr' \in RequestTable
  BY StopType DEF GateContinue, RequestStatus
<1>2. OpenFindings \in SUBSET Findings
  BY DEF OpenFindings, Known
<1>3. CASE /\ task' = [Reopened EXCEPT !.activeFix = OpenFindings,
                                       !.state = MoveTo("human_continue_final_rework")]
           /\ Offer(task, OpenFindings)
  <2>1. task' \in TaskRow
    BY <1>2, <1>3, ReopenedType, Moves, States DEF TaskRow
  <2> QED
    BY <1>1, <1>2, <1>3, <2>1, OfferType DEF GateContinue, TypeOK
<1>4. CASE /\ \/ task' = [Reopened EXCEPT !.state = MoveTo("human_continue_plan")]
              \/ task' = [Reopened EXCEPT !.state = MoveTo("human_continue_final")]
           /\ UNCHANGED worker
  <2>1. task' \in TaskRow
    BY <1>4, ReopenedType, Moves, States DEF TaskRow
  <2> QED
    BY <1>1, <1>4, <2>1 DEF GateContinue, TypeOK
<1> QED
  BY <1>3, <1>4 DEF GateContinue

\* What the Human does keeps the types.
LEMMA HumanType == ASSUME TypeOK, Human PROVE TypeOK'
<1>0. task \in TaskRow /\ approval \in [status : ApprovalStatus, rev : Nat, expired : BOOLEAN]
      /\ finding \in [Findings -> FindingRow \cup {NoFinding}]
  BY DEF TypeOK
<1>1. ASSUME NEW event \in {"approve_action", "reject_replan", "cancel"}, DecideAction(event)
      PROVE  TypeOK'
  <2>1. task' \in TaskRow
    BY <1>0, <1>1, Moves, States DEF DecideAction, TaskRow
  <2>2. approval' \in [status : ApprovalStatus, rev : Nat, expired : BOOLEAN]
    BY <1>0, <1>1 DEF DecideAction, Closed, ApprovalStatus, ClosedAction
  <2> QED
    BY <1>1, <2>1, <2>2 DEF DecideAction, TypeOK
<1>2. CASE WithdrawAction
  BY <1>2 DEF WithdrawAction, Closed, ApprovalStatus, ClosedAction, TypeOK
<1>3. ASSUME NEW f \in Findings, WaiveFinding(f) PROVE TypeOK'
  <2>1. finding[f] \in FindingRow
    BY <1>0, <1>3 DEF WaiveFinding, Known, NoFinding
  <2>2. FindingEdges["waive"].to \in FindingStatus
    BY DEF FindingEdges, Edge, FindingStatus
  <2>3. finding' \in [Findings -> FindingRow \cup {NoFinding}]
    BY <1>0, <1>3, <2>1, <2>2 DEF WaiveFinding, FindingRow
  <2>4. moved' \in SUBSET Findings
    BY <1>3 DEF WaiveFinding, Touches, TypeOK
  <2> QED
    BY <1>3, <2>3, <2>4 DEF WaiveFinding, TypeOK
<1>4. CASE Cancel \/ GateAbort
  BY <1>4, AbortType DEF Cancel, GateAbort
<1>5. CASE GateAccept
  <2>1. rr' \in RequestTable
    BY <1>5, StopType DEF GateAccept, RequestStatus
  <2>2. task' \in TaskRow
    BY <1>0, <1>5, Moves, States DEF GateAccept, TaskRow, CompletionBasis
  <2> QED
    BY <1>5, <2>1, <2>2 DEF GateAccept, TypeOK
<1>6. ASSUME NEW type \in ReviewType, NEW limit \in 1..V1_LIMIT + 1, Resume(type, limit)
      PROVE  TypeOK'
  <2>1. rr' \in RequestTable
    BY <1>6, StopType DEF Resume, RequestStatus
  <2>2. limit \in 1..V1_LIMIT
    BY <1>6 DEF Resume, ResumeBudget, V1_LIMIT
  <2>3. MoveTo(IF type = "PLAN_REVIEW" THEN "resume_plan" ELSE "resume_final") \in TaskState
    BY Moves, States
  <2>4. [task.limit EXCEPT ![type] = limit] \in [ReviewType -> 1..V1_LIMIT]
    BY <1>0, <2>2 DEF TaskRow
  <2>5. task' \in TaskRow
    BY <1>0, <1>6, <2>3, <2>4, States DEF Resume, TaskRow
  <2> QED
    BY <1>6, <2>1, <2>5 DEF Resume, TypeOK
<1>7. CASE OverrideFinal
  <2>1. rr' \in RequestTable
    BY <1>7, StopType DEF OverrideFinal, RequestStatus
  <2>2. task' \in TaskRow
    BY <1>0, <1>7, Moves, States DEF OverrideFinal, TaskRow
  <2> QED
    BY <1>7, <2>1, <2>2 DEF OverrideFinal, TypeOK
<1> QED
  BY <1>1, <1>2, <1>3, <1>4, <1>5, <1>6, <1>7, GateModifyType, GateContinueType DEF Human

\* A deadline that passes changes nothing of a request but that.
LEMMA ExpireRow ==
  ASSUME TypeOK, task.active \in Requests
  PROVE  OnlyRow(task.active, [Row(task.active) EXCEPT !.expired = TRUE],
                 [rr EXCEPT ![task.active[1]][task.active[2]].expired = TRUE])
<1> DEFINE row == [Row(task.active) EXCEPT !.expired = TRUE]
<1>1. row \in Request /\ row.input = Row(task.active).input
  BY RowOfRequest DEF Request
<1>2. [rr EXCEPT ![task.active[1]][task.active[2]].expired = TRUE] = Put(task.active, row)
  BY RowOfRequest DEF Put, Row, TypeOK, RequestTable
<1> HIDE DEF row
<1>3. OnlyRow(task.active, row, Put(task.active, row))
  BY <1>1, PutRow
<1> QED
  BY <1>2, <1>3 DEF row

\* The clock keeps the types.
LEMMA ClockType == ASSUME TypeOK, Clock PROVE TypeOK'
<1>1. CASE TaskDeadline
  <2>1. task' \in TaskRow
    BY <1>1 DEF TaskDeadline, TypeOK, TaskRow
  <2>2. rr' \in RequestTable
    BY <1>1, ExpireRow DEF TaskDeadline, OnlyRow, TypeOK
  <2>3. approval' \in [status : ApprovalStatus, rev : Nat, expired : BOOLEAN]
    BY <1>1 DEF TaskDeadline, OpenApproval, TypeOK
  <2>4. worker' \in [status : WorkerStatus, fixes : SUBSET Findings, expired : BOOLEAN]
    BY <1>1 DEF TaskDeadline, TypeOK
  <2> QED
    BY <1>1, <2>1, <2>2, <2>3, <2>4 DEF TaskDeadline, TypeOK
<1>2. CASE ReviewDeadline
  BY <1>2, ExpireRow DEF ReviewDeadline, OnlyRow, TypeOK
<1>3. CASE ApprovalDeadline \/ LeaseDeadline
  BY <1>3 DEF ApprovalDeadline, LeaseDeadline, TypeOK
<1> QED
  BY <1>1, <1>2, <1>3 DEF Clock

\* The first rows are well-typed.
LEMMA TypeInit == Init => TypeOK
BY States DEF Init, TypeOK, TaskRow, RequestTable, TaskState, CompletionBasis, V1_LIMIT,
              ReviewType, NoFinding, ApprovalStatus, ClosedAction, WorkerStatus

\* Every step keeps the types.
LEMMA TypeStep == ASSUME TypeOK, Next PROVE TypeOK'
BY ConstantsAssumption, BuilderType, WorkerType, ReviewerType, TimeoutType, HumanType, ClockType
   DEF Next

(***************************************************************************)
(* Every row of the Task is of its type, forever: the round limits stay    *)
(* within the cap, revisions count up from 0, a Plan review reviews a plan.*)
(***************************************************************************)
THEOREM TypeCorrect == Spec => []TypeOK
<1>1. TypeOK /\ UNCHANGED vars => TypeOK'
  BY DEF vars, TypeOK
<1>2. TypeOK /\ [Next]_vars => TypeOK'
  BY <1>1, TypeStep
<1> QED
  BY TypeInit, <1>2, PTL DEF Spec

-----------------------------------------------------------------------------
(***************************************************************************)
(* High-risk actions.                                                      *)
(***************************************************************************)
\* The Builder starts nothing else while an action is open.
LEMMA BuilderHolds == ASSUME TypeOK, OpenActionHoldsTask, Builder PROVE OpenActionHoldsTask'
<1>0. task \in TaskRow
  BY DEF TypeOK
<1> USE DEF OpenActionHoldsTask, ActionsClosed, OpenApproval
<1>1. CASE BeginPlan
  BY <1>1, Sources DEF BeginPlan
<1>2. ASSUME NEW plan \in Plans, SubmitPlan(plan) PROVE OpenActionHoldsTask'
  BY <1>0, <1>2 DEF SubmitPlan, TaskRow
<1>3. ASSUME NEW type \in ReviewType, RequestReview(type) \/ RequestBeyondLimit(type)
      PROVE  OpenActionHoldsTask'
  BY <1>0, <1>3 DEF RequestReview, RequestBeyondLimit, MayRequest, TaskRow
<1>4. ASSUME NEW f \in Findings, NEW action \in {"accept", "reject", "fix"},
             RespondFinding(f, action)
      PROVE  OpenActionHoldsTask'
  BY <1>4 DEF RespondFinding
<1>5. ASSUME NEW fixes \in SUBSET Findings, NEW within \in BOOLEAN,
             BeginFinalFix(fixes, within)
      PROVE  OpenActionHoldsTask'
  BY <1>0, <1>5 DEF BeginFinalFix, TaskRow
<1>6. ASSUME NEW passed \in BOOLEAN, SelfTest(passed) PROVE OpenActionHoldsTask'
  BY <1>6 DEF SelfTest, WorkIsDone
<1>7. CASE Execute \/ SubmitFinalPackage
  BY <1>7 DEF Execute, SubmitFinalPackage
<1>8. CASE SelfTestFailed
  BY <1>8, Sources DEF SelfTestFailed
<1>9. CASE RequestAction
  BY <1>0, <1>9, Moves DEF RequestAction, TaskRow
<1>10. CASE ConsumeAction
  BY <1>10 DEF ConsumeAction, Closed, ClosedAction
<1> QED
  BY <1>1, <1>2, <1>3, <1>4, <1>5, <1>6, <1>7, <1>8, <1>9, <1>10 DEF Builder

\* A Task whose action is open goes to no gate but the Final one.
LEMMA GateHolds ==
  ASSUME TypeOK, OpenActionHoldsTask, NEW status, FailureGate(status)
  PROVE  OpenActionHoldsTask'
<1>1. task \in TaskRow
  BY DEF TypeOK
<1>2. CASE ActionsClosed
  BY <1>2 DEF FailureGate, OpenActionHoldsTask, ActionsClosed
<1>3. CASE ~ActionsClosed
  <2>1. task.state = "EXECUTING" /\ approval.status = "APPROVED"
    BY <1>3, Sources
       DEF FailureGate, OpenActionHoldsTask, PlanUnderReview, FinalUnderReview
  <2>2. task'.state = "FINAL_HUMAN_REVIEW" /\ task'.rev = task.rev
    BY <1>1, <2>1, Moves, Sources DEF FailureGate, TaskRow, PlanUnderReview
  <2> QED
    BY <1>3, <2>1, <2>2 DEF FailureGate, OpenActionHoldsTask, OpenApproval
<1> QED
  BY <1>2, <1>3

\* What the Human decides lets no Task go on with an open action.
LEMMA HumanHolds == ASSUME TypeOK, OpenActionHoldsTask, Human PROVE OpenActionHoldsTask'
<1>0. task \in TaskRow
  BY DEF TypeOK
<1> USE DEF OpenActionHoldsTask, ActionsClosed, OpenApproval
<1>1. ASSUME NEW event \in {"approve_action", "reject_replan", "cancel"}, DecideAction(event)
      PROVE  OpenActionHoldsTask'
  <2>1. task'.rev = task.rev /\ task'.state = MoveTo(event)
    BY <1>0, <1>1 DEF DecideAction, TaskRow
  <2>2. CASE event = "approve_action"
    <3>1. approval' = [approval EXCEPT !.status = "APPROVED"] /\ approval.rev = task.rev
      BY <1>1, <2>2 DEF DecideAction
    <3> QED
      BY <2>1, <2>2, <3>1, Moves DEF TypeOK
  <2>3. CASE event = "reject_replan"
    BY <1>1, <2>3 DEF DecideAction, Closed, ClosedAction
  <2>4. CASE event = "cancel"
    <3>1. approval' = Closed("REJECTED")
      BY <1>1, <2>4 DEF DecideAction
    <3> QED
      BY <2>1, <2>4, <3>1, Moves DEF Closed
  <2> QED
    BY <2>2, <2>3, <2>4
<1>2. CASE WithdrawAction
  BY <1>2 DEF WithdrawAction, Closed, ClosedAction
<1>3. ASSUME NEW f \in Findings, WaiveFinding(f) PROVE OpenActionHoldsTask'
  BY <1>3 DEF WaiveFinding
<1>4. CASE Cancel \/ GateAbort
  <2>1. task' = [task EXCEPT !.active = NoRR, !.frozen = TRUE, !.state = MoveTo("cancel")]
        /\ approval' = approval
    BY <1>4 DEF Cancel, GateAbort, Abort
  <2>2. task'.rev = task.rev /\ task'.state = "CANCELLED"
    BY <1>0, <2>1, Moves DEF TaskRow
  <2> QED
    BY <2>1, <2>2
<1>5. CASE GateAccept \/ OverrideFinal
  BY <1>5 DEF GateAccept, OverrideFinal
<1>6. ASSUME NEW type \in ReviewType, NEW limit \in 1..V1_LIMIT + 1, Resume(type, limit)
      PROVE  OpenActionHoldsTask'
  BY <1>6 DEF Resume
<1>7. ASSUME NEW gate \in HumanGate, NEW selected \in SUBSET Findings, NEW within \in BOOLEAN,
             GateModify(gate, selected, within)
      PROVE  OpenActionHoldsTask'
  BY <1>7 DEF GateModify
<1>8. ASSUME NEW gate \in HumanGate, GateContinue(gate) PROVE OpenActionHoldsTask'
  BY <1>8 DEF GateContinue
<1> QED
  BY <1>1, <1>2, <1>3, <1>4, <1>5, <1>6, <1>7, <1>8 DEF Human

\* No step lets the Task go on with an open action.
LEMMA ActionStep ==
  ASSUME TypeOK, OpenActionHoldsTask, ActiveRequestAgrees, Next
  PROVE  OpenActionHoldsTask'
<1>0. task \in TaskRow
  BY DEF TypeOK
<1>1. CASE Worker \/ RecoverAssignment
  BY <1>1 DEF Worker, ClaimAssignment, CompleteAssignment, RecoverAssignment,
              OpenActionHoldsTask, ActionsClosed, OpenApproval
<1>2. CASE Reviewer
  <2> SUFFICES ASSUME NEW r \in Requests,
                      \/ EventPastDeadline(r) \/ ReviewStarted(r) \/ ReviewFailed(r)
                      \/ \E result \in Result : ReviewCompleted(r, result)
               PROVE  OpenActionHoldsTask'
    BY <1>2 DEF Reviewer
  <2>1. CASE EventPastDeadline(r) \/ ReviewFailed(r)
    BY <2>1, GateHolds DEF EventPastDeadline, ReviewFailed
  <2>2. CASE ReviewStarted(r)
    <3>1. task.state \in {"PLAN_REVIEW_PENDING", "FINAL_REVIEW_PENDING"}
      BY <2>2, Sources DEF ReviewStarted
    <3> QED
      BY <2>2, <3>1 DEF ReviewStarted, OpenActionHoldsTask, ActionsClosed, OpenApproval
  <2>3. ASSUME NEW result \in Result, ReviewCompleted(r, result) PROVE OpenActionHoldsTask'
    <3>1. task.active = r /\ r # NoRR
      BY <2>3, RowOfRequest DEF ReviewCompleted, Current
    <3>2. task.state \in PlanUnderReview \cup FinalUnderReview
      BY <3>1 DEF ActiveRequestAgrees, ReviewState, PlanUnderReview, FinalUnderReview
    <3> QED
      BY <2>3, <3>2 DEF ReviewCompleted, OpenActionHoldsTask, ActionsClosed, OpenApproval,
                        PlanUnderReview, FinalUnderReview
  <2> QED
    BY <2>1, <2>2, <2>3
<1>3. CASE Delivery \/ SweepTaskTimeout \/ SweepReviewTimeout
  BY <1>3, GateHolds
     DEF Delivery, DispatchPastDeadline, DeliveryFailed, SweepTaskTimeout, SweepReviewTimeout
<1>4. CASE SweepApprovalExpiry
  BY <1>0, <1>4 DEF SweepApprovalExpiry, Closed, Escalate, TaskRow, OpenActionHoldsTask,
                    ActionsClosed, OpenApproval
<1>5. CASE Clock
  BY <1>0, <1>5 DEF Clock, TaskDeadline, ReviewDeadline, ApprovalDeadline, LeaseDeadline,
                    TypeOK, TaskRow, OpenActionHoldsTask, ActionsClosed, OpenApproval
<1> QED
  BY <1>1, <1>2, <1>3, <1>4, <1>5, BuilderHolds, HumanHolds DEF Next, Sweep

-----------------------------------------------------------------------------
(***************************************************************************)
(* The six kinds of steps.                                                 *)
(***************************************************************************)
UnderReview == PlanUnderReview \cup FinalUnderReview

\* The request rows stay, and the Task does not enter or leave a review.
Quiet == /\ rr' = rr /\ task'.active = task.active
         /\ \/ task'.state = task.state
            \/ task.state \notin UnderReview /\ task'.state \notin UnderReview

\* The Task gives up its active request.
Ends == /\ \E status \in {"FAILED", "TIMED_OUT", "ESCALATED"} : rr' = Stop(status)
        /\ task'.active = NoRR /\ task'.state \notin UnderReview

\* The active request is completed by its result.
Completes == \E r \in Requests, result \in Result : ReviewCompleted(r, result)

\* The deadline of the active request passes.
Expires == /\ task.active \in Requests
           /\ rr' = [rr EXCEPT ![task.active[1]][task.active[2]].expired = TRUE]
           /\ task'.active = task.active /\ task'.state = task.state

Asks == \E type \in ReviewType : RequestReview(type)

Starts == \E r \in Requests : ReviewStarted(r)

Kinds == Quiet \/ Ends \/ Completes \/ Expires \/ Asks \/ Starts

\* No verdict is milder than the one the Reviewer reported.
LEMMA PassIsReported ==
  ASSUME NEW rows, NEW reported \in Verdict, AggregateVerdict(rows, reported) = "PASS"
  PROVE  reported = "PASS"
BY DEF AggregateVerdict, Verdict, Rank

\* What the result does to the rows; what it decides is left to Decided.
LEMMA Completion ==
  ASSUME TypeOK, NEW r \in Requests, NEW result \in Result, ReviewCompleted(r, result)
  PROVE  /\ task.active = r /\ Row(r).status \in ActiveRequest /\ task.state \notin Terminal
         /\ \E verdict \in Verdict, open \in SUBSET Findings :
              /\ rr' = End(r, "COMPLETED", verdict) /\ task' = Decided(r, verdict, open)
              /\ verdict = "PASS" => LeftOpen(r, finding') = {}
         /\ task'.active = NoRR /\ task'.state \notin UnderReview
<1>0. task \in TaskRow
  BY DEF TypeOK
<1> DEFINE rows == Projected(r, result)
           open == LeftOpen(r, rows)
           verdict == AggregateVerdict({rows[f] : f \in Relevant(r, rows)}, result.verdict)
<1>1. /\ task' = Decided(r, verdict, open) /\ rr' = End(r, "COMPLETED", verdict)
      /\ Current(r) /\ finding' = rows /\ open \in SUBSET Findings
      /\ result.verdict = "PASS" => open = {}
  BY DEF ReviewCompleted, VerdictHolds, LeftOpen, Relevant
<1>2. verdict \in Verdict /\ (verdict = "PASS" => result.verdict = "PASS")
  BY AggregateType, PassIsReported DEF Result
<1> HIDE DEF rows, verdict
<1>3. verdict = "PASS" => LeftOpen(r, finding') = {}
  BY <1>1, <1>2
<1> HIDE DEF open
<1>4. task'.active = NoRR /\ task'.state \notin UnderReview
  BY <1>0, <1>1, Moves DEF Decided, Settled, TaskRow, UnderReview, PlanUnderReview,
                           FinalUnderReview
<1> QED
  BY <1>1, <1>2, <1>3, <1>4 DEF Current, Accepted

\* The failure gate, an escalation and an abort give up the active request.
LEMMA GivingUp ==
  ASSUME TypeOK, NEW status \in {"FAILED", "TIMED_OUT", "ESCALATED"},
         FailureGate(status) \/ Escalate \/ Abort
  PROVE  Ends
<1>1. task \in TaskRow
  BY DEF TypeOK
<1>2. \E s \in {"FAILED", "TIMED_OUT", "ESCALATED"} : rr' = Stop(s)
  BY DEF FailureGate, Escalate, Abort
<1>3. task'.active = NoRR /\ task'.state \notin UnderReview
  BY <1>1, Moves DEF FailureGate, Escalate, Abort, TaskRow, UnderReview, PlanUnderReview,
                     FinalUnderReview
<1> QED
  BY <1>2, <1>3 DEF Ends

\* The Builder's steps are of the six kinds.
LEMMA BuilderKinds == ASSUME TypeOK, Builder PROVE Kinds
<1>0. task \in TaskRow
  BY DEF TypeOK
<1> USE DEF UnderReview, PlanUnderReview, FinalUnderReview
<1>1. CASE BeginPlan \/ Execute \/ SelfTestFailed \/ RequestAction
  BY <1>0, <1>1, Moves, Sources
     DEF BeginPlan, Execute, SelfTestFailed, RequestAction, TaskRow, Quiet, Kinds
<1>2. ASSUME NEW plan \in Plans, SubmitPlan(plan) PROVE Kinds
  BY <1>0, <1>2 DEF SubmitPlan, TaskRow, Quiet, Kinds
<1>3. ASSUME NEW type \in ReviewType, RequestReview(type) \/ RequestBeyondLimit(type)
      PROVE  Kinds
  BY <1>3, GivingUp DEF RequestBeyondLimit, Asks, Kinds
<1>4. ASSUME NEW f \in Findings, NEW action \in {"accept", "reject", "fix"},
             RespondFinding(f, action)
      PROVE  Kinds
  BY <1>4 DEF RespondFinding, Quiet, Kinds
<1>5. ASSUME NEW fixes \in SUBSET Findings, NEW within \in BOOLEAN,
             BeginFinalFix(fixes, within)
      PROVE  Kinds
  BY <1>0, <1>5, Moves DEF BeginFinalFix, TaskRow, Quiet, Kinds
<1>6. ASSUME NEW passed \in BOOLEAN, SelfTest(passed) PROVE Kinds
  BY <1>0, <1>6, Moves, Sources DEF SelfTest, Tested, TaskRow, Quiet, Kinds
<1>7. CASE SubmitFinalPackage \/ ConsumeAction
  BY <1>0, <1>7 DEF SubmitFinalPackage, ConsumeAction, TaskRow, Quiet, Kinds
<1> QED
  BY <1>1, <1>2, <1>3, <1>4, <1>5, <1>6, <1>7 DEF Builder

\* The Reviewer's steps are of the six kinds.
LEMMA ReviewerKinds == ASSUME TypeOK, Reviewer PROVE Kinds
<1>0. task \in TaskRow
  BY DEF TypeOK
<1> SUFFICES ASSUME NEW r \in Requests,
                    \/ EventPastDeadline(r) \/ ReviewStarted(r) \/ ReviewFailed(r)
                    \/ \E result \in Result : ReviewCompleted(r, result)
             PROVE  Kinds
  BY DEF Reviewer
<1>1. CASE EventPastDeadline(r) \/ ReviewFailed(r)
  BY <1>1, GivingUp DEF EventPastDeadline, ReviewFailed, Kinds
<1>2. CASE ReviewStarted(r)
  BY <1>2 DEF Starts, Kinds
<1>3. ASSUME NEW result \in Result, ReviewCompleted(r, result) PROVE Kinds
  BY <1>3 DEF Completes, Kinds
<1> QED
  BY <1>1, <1>2, <1>3

\* The Human's steps are of the six kinds.
LEMMA HumanKinds == ASSUME TypeOK, OpenActionHoldsTask, Human PROVE Kinds
<1>0. task \in TaskRow /\ Reopened.active = NoRR
  BY DEF TypeOK, TaskRow, Reopened
<1> USE DEF UnderReview, PlanUnderReview, FinalUnderReview
<1>1. ASSUME NEW event \in {"approve_action", "reject_replan", "cancel"}, DecideAction(event)
      PROVE  Kinds
  <2>1. task.state = "AWAITING_HUMAN_APPROVAL"
    BY <1>1 DEF DecideAction, Live, Terminal, OpenActionHoldsTask, ActionsClosed, ClosedAction
  <2> QED
    BY <1>0, <1>1, <2>1, Moves, Sources DEF DecideAction, TaskRow, Quiet, Kinds
<1>2. CASE WithdrawAction
  BY <1>2 DEF WithdrawAction, Quiet, Kinds
<1>3. ASSUME NEW f \in Findings, WaiveFinding(f) PROVE Kinds
  BY <1>3 DEF WaiveFinding, Quiet, Kinds
<1>4. CASE Cancel \/ GateAbort
  BY <1>4, GivingUp DEF Cancel, GateAbort, Kinds
<1>5. CASE GateAccept \/ OverrideFinal
  BY <1>0, <1>5, Moves DEF GateAccept, OverrideFinal, TaskRow, Ends, Kinds
<1>6. ASSUME NEW type \in ReviewType, NEW limit \in 1..V1_LIMIT + 1, Resume(type, limit)
      PROVE  Kinds
  BY <1>0, <1>6, Moves DEF Resume, TaskRow, Ends, Kinds
<1>7. ASSUME NEW gate \in HumanGate, NEW selected \in SUBSET Findings, NEW within \in BOOLEAN,
             GateModify(gate, selected, within)
      PROVE  Kinds
  BY <1>0, <1>7, Moves, ReopenedType DEF GateModify, TaskRow, Ends, Kinds
<1>8. ASSUME NEW gate \in HumanGate, GateContinue(gate) PROVE Kinds
  BY <1>0, <1>8, Moves, ReopenedType DEF GateContinue, TaskRow, Ends, Kinds
<1> QED
  BY <1>1, <1>2, <1>3, <1>4, <1>5, <1>6, <1>7, <1>8 DEF Human

\* Every step is of one of the six kinds.
LEMMA StepKinds == ASSUME TypeOK, OpenActionHoldsTask, Next PROVE Kinds
<1>0. task \in TaskRow
  BY DEF TypeOK
<1>1. CASE Worker \/ RecoverAssignment
  BY <1>1 DEF Worker, ClaimAssignment, CompleteAssignment, RecoverAssignment, Quiet, Kinds
<1>2. CASE Delivery \/ Sweep
  BY <1>2, GivingUp DEF Delivery, DispatchPastDeadline, DeliveryFailed, Sweep,
     SweepTaskTimeout, SweepReviewTimeout, SweepApprovalExpiry, Kinds
<1>3. CASE Clock
  BY <1>0, <1>3 DEF Clock, TaskDeadline, ReviewDeadline, ApprovalDeadline, LeaseDeadline,
     TaskRow, Quiet, Expires, Kinds
<1> QED
  BY <1>1, <1>2, <1>3, BuilderKinds, ReviewerKinds, HumanKinds DEF Next

-----------------------------------------------------------------------------
(***************************************************************************)
(* The active request.                                                     *)
(***************************************************************************)
\* Changing one row makes no request and removes none.
LEMMA SameRequests ==
  ASSUME NEW r \in Requests, NEW row, OnlyRow(r, row, rr')
  PROVE  /\ Requests' = Requests
         /\ Row(r)' = row
         /\ \A q \in Requests : q # r => Row(q)' = Row(q)
<1>1. \A type \in ReviewType : {type} \X DOMAIN rr'[type] = {type} \X DOMAIN rr[type]
  BY DEF OnlyRow
<1>2. {{type} \X DOMAIN rr'[type] : type \in ReviewType}
        = {{type} \X DOMAIN rr[type] : type \in ReviewType}
  BY <1>1
<1>3. Requests' = Requests
  BY <1>2 DEF Requests
<1> QED
  BY <1>3 DEF OnlyRow, Row

\* A new request is one more row and changes no other.
LEMMA AppendedRow ==
  ASSUME TypeOK, NEW type \in ReviewType, NEW row,
         rr' = [rr EXCEPT ![type] = Append(rr[type], row)]
  PROVE  /\ \A q \in Requests : q \in Requests' /\ Row(q)' = Row(q)
         /\ \A q \in Requests' : q \in Requests \/ q = <<type, Rounds(type) + 1>>
         /\ <<type, Rounds(type) + 1>> \in Requests' \ Requests
         /\ rr'[type][Rounds(type) + 1] = row
<1>1. /\ rr \in [ReviewType -> Seq(Request)]
      /\ DOMAIN rr[type] = 1..Rounds(type) /\ Rounds(type) \in Nat
  BY DEF TypeOK, RequestTable, Rounds
<1>2. /\ DOMAIN rr'[type] = 1..Rounds(type) + 1
      /\ \A n \in 1..Rounds(type) : rr'[type][n] = rr[type][n]
      /\ rr'[type][Rounds(type) + 1] = row
      /\ \A other \in ReviewType : other # type => rr'[other] = rr[other]
  BY <1>1 DEF Rounds
<1>3. \A q : q \in Requests <=> \E t \in ReviewType : q \in {t} \X DOMAIN rr[t]
  BY DEF Requests
<1>4. \A q : q \in Requests' <=> \E t \in ReviewType : q \in {t} \X DOMAIN rr'[t]
  BY DEF Requests
<1>5. \A q \in Requests : q \in Requests' /\ Row(q)' = Row(q)
  BY <1>1, <1>2, <1>3, <1>4 DEF Row
<1>6. \A q \in Requests' : q \in Requests \/ q = <<type, Rounds(type) + 1>>
  BY <1>1, <1>2, <1>3, <1>4
<1>7. <<type, Rounds(type) + 1>> \in Requests' \ Requests
  BY <1>1, <1>2, <1>3, <1>4
<1> QED
  BY <1>2, <1>5, <1>6, <1>7

\* A review that starts changes its status alone.
LEMMA StartRow ==
  ASSUME TypeOK, NEW r \in Requests, ReviewStarted(r)
  PROVE  OnlyRow(r, [Row(r) EXCEPT !.status = "IN_PROGRESS"], rr')
<1> DEFINE row == [Row(r) EXCEPT !.status = "IN_PROGRESS"]
<1>1. row \in Request /\ row.input = Row(r).input
  BY RowOfRequest DEF Request, RequestStatus
<1>2. rr' = Put(r, row)
  BY RowOfRequest DEF ReviewStarted, Put, Row, TypeOK, RequestTable
<1> HIDE DEF row
<1>3. OnlyRow(r, row, rr')
  BY <1>1, <1>2, PutRow
<1> QED
  BY <1>3 DEF row

\* Ending the active request as "status" leaves no open request.
LEMMA EndAgrees ==
  ASSUME TypeOK, ActiveRequestAgrees, NEW r \in Requests, task.active = r,
         NEW status \in RequestStatus \ ActiveRequest,
         NEW verdict \in Verdict \cup {"NONE"},
         rr' = End(r, status, verdict),
         task'.active = NoRR, task'.state \notin UnderReview
  PROVE  ActiveRequestAgrees'
<1> DEFINE row == [Row(r) EXCEPT !.status = status, !.verdict = verdict, !.expired = FALSE]
<1>1. OnlyRow(r, row, rr')
  BY EndRow
<1>2. row.status = status
  BY RowOfRequest DEF Request
<1> HIDE DEF row
<1>3. /\ Requests' = Requests /\ Row(r)' = row
      /\ \A q \in Requests : q # r => Row(q)' = Row(q)
  BY <1>1, SameRequests
<1>4. \A q \in Requests : Row(q)'.status \notin ActiveRequest
  BY <1>2, <1>3 DEF ActiveRequestAgrees
<1>5. NoRR \notin Requests
  BY RowOfRequest
<1> QED
  BY <1>3, <1>4, <1>5 DEF ActiveRequestAgrees, UnderReview

\* The rows agree after a step of any kind.
LEMMA KindsAgree == ASSUME TypeOK, ActiveRequestAgrees, Kinds PROVE ActiveRequestAgrees'
<1>0. task \in TaskRow /\ NoRR \notin Requests
  BY RowOfRequest DEF TypeOK
<1>1. CASE Quiet
  <2>1. Requests' = Requests /\ \A q \in Requests : Row(q)' = Row(q)
    BY <1>1 DEF Quiet, Requests, Row
  <2>2. task.active # NoRR => task.state \in UnderReview /\ task'.state = task.state
    BY <1>1 DEF Quiet, ActiveRequestAgrees, ReviewState, UnderReview, PlanUnderReview,
                FinalUnderReview
  <2>3. task.active # NoRR => ReviewState(task.active)' = ReviewState(task.active)
    BY <1>1 DEF Quiet, ReviewState, Row
  <2> QED
    BY <1>1, <2>1, <2>2, <2>3 DEF Quiet, ActiveRequestAgrees, UnderReview
<1>2. CASE Ends
  <2>1. PICK status \in {"FAILED", "TIMED_OUT", "ESCALATED"} : rr' = Stop(status)
    BY <1>2 DEF Ends
  <2>2. CASE task.active = NoRR
    <3>1. rr' = rr
      BY <1>0, <2>1, <2>2 DEF Stop
    <3> QED
      BY <1>0, <1>2, <2>2, <3>1 DEF Ends, ActiveRequestAgrees, Requests, Row, UnderReview
  <2>3. CASE task.active # NoRR
    <3>1. PICK r \in Requests : task.active = r /\ Row(r).status \in ActiveRequest
      BY <2>3 DEF ActiveRequestAgrees
    <3>2. rr' = End(r, status, "NONE")
      BY <2>1, <3>1 DEF Stop
    <3>3. status \in RequestStatus \ ActiveRequest
      BY DEF RequestStatus, ActiveRequest
    <3> QED
      BY <1>2, <3>1, <3>2, <3>3, EndAgrees DEF Ends
  <2> QED
    BY <2>2, <2>3
<1>3. CASE Completes
  <2>1. PICK r \in Requests, result \in Result : ReviewCompleted(r, result)
    BY <1>3 DEF Completes
  <2>2. /\ task.active = r /\ \E verdict \in Verdict : rr' = End(r, "COMPLETED", verdict)
        /\ task'.active = NoRR /\ task'.state \notin UnderReview
    BY <2>1, Completion
  <2> QED
    BY <2>2, EndAgrees DEF RequestStatus, ActiveRequest
<1>4. CASE Expires
  <2>1. PICK r \in Requests : task.active = r
    BY <1>4 DEF Expires
  <2> DEFINE row == [Row(r) EXCEPT !.expired = TRUE]
  <2>2. OnlyRow(r, row, rr')
    BY <1>4, <2>1, ExpireRow DEF Expires
  <2>3. row.status = Row(r).status
    BY RowOfRequest DEF Request
  <2> HIDE DEF row
  <2>4. /\ Requests' = Requests
        /\ \A q \in Requests : Row(q)'.status = Row(q).status
    BY <2>2, <2>3, SameRequests
  <2>5. task'.active = r /\ task'.state = task.state
    BY <1>4, <2>1 DEF Expires
  <2>6. task'.state = ReviewState(r)
    BY <1>0, <2>1, <2>5 DEF ActiveRequestAgrees
  <2>7. ReviewState(r)' = ReviewState(r)
    BY <2>4 DEF ReviewState
  <2> QED
    BY <1>0, <2>1, <2>4, <2>5, <2>6, <2>7 DEF ActiveRequestAgrees
<1>5. CASE Asks
  <2>1. PICK type \in ReviewType : RequestReview(type)
    BY <1>5 DEF Asks
  <2>0. PICK n : n = Rounds(type) + 1
    OBVIOUS
  <2> DEFINE new == <<type, n>>
             row == [status |-> "PENDING", input |-> Input(type), rev |-> task.rev,
                     limit |-> task.limit[type], verdict |-> "NONE", expired |-> FALSE]
  <2>2. task.active = NoRR /\ task'.active = new
        /\ task'.state = MoveTo(IF type = "PLAN_REVIEW" THEN "request_plan"
                                ELSE "request_final")
        /\ rr' = [rr EXCEPT ![type] = Append(rr[type], row)]
    BY <1>0, <2>0, <2>1 DEF RequestReview, MayRequest, TaskRow
  <2>3. /\ \A q \in Requests : q \in Requests' /\ Row(q)' = Row(q)
        /\ \A q \in Requests' : q \in Requests \/ q = new
        /\ new \in Requests' /\ new \notin Requests
        /\ rr'[type][n] = row
    BY <2>0, <2>2, AppendedRow
  <2>4. Row(new)' = row
    BY <2>3 DEF Row
  <2>5. \A q \in Requests : Row(q).status \notin ActiveRequest
    BY <1>0, <2>2 DEF ActiveRequestAgrees
  <2>6. task'.state = ReviewState(new)'
    BY <2>2, <2>4, Moves DEF ReviewState
  <2>7. row.status \in ActiveRequest
    BY DEF ActiveRequest
  <2>8. new # NoRR
    BY DEF NoRR, ReviewType
  <2> HIDE DEF new, row
  <2> QED
    BY <2>2, <2>3, <2>4, <2>5, <2>6, <2>7, <2>8 DEF ActiveRequestAgrees
<1>6. CASE Starts
  <2>1. PICK r \in Requests : ReviewStarted(r)
    BY <1>6 DEF Starts
  <2>2. task.active = r /\ task'.active = r
    BY <1>0, <2>1 DEF ReviewStarted, Current, TaskRow
  <2> DEFINE row == [Row(r) EXCEPT !.status = "IN_PROGRESS"]
  <2>3. OnlyRow(r, row, rr')
    BY <2>1, StartRow
  <2>4. row.status = "IN_PROGRESS"
    BY RowOfRequest DEF Request
  <2> HIDE DEF row
  <2>5. /\ Requests' = Requests /\ Row(r)'.status = "IN_PROGRESS"
        /\ \A q \in Requests : q # r => Row(q)' = Row(q)
    BY <2>3, <2>4, SameRequests
  <2>6. task'.state = MoveTo(IF r[1] = "PLAN_REVIEW" THEN "plan_started" ELSE "final_started")
    BY <1>0, <2>1 DEF ReviewStarted, TaskRow
  <2>7. task'.state = ReviewState(r)'
    BY <2>5, <2>6, Moves DEF ReviewState
  <2> QED
    BY <1>0, <2>2, <2>5, <2>7 DEF ActiveRequestAgrees, ActiveRequest
<1> QED
  BY <1>1, <1>2, <1>3, <1>4, <1>5, <1>6 DEF Kinds

(***************************************************************************)
(* The inductive invariant: with the types, that an open action holds the  *)
(* Task and that the rows agree.  Each needs the other: a decision on an   *)
(* action must not meet an open request, whose end it would forget, and a  *)
(* result must not meet an open action.                                    *)
(***************************************************************************)
Agreement == TypeOK /\ OpenActionHoldsTask /\ ActiveRequestAgrees

\* Agreement is inductive.
LEMMA AgreementInductive == Agreement /\ [Next]_vars => Agreement'
<1> SUFFICES ASSUME Agreement, [Next]_vars PROVE Agreement'
  OBVIOUS
<1>1. CASE Next
  BY <1>1, TypeStep, ActionStep, StepKinds, KindsAgree DEF Agreement
<1>2. CASE UNCHANGED vars
  BY <1>2 DEF vars, Agreement, TypeOK, OpenActionHoldsTask, ActionsClosed, OpenApproval,
              ActiveRequestAgrees, Requests, Row, ReviewState
<1> QED
  BY <1>1, <1>2

\* Agreement holds in every state the Task can reach.
LEMMA AgreementHolds == Spec => []Agreement
<1>1. Init => OpenActionHoldsTask
  BY DEF Init, OpenActionHoldsTask, ActionsClosed, ClosedAction
<1>2. Init => ActiveRequestAgrees
  BY DEF Init, ActiveRequestAgrees, Requests, PlanUnderReview, FinalUnderReview
<1>3. Init => Agreement
  BY <1>1, <1>2, TypeInit DEF Agreement
<1> QED
  BY <1>3, AgreementInductive, PTL DEF Spec

(***************************************************************************)
(* A high-risk action that is not closed holds the Task: whatever happens, *)
(* nothing is planned, self-tested or reviewed until it is.                *)
(***************************************************************************)
THEOREM ActionsHold == Spec => []OpenActionHoldsTask
<1>1. Agreement => OpenActionHoldsTask
  BY DEF Agreement
<1> QED
  BY <1>1, AgreementHolds, PTL

(***************************************************************************)
(* The Task row names an open request exactly while it is open, in the     *)
(* state that belongs to it, however results, failures, time-outs and      *)
(* Human decisions interleave.                                             *)
(***************************************************************************)
THEOREM RowsAgree == Spec => []ActiveRequestAgrees
<1>1. Agreement => ActiveRequestAgrees
  BY DEF Agreement
<1> QED
  BY <1>1, AgreementHolds, PTL

-----------------------------------------------------------------------------
(***************************************************************************)
(* Review history.                                                         *)
(***************************************************************************)
\* Only a request for a review is a further round.
LEMMA OtherKindsRounds ==
  ASSUME TypeOK, Kinds, ~Asks, NEW type \in ReviewType
  PROVE  Rounds(type)' = Rounds(type)
<1>1. CASE Quiet
  BY <1>1 DEF Quiet, Rounds
<1>2. CASE Ends
  BY <1>2, StopType DEF Ends, Rounds, RequestStatus
<1>3. CASE Completes
  <2>1. PICK r \in Requests, verdict \in Verdict : rr' = End(r, "COMPLETED", verdict)
    BY <1>3, Completion DEF Completes
  <2>2. "COMPLETED" \in RequestStatus
    BY DEF RequestStatus
  <2>3. PICK row : OnlyRow(r, row, rr')
    BY <2>1, <2>2, EndRow
  <2> QED
    BY <2>3 DEF OnlyRow, Rounds
<1>4. CASE Expires
  BY <1>4, ExpireRow DEF Expires, OnlyRow, Rounds
<1>5. CASE Starts
  BY <1>5, StartRow DEF Starts, OnlyRow, Rounds
<1> QED
  BY <1>1, <1>2, <1>3, <1>4, <1>5 DEF Kinds

\* What a step does to the number of rounds.
LEMMA KindsRounds ==
  ASSUME TypeOK, Kinds, NEW type \in ReviewType
  PROVE  \/ Rounds(type)' = Rounds(type)
         \/ WithinLimit(type) /\ Rounds(type)' = Rounds(type) + 1
<1>1. CASE Asks
  <2>1. PICK asked \in ReviewType : RequestReview(asked)
    BY <1>1 DEF Asks
  <2> DEFINE row == [status |-> "PENDING", input |-> Input(asked), rev |-> task.rev,
                     limit |-> task.limit[asked], verdict |-> "NONE", expired |-> FALSE]
  <2>2. rr' = [rr EXCEPT ![asked] = Append(rr[asked], row)] /\ WithinLimit(asked)
    BY <2>1 DEF RequestReview
  <2>3. rr \in [ReviewType -> Seq(Request)]
    BY DEF TypeOK, RequestTable
  <2> HIDE DEF row
  <2> QED
    BY <2>2, <2>3 DEF Rounds
<1> QED
  BY <1>1, OtherKindsRounds

(***************************************************************************)
(* The absolute cap on rounds, for every number of findings, plans and     *)
(* revisions: no sequence of resumes, re-plans and gate decisions buys a   *)
(* third round of either type.                                             *)
(***************************************************************************)
THEOREM RoundsAreCapped == Spec => []NoThirdRound
<1>1. Init => NoThirdRound
  BY DEF Init, NoThirdRound, Rounds, V1_LIMIT
<1>2. Agreement /\ NoThirdRound /\ [Next]_vars => NoThirdRound'
  <2> SUFFICES ASSUME Agreement, NoThirdRound, [Next]_vars, NEW type \in ReviewType
               PROVE  Rounds(type)' <= V1_LIMIT
    BY DEF NoThirdRound
  <2>1. task.limit[type] \in 1..V1_LIMIT /\ Rounds(type) \in Nat
    BY DEF Agreement, TypeOK, TaskRow, RequestTable, Rounds
  <2>2. CASE Next
    <3>1. \/ Rounds(type)' = Rounds(type)
          \/ WithinLimit(type) /\ Rounds(type)' = Rounds(type) + 1
      BY <2>2, StepKinds, KindsRounds DEF Agreement
    <3> QED
      BY <2>1, <3>1 DEF NoThirdRound, WithinLimit, V1_LIMIT
  <2>3. CASE UNCHANGED vars
    BY <2>3 DEF vars, Rounds, NoThirdRound
  <2> QED
    BY <2>2, <2>3
<1> QED
  BY <1>1, <1>2, AgreementHolds, PTL DEF Spec

\* What HistoryIsImmutable asks of one request.
Kept(r) == /\ r[2] \in DOMAIN rr'[r[1]]
           /\ LET next == rr'[r[1]][r[2]]
              IN  /\ next.input = Row(r).input /\ next.rev = Row(r).rev
                  /\ Row(r).status \notin ActiveRequest => next = Row(r)

\* A request keeps its row, or is the open one and keeps its input.
LEMMA OnlyRowKept ==
  ASSUME TypeOK, NEW q \in Requests, NEW row, OnlyRow(q, row, rr'), NEW r \in Requests,
         Row(q).status \in ActiveRequest,
         row.input = Row(q).input, row.rev = Row(q).rev
  PROVE  Kept(r)
<1>1. r[1] \in ReviewType /\ r[2] \in DOMAIN rr[r[1]]
  BY RowOfRequest DEF TypeOK, RequestTable
<1>2. r[2] \in DOMAIN rr'[r[1]]
  BY <1>1 DEF OnlyRow
<1>3. r # q => rr'[r[1]][r[2]] = Row(r)
  BY DEF OnlyRow
<1>4. rr'[q[1]][q[2]] = row
  BY DEF OnlyRow
<1> QED
  BY <1>2, <1>3, <1>4 DEF Kept

\* No kind of step rewrites a request that was made.
LEMMA KindsKeep ==
  ASSUME TypeOK, ActiveRequestAgrees, Kinds, NEW r \in Requests
  PROVE  Kept(r)
<1>0. r[1] \in ReviewType /\ r[2] \in DOMAIN rr[r[1]]
  BY RowOfRequest DEF TypeOK, RequestTable
<1>1. CASE rr' = rr
  BY <1>0, <1>1 DEF Kept, Row
<1>2. ASSUME NEW q \in Requests, Row(q).status \in ActiveRequest,
             NEW status \in RequestStatus, NEW verdict \in Verdict \cup {"NONE"},
             rr' = End(q, status, verdict)
      PROVE  Kept(r)
  <2> DEFINE row == [Row(q) EXCEPT !.status = status, !.verdict = verdict, !.expired = FALSE]
  <2>1. OnlyRow(q, row, rr')
    BY <1>2, EndRow
  <2>2. row.input = Row(q).input /\ row.rev = Row(q).rev
    BY RowOfRequest DEF Request
  <2> HIDE DEF row
  <2> QED
    BY <1>2, <2>1, <2>2, OnlyRowKept
<1>3. CASE Ends
  <2>1. PICK status \in {"FAILED", "TIMED_OUT", "ESCALATED"} : rr' = Stop(status)
    BY <1>3 DEF Ends
  <2>2. status \in RequestStatus
    BY DEF RequestStatus
  <2>3. CASE task.active \in Requests /\ Row(task.active).status \in ActiveRequest
    <3>1. PICK q \in Requests : q = task.active
      BY <2>3
    <3> QED
      BY <1>2, <2>1, <2>2, <2>3, <3>1 DEF Stop
  <2>4. CASE ~(task.active \in Requests /\ Row(task.active).status \in ActiveRequest)
    BY <1>1, <2>1, <2>4 DEF Stop
  <2> QED
    BY <2>3, <2>4
<1>4. CASE Completes
  <2>1. PICK q \in Requests, verdict \in Verdict :
          Row(q).status \in ActiveRequest /\ rr' = End(q, "COMPLETED", verdict)
    BY <1>4, Completion DEF Completes
  <2> QED
    BY <1>2, <2>1 DEF RequestStatus
<1>5. CASE Expires
  <2>1. PICK q \in Requests : q = task.active
    BY <1>5 DEF Expires
  <2> DEFINE row == [Row(q) EXCEPT !.expired = TRUE]
  <2>2. OnlyRow(q, row, rr')
    BY <1>5, <2>1, ExpireRow DEF Expires
  <2>3. row.input = Row(q).input /\ row.rev = Row(q).rev
    BY RowOfRequest DEF Request
  <2>4. Row(q).status \in ActiveRequest
    BY <2>1 DEF ActiveRequestAgrees
  <2> HIDE DEF row
  <2> QED
    BY <2>2, <2>3, <2>4, OnlyRowKept
<1>6. CASE Asks
  <2>1. PICK type \in ReviewType : RequestReview(type)
    BY <1>6 DEF Asks
  <2> DEFINE row == [status |-> "PENDING", input |-> Input(type), rev |-> task.rev,
                     limit |-> task.limit[type], verdict |-> "NONE", expired |-> FALSE]
  <2>2. rr' = [rr EXCEPT ![type] = Append(rr[type], row)]
    BY <2>1 DEF RequestReview
  <2> HIDE DEF row
  <2>3. r \in Requests' /\ Row(r)' = Row(r)
    BY <2>2, AppendedRow
  <2>4. r[2] \in DOMAIN rr'[r[1]]
    BY <2>3 DEF Requests
  <2> QED
    BY <2>3, <2>4 DEF Kept, Row
<1>7. CASE Starts
  <2>1. PICK q \in Requests : ReviewStarted(q)
    BY <1>7 DEF Starts
  <2> DEFINE row == [Row(q) EXCEPT !.status = "IN_PROGRESS"]
  <2>2. OnlyRow(q, row, rr')
    BY <2>1, StartRow
  <2>3. row.input = Row(q).input /\ row.rev = Row(q).rev
    BY RowOfRequest DEF Request
  <2>4. Row(q).status \in ActiveRequest
    BY <2>1 DEF ReviewStarted, ActiveRequest
  <2> HIDE DEF row
  <2> QED
    BY <2>2, <2>3, <2>4, OnlyRowKept
<1> QED
  BY <1>1, <1>3, <1>4, <1>5, <1>6, <1>7 DEF Kinds, Quiet

(***************************************************************************)
(* Review history is append-only, in every behaviour: a late, repeated or  *)
(* overtaken event cannot rewrite the input or the outcome of a review.    *)
(***************************************************************************)
THEOREM HistoryStays == Spec => HistoryIsImmutable
<1> DEFINE Keeps == \A r \in Requests : Kept(r)
<1>1. Agreement /\ [Next]_vars => [Keeps]_vars
  <2> SUFFICES ASSUME Agreement, [Next]_vars PROVE [Keeps]_vars
    OBVIOUS
  <2>1. CASE Next
    BY <2>1, StepKinds, KindsKeep DEF Agreement
  <2>2. CASE UNCHANGED vars
    BY <2>2
  <2> QED
    BY <2>1, <2>2
<1>2. HistoryIsImmutable <=> [][Keeps]_vars
  BY PTL DEF HistoryIsImmutable, Kept
<1> QED
  BY <1>1, <1>2, AgreementHolds, PTL DEF Spec

-----------------------------------------------------------------------------
(***************************************************************************)
(* Frozen exactly at a gate.                                               *)
(***************************************************************************)
\* A gate freezes, an escalation of a Task that is not frozen does not.
LEMMA GateFreezes ==
  ASSUME TypeOK, FrozenExactlyAtGate, NEW status,
         FailureGate(status) \/ Abort \/ (Escalate /\ ~task.frozen)
  PROVE  FrozenExactlyAtGate'
<1>1. task \in TaskRow
  BY DEF TypeOK
<1>2. CASE FailureGate(status)
  <2>1. task'.state \in HumanGate
    BY <1>1, <1>2, Moves DEF FailureGate, TaskRow, HumanGate
  <2> QED
    BY <1>1, <1>2, <2>1 DEF FailureGate, FrozenExactlyAtGate, TaskRow
<1>3. CASE Abort
  <2>1. task'.state = "CANCELLED" /\ task'.active = NoRR
    BY <1>1, <1>3, Moves DEF Abort, TaskRow
  <2> QED
    BY <2>1 DEF FrozenExactlyAtGate, HumanGate
<1>4. CASE Escalate /\ ~task.frozen
  <2>1. task'.state = "ESCALATED" /\ ~task'.frozen
    BY <1>1, <1>4, Moves DEF Escalate, TaskRow
  <2> QED
    BY <2>1 DEF FrozenExactlyAtGate, HumanGate
<1> QED
  BY <1>2, <1>3, <1>4

\* A step that leaves "frozen" and the active request as they are, outside the gates.
LEMMA StaysThawed ==
  ASSUME FrozenExactlyAtGate, ~task.frozen, ~task'.frozen, task'.state \notin HumanGate
  PROVE  FrozenExactlyAtGate'
BY DEF FrozenExactlyAtGate

\* The Builder can freeze the Task no way but at a gate.
LEMMA BuilderFreezes == ASSUME TypeOK, FrozenExactlyAtGate, Builder PROVE FrozenExactlyAtGate'
<1>0. /\ task \in TaskRow
      /\ task.state \notin HumanGate \cup {"CANCELLED"} => ~task.frozen
  BY DEF TypeOK, FrozenExactlyAtGate
<1> USE DEF HumanGate
<1>1. CASE BeginPlan \/ Execute \/ SelfTestFailed \/ RequestAction
  BY <1>0, <1>1, StaysThawed, Moves, Sources
     DEF BeginPlan, Execute, SelfTestFailed, RequestAction, TaskRow
<1>2. ASSUME NEW plan \in Plans, SubmitPlan(plan) PROVE FrozenExactlyAtGate'
  BY <1>0, <1>2, StaysThawed DEF SubmitPlan, TaskRow
<1>3. ASSUME NEW type \in ReviewType, RequestReview(type) PROVE FrozenExactlyAtGate'
  <2>1. ~task.frozen
    BY <1>0, <1>3 DEF RequestReview, MayRequest
  <2>2. ~task'.frozen /\ task'.state \notin HumanGate
    BY <1>0, <1>3, <2>1, Moves DEF RequestReview, TaskRow
  <2> QED
    BY <2>1, <2>2, StaysThawed
<1>4. ASSUME NEW type \in ReviewType, RequestBeyondLimit(type) PROVE FrozenExactlyAtGate'
  <2>1. ~task.frozen
    BY <1>0, <1>4 DEF RequestBeyondLimit, MayRequest
  <2> QED
    BY <1>4, <2>1, GateFreezes DEF RequestBeyondLimit
<1>5. ASSUME NEW f \in Findings, NEW action \in {"accept", "reject", "fix"},
             RespondFinding(f, action)
      PROVE  FrozenExactlyAtGate'
  BY <1>5 DEF RespondFinding, FrozenExactlyAtGate
<1>6. ASSUME NEW fixes \in SUBSET Findings, NEW within \in BOOLEAN,
             BeginFinalFix(fixes, within)
      PROVE  FrozenExactlyAtGate'
  <2>1. ~task.frozen
    BY <1>0, <1>6 DEF BeginFinalFix
  <2>2. ~task'.frozen /\ task'.state \notin HumanGate
    BY <1>0, <1>6, <2>1, Moves DEF BeginFinalFix, TaskRow
  <2> QED
    BY <2>1, <2>2, StaysThawed
<1>7. ASSUME NEW passed \in BOOLEAN, SelfTest(passed) PROVE FrozenExactlyAtGate'
  <2>1. ~task.frozen
    BY <1>0, <1>7, Sources DEF SelfTest
  <2>2. ~task'.frozen /\ task'.state \notin HumanGate
    BY <1>0, <1>7, <2>1, Moves DEF SelfTest, Tested, TaskRow
  <2> QED
    BY <2>1, <2>2, StaysThawed
<1>8. CASE SubmitFinalPackage \/ ConsumeAction
  BY <1>0, <1>8 DEF SubmitFinalPackage, ConsumeAction, TaskRow, FrozenExactlyAtGate
<1> QED
  BY <1>1, <1>2, <1>3, <1>4, <1>5, <1>6, <1>7, <1>8 DEF Builder

\* A Reviewer event freezes the Task exactly when it leads to a gate.
LEMMA ReviewerFreezes == ASSUME TypeOK, FrozenExactlyAtGate, Reviewer PROVE FrozenExactlyAtGate'
<1>0. task \in TaskRow
  BY DEF TypeOK
<1> SUFFICES ASSUME NEW r \in Requests,
                    \/ EventPastDeadline(r) \/ ReviewStarted(r) \/ ReviewFailed(r)
                    \/ \E result \in Result : ReviewCompleted(r, result)
             PROVE  FrozenExactlyAtGate'
  BY DEF Reviewer
<1>1. CASE EventPastDeadline(r) \/ ReviewFailed(r)
  BY <1>1, GateFreezes DEF EventPastDeadline, ReviewFailed
<1>2. CASE ReviewStarted(r)
  <2>1. ~task.frozen
    BY <1>2 DEF ReviewStarted, Current, Accepted
  <2>2. ~task'.frozen /\ task'.state \notin HumanGate
    BY <1>0, <1>2, <2>1, Moves DEF ReviewStarted, TaskRow, HumanGate
  <2> QED
    BY <2>1, <2>2, StaysThawed
<1>3. ASSUME NEW result \in Result, ReviewCompleted(r, result) PROVE FrozenExactlyAtGate'
  <2>1. PICK verdict, open : task' = Decided(r, verdict, open)
    BY <1>3 DEF ReviewCompleted
  <2>2. ~task.frozen
    BY <1>3 DEF ReviewCompleted, Current, Accepted
  <2>3. task'.active = NoRR
    BY <1>0, <2>1 DEF Decided, Settled, TaskRow
  <2>4. task'.frozen <=> task'.state \in HumanGate
    BY <1>0, <2>1, <2>2, Moves DEF Decided, Settled, TaskRow, HumanGate
  <2> QED
    BY <2>3, <2>4 DEF FrozenExactlyAtGate
<1> QED
  BY <1>1, <1>2, <1>3

\* Human decisions thaw the Task when it leaves a gate, and an abort freezes it.
LEMMA HumanFreezes ==
  ASSUME TypeOK, OpenActionHoldsTask, FrozenExactlyAtGate, Human
  PROVE  FrozenExactlyAtGate'
<1>0. /\ task \in TaskRow
      /\ task.state \notin HumanGate \cup {"CANCELLED"} => ~task.frozen
  BY DEF TypeOK, FrozenExactlyAtGate
<1>1. ASSUME NEW event \in {"approve_action", "reject_replan", "cancel"}, DecideAction(event)
      PROVE  FrozenExactlyAtGate'
  <2>1. task.state = "AWAITING_HUMAN_APPROVAL"
    BY <1>1 DEF DecideAction, Live, Terminal, OpenActionHoldsTask, ActionsClosed, ClosedAction
  <2>2. ~task.frozen
    BY <1>0, <2>1 DEF HumanGate
  <2>3. ~task'.frozen /\ task'.state \notin HumanGate
    BY <1>0, <1>1, <2>2, Moves DEF DecideAction, TaskRow, HumanGate
  <2> QED
    BY <2>2, <2>3, StaysThawed
<1>2. CASE WithdrawAction \/ \E f \in Findings : WaiveFinding(f)
  BY <1>2 DEF WithdrawAction, WaiveFinding, FrozenExactlyAtGate
<1>3. CASE Cancel \/ GateAbort
  BY <1>3, GateFreezes DEF Cancel, GateAbort
<1>4. CASE GateAccept
  BY <1>0, <1>4, Moves DEF GateAccept, TaskRow, FrozenExactlyAtGate, HumanGate
<1>5. ASSUME NEW type \in ReviewType, NEW limit \in 1..V1_LIMIT + 1, Resume(type, limit)
      PROVE  FrozenExactlyAtGate'
  <2>1. ~task.frozen
    BY <1>0, <1>5, Sources DEF Resume, HumanGate
  <2>2. ~task'.frozen /\ task'.state \notin HumanGate
    BY <1>0, <1>5, <2>1, Moves DEF Resume, TaskRow, HumanGate
  <2> QED
    BY <2>1, <2>2, StaysThawed
<1>6. CASE OverrideFinal
  <2>1. ~task.frozen
    BY <1>0, <1>6, Sources DEF OverrideFinal, HumanGate, FinalUnderReview
  <2>2. ~task'.frozen /\ task'.state \notin HumanGate
    BY <1>0, <1>6, <2>1, Moves DEF OverrideFinal, TaskRow, HumanGate
  <2> QED
    BY <2>1, <2>2, StaysThawed
<1>7. Reopened \in TaskRow /\ ~Reopened.frozen
  BY <1>0, ReopenedType DEF Reopened, TaskRow
<1>8. ASSUME NEW gate \in HumanGate, NEW selected \in SUBSET Findings, NEW within \in BOOLEAN,
             GateModify(gate, selected, within)
      PROVE  FrozenExactlyAtGate'
  BY <1>7, <1>8, Moves DEF GateModify, TaskRow, FrozenExactlyAtGate, HumanGate
<1>9. ASSUME NEW gate \in HumanGate, GateContinue(gate) PROVE FrozenExactlyAtGate'
  BY <1>7, <1>9, Moves DEF GateContinue, TaskRow, FrozenExactlyAtGate, HumanGate
<1> QED
  BY <1>1, <1>2, <1>3, <1>4, <1>5, <1>6, <1>8, <1>9 DEF Human

(***************************************************************************)
(* Automation is frozen exactly while the Task waits at a Human Gate, and  *)
(* after an abort: no way into a gate forgets to freeze, no way out leaves *)
(* the Task frozen, and nothing is in flight while it waits.               *)
(***************************************************************************)
THEOREM FrozenAtGate == Spec => []FrozenExactlyAtGate
<1>1. Init => FrozenExactlyAtGate
  BY DEF Init, FrozenExactlyAtGate, HumanGate
<1>2. Agreement /\ FrozenExactlyAtGate /\ [Next]_vars => FrozenExactlyAtGate'
  <2> SUFFICES ASSUME Agreement, FrozenExactlyAtGate, [Next]_vars PROVE FrozenExactlyAtGate'
    OBVIOUS
  <2>0. task \in TaskRow
    BY DEF Agreement, TypeOK
  <2>1. CASE Worker \/ RecoverAssignment
    BY <2>1 DEF Worker, ClaimAssignment, CompleteAssignment, RecoverAssignment,
                FrozenExactlyAtGate
  <2>2. CASE Delivery \/ Sweep
    <3>1. CASE SweepApprovalExpiry
      BY <3>1, GateFreezes DEF SweepApprovalExpiry, Swept, Agreement
    <3> QED
      BY <2>2, <3>1, GateFreezes DEF Delivery, DispatchPastDeadline, DeliveryFailed, Sweep,
         SweepTaskTimeout, SweepReviewTimeout, Agreement
  <2>3. CASE Clock
    BY <2>0, <2>3 DEF Clock, TaskDeadline, ReviewDeadline, ApprovalDeadline, LeaseDeadline,
       TaskRow, FrozenExactlyAtGate
  <2>4. CASE UNCHANGED vars
    BY <2>4 DEF vars, FrozenExactlyAtGate
  <2> QED
    BY <2>1, <2>2, <2>3, <2>4, BuilderFreezes, ReviewerFreezes, HumanFreezes
       DEF Next, Agreement
<1> QED
  BY <1>1, <1>2, AgreementHolds, PTL DEF Spec

-----------------------------------------------------------------------------
(***************************************************************************)
(* What a review, an approval and a package are bound to: the content of   *)
(* the Task.  A step leaves it as it is, takes the approval back, tests,   *)
(* packs, or is a result of the Reviewer or its acceptance by the Human,   *)
(* which alone give the Task a completion basis.                           *)
(***************************************************************************)
SameContent ==
  /\ task'.rev = task.rev /\ task'.plan = task.plan
  /\ task'.approvedPlan = task.approvedPlan /\ task'.approvedScope = task.approvedScope
  /\ task'.final = task.final /\ task'.selfTest = task.selfTest

\* No way to code that was not open before, and no end without a package.
Leads ==
  /\ task'.state \in CodingStates =>
       \/ task.state \in CodingStates
       \/ task.approvedPlan # NoPlan \/ task.final # NoPackage
  /\ task'.state = "EXECUTING" => task.state \notin UnderReview
  /\ task'.state = "DONE" =>
       \/ task.state = "DONE"
       \/ task.final # NoPackage /\ task.state # "EXECUTING"

Stays == SameContent /\ task'.basis = task.basis /\ Leads

\* A new plan, or a re-plan: what was approved is no longer.
Unapproves ==
  /\ task'.approvedPlan = NoPlan /\ task'.final = NoPackage
  /\ task.active = NoRR /\ task'.active = NoRR /\ task'.basis = task.basis
  /\ task.state # "EXECUTING" /\ task'.state = "PLANNING"

\* A self-test is of a new revision, which has no package yet.
Tests ==
  /\ task.state = "EXECUTING" /\ task'.active = NoRR
  /\ task'.state \in {"EXECUTING", "SELF_TESTING"}
  /\ task'.plan = task.plan /\ task'.approvedPlan = task.approvedPlan
  /\ task'.approvedScope = task.approvedScope /\ task'.final = NoPackage
  /\ task'.basis = task.basis

\* A package is of the current revision.
Packs ==
  /\ task.state = "SELF_TESTING" /\ task.approvedPlan # NoPlan /\ task'.active = NoRR
  /\ task'.rev = task.rev /\ task'.plan = task.plan
  /\ task'.approvedPlan = task.approvedPlan /\ task'.approvedScope = task.approvedScope
  /\ task'.final[1] = task.rev /\ task'.final # NoPackage
  /\ task'.state = task.state /\ task'.basis = task.basis

ContentKinds == Stays \/ Unapproves \/ Tests \/ Packs \/ Completes \/ GateAccept

\* The failure gate, an escalation and an abort change no content.
LEMMA GivingUpStays ==
  ASSUME TypeOK, NEW status, FailureGate(status) \/ Escalate \/ Abort
  PROVE  Stays
<1>1. task \in TaskRow
  BY DEF TypeOK
<1> USE DEF UnderReview, PlanUnderReview, FinalUnderReview
<1>2. CASE FailureGate(status)
  <2>1. Leads
    BY <1>1, <1>2, Moves, Sources
       DEF FailureGate, TaskRow, CodingStates, Leads, FinalUnderReview
  <2> QED
    BY <1>1, <1>2, <2>1 DEF FailureGate, TaskRow, Stays, SameContent, Leads
<1>3. CASE Escalate \/ Abort
  BY <1>1, <1>3, Moves DEF Escalate, Abort, TaskRow, Stays, SameContent, Leads, CodingStates
<1> QED
  BY <1>2, <1>3

\* The Builder's steps are of these kinds.
LEMMA BuilderContent == ASSUME TypeOK, ActiveRequestAgrees, Builder PROVE ContentKinds
<1>0. task \in TaskRow
  BY DEF TypeOK
<1> USE DEF UnderReview, PlanUnderReview, FinalUnderReview
<1>1. CASE BeginPlan \/ Execute \/ SelfTestFailed \/ RequestAction
  BY <1>0, <1>1, Moves, Sources
     DEF BeginPlan, Execute, SelfTestFailed, RequestAction, TaskRow, Stays, SameContent, Leads,
         CodingStates, ContentKinds
<1>2. ASSUME NEW plan \in Plans, SubmitPlan(plan) PROVE ContentKinds
  BY <1>0, <1>2 DEF SubmitPlan, TaskRow, Unapproves, CodingStates, ContentKinds
<1>3. ASSUME NEW type \in ReviewType, RequestReview(type) PROVE ContentKinds
  <2>1. SameContent /\ task'.basis = task.basis
    BY <1>0, <1>3 DEF RequestReview, TaskRow, SameContent
  <2>2. Leads
    BY <1>0, <1>3, Moves DEF RequestReview, MayRequest, TaskRow, CodingStates, Leads, ReviewType
  <2> QED
    BY <2>1, <2>2 DEF Stays, ContentKinds
<1>4. ASSUME NEW type \in ReviewType, RequestBeyondLimit(type) PROVE ContentKinds
  BY <1>4, GivingUpStays DEF RequestBeyondLimit, ContentKinds
<1>5. ASSUME NEW f \in Findings, NEW action \in {"accept", "reject", "fix"},
             RespondFinding(f, action)
      PROVE  ContentKinds
  BY <1>5 DEF RespondFinding, Stays, SameContent, Leads, ContentKinds
<1>6. ASSUME NEW fixes \in SUBSET Findings, NEW within \in BOOLEAN,
             BeginFinalFix(fixes, within)
      PROVE  ContentKinds
  <2>1. task.active = NoRR
    BY <1>6 DEF BeginFinalFix, ActiveRequestAgrees, ReviewState
  <2> QED
    BY <1>0, <1>6, <2>1, Moves DEF BeginFinalFix, TaskRow, Stays, SameContent, Leads, Unapproves,
                                   CodingStates, ContentKinds
<1>7. ASSUME NEW passed \in BOOLEAN, SelfTest(passed) PROVE ContentKinds
  <2>1. task.state = "EXECUTING"
    BY <1>7, Sources DEF SelfTest
  <2>2. task.active = NoRR
    BY <2>1 DEF ActiveRequestAgrees, ReviewState
  <2> QED
    BY <1>0, <1>7, <2>1, <2>2, Moves DEF SelfTest, Tested, TaskRow, Tests, ContentKinds
<1>8. CASE SubmitFinalPackage
  <2>1. task.active = NoRR
    BY <1>8 DEF SubmitFinalPackage, ActiveRequestAgrees, ReviewState
  <2> DEFINE rank == IF task.final[1] = task.rev THEN task.final[2] + 1 ELSE 1
  <2>2. task.final \in Nat \X Nat
    BY <1>0 DEF TaskRow, Package
  <2>3. rank >= 1
    BY <2>2
  <2>4. task' = [task EXCEPT !.final = <<task.rev, rank>>]
    BY <1>8 DEF SubmitFinalPackage
  <2>5. <<task.rev, rank>> # NoPackage
    BY <2>3 DEF NoPackage
  <2> HIDE DEF rank
  <2> QED
    BY <1>0, <1>8, <2>1, <2>4, <2>5 DEF SubmitFinalPackage, TaskRow, Packs, ContentKinds
<1>9. CASE ConsumeAction
  BY <1>9 DEF ConsumeAction, Stays, SameContent, Leads, ContentKinds
<1> QED
  BY <1>1, <1>2, <1>3, <1>4, <1>5, <1>6, <1>7, <1>8, <1>9 DEF Builder

\* The Human's steps are of these kinds.
LEMMA HumanContent == ASSUME TypeOK, ActiveRequestAgrees, Human PROVE ContentKinds
<1>0. task \in TaskRow
  BY DEF TypeOK
<1> USE DEF UnderReview, PlanUnderReview, FinalUnderReview
<1>1. ASSUME NEW event \in {"approve_action", "reject_replan", "cancel"}, DecideAction(event)
      PROVE  ContentKinds
  <2>1. SameContent /\ task'.basis = task.basis
    BY <1>0, <1>1 DEF DecideAction, TaskRow, SameContent
  <2>2. Leads
    BY <1>0, <1>1, Moves, Sources DEF DecideAction, TaskRow, CodingStates, Leads
  <2> QED
    BY <2>1, <2>2 DEF Stays, ContentKinds
<1>2. CASE WithdrawAction \/ \E f \in Findings : WaiveFinding(f)
  BY <1>2 DEF WithdrawAction, WaiveFinding, Stays, SameContent, Leads, ContentKinds
<1>3. CASE Cancel \/ GateAbort
  BY <1>3, GivingUpStays DEF Cancel, GateAbort, ContentKinds
<1>4. CASE GateAccept \/ OverrideFinal
  <2>1. OverrideFinal => task.state # "EXECUTING"
    BY Sources DEF OverrideFinal
  <2> QED
    BY <1>0, <1>4, <2>1, Moves DEF OverrideFinal, TaskRow, Stays, SameContent, Leads,
                                   CodingStates, ContentKinds
<1>5. ASSUME NEW type \in ReviewType, NEW limit \in 1..V1_LIMIT + 1, Resume(type, limit)
      PROVE  ContentKinds
  <2>1. SameContent /\ task'.basis = task.basis
    BY <1>0, <1>5 DEF Resume, TaskRow, SameContent
  <2>2. Leads
    BY <1>0, <1>5, Moves, Sources DEF Resume, MayResume, TaskRow, CodingStates, Leads, ReviewType
  <2> QED
    BY <2>1, <2>2 DEF Stays, ContentKinds
<1>6. /\ Reopened.rev = task.rev /\ Reopened.plan = task.plan
      /\ Reopened.approvedPlan = task.approvedPlan
      /\ Reopened.approvedScope = task.approvedScope
      /\ Reopened.final = task.final /\ Reopened.selfTest = task.selfTest
      /\ Reopened.active = NoRR /\ Reopened.basis = task.basis /\ Reopened \in TaskRow
  BY <1>0, ReopenedType DEF Reopened, TaskRow
<1>7. ASSUME NEW gate \in HumanGate, NEW selected \in SUBSET Findings, NEW within \in BOOLEAN,
             GateModify(gate, selected, within)
      PROVE  ContentKinds
  <2>1. CASE within
    <3>1. SameContent /\ task'.basis = task.basis
      BY <1>6, <1>7, <2>1 DEF GateModify, TaskRow, SameContent
    <3>2. Leads
      BY <1>6, <1>7, <2>1, Moves DEF GateModify, AtGate, TaskRow, CodingStates, Leads
    <3> QED
      BY <3>1, <3>2 DEF Stays, ContentKinds
  <2>2. CASE ~within
    <3>1. task.active = NoRR
      BY <1>7 DEF GateModify, AtGate, HumanGate, ActiveRequestAgrees, ReviewState
    <3> QED
      BY <1>6, <1>7, <2>2, <3>1, Moves DEF GateModify, AtGate, TaskRow, Unapproves, ContentKinds
  <2> QED
    BY <2>1, <2>2
<1>8. ASSUME NEW gate \in HumanGate, GateContinue(gate) PROVE ContentKinds
  <2>1. SameContent /\ task'.basis = task.basis
    BY <1>6, <1>8 DEF GateContinue, TaskRow, SameContent
  <2>2. Leads
    BY <1>6, <1>8, Moves DEF GateContinue, AtGate, TaskRow, CodingStates, Leads
  <2> QED
    BY <2>1, <2>2 DEF Stays, ContentKinds
<1> QED
  BY <1>1, <1>2, <1>3, <1>4, <1>5, <1>7, <1>8 DEF Human

\* Every step is of one of these kinds.
LEMMA StepContent == ASSUME TypeOK, ActiveRequestAgrees, Next PROVE ContentKinds
<1>0. task \in TaskRow
  BY DEF TypeOK
<1> USE DEF UnderReview, PlanUnderReview, FinalUnderReview
<1>1. CASE Worker \/ RecoverAssignment
  BY <1>1 DEF Worker, ClaimAssignment, CompleteAssignment, RecoverAssignment, Stays,
              SameContent, Leads, ContentKinds
<1>2. CASE Delivery \/ Sweep
  BY <1>2, GivingUpStays DEF Delivery, DispatchPastDeadline, DeliveryFailed, Sweep,
     SweepTaskTimeout, SweepReviewTimeout, SweepApprovalExpiry, ContentKinds
<1>3. CASE Clock
  BY <1>0, <1>3 DEF Clock, TaskDeadline, ReviewDeadline, ApprovalDeadline, LeaseDeadline,
     TaskRow, Stays, SameContent, Leads, ContentKinds
<1>4. CASE Reviewer
  <2> SUFFICES ASSUME NEW r \in Requests,
                      EventPastDeadline(r) \/ ReviewStarted(r) \/ ReviewFailed(r)
               PROVE  ContentKinds
    BY <1>4 DEF Reviewer, Completes, ContentKinds
  <2>1. CASE EventPastDeadline(r) \/ ReviewFailed(r)
    BY <2>1, GivingUpStays DEF EventPastDeadline, ReviewFailed, ContentKinds
  <2>2. CASE ReviewStarted(r)
    <3>1. SameContent /\ task'.basis = task.basis
      BY <1>0, <2>2 DEF ReviewStarted, TaskRow, SameContent
    <3>2. Leads
      BY <1>0, <2>2, Moves, Sources DEF ReviewStarted, TaskRow, CodingStates, Leads
    <3> QED
      BY <3>1, <3>2 DEF Stays, ContentKinds
  <2> QED
    BY <2>1, <2>2
<1> QED
  BY <1>1, <1>2, <1>3, <1>4, BuilderContent, HumanContent DEF Next

\* A completed Plan review of this plan passed.
PassedPlan(plan) ==
  \E n \in DOMAIN rr["PLAN_REVIEW"] :
    LET row == rr["PLAN_REVIEW"][n]
    IN  row.status = "COMPLETED" /\ row.verdict = "PASS" /\ row.input = plan

(***************************************************************************)
(* The inductive invariant behind the two theorems that follow.  That the  *)
(* reviewed input is current is what makes an approval one of the current  *)
(* plan, and that an approval outlives every state in which no coding is   *)
(* allowed (a Task may be blocked, escalated or sent back to planning with *)
(* it) is why the approval, and not the state, has to carry the PASS.      *)
(***************************************************************************)
Founded ==
  /\ ReviewedInputIsCurrent
  /\ task.approvedPlan # NoPlan =>
       /\ task.approvedPlan = task.plan /\ task.approvedScope = task.plan
       /\ PassedPlan(task.plan)
  /\ task.state \in CodingStates => task.approvedPlan # NoPlan
  /\ task.final # NoPackage => task.approvedPlan # NoPlan /\ task.final[1] = task.rev

\* A PASS, once given, stays on record.
LEMMA PassedStays ==
  ASSUME TypeOK, ActiveRequestAgrees, Kinds, NEW plan, PassedPlan(plan)
  PROVE  PassedPlan(plan)'
<1>1. PICK n \in DOMAIN rr["PLAN_REVIEW"] :
        /\ rr["PLAN_REVIEW"][n].status = "COMPLETED"
        /\ rr["PLAN_REVIEW"][n].verdict = "PASS"
        /\ rr["PLAN_REVIEW"][n].input = plan
  BY DEF PassedPlan
<1>2. PICK r \in Requests : r = <<"PLAN_REVIEW", n>>
  <2>1. "PLAN_REVIEW" \in ReviewType
    BY DEF ReviewType
  <2>2. <<"PLAN_REVIEW", n>> \in {"PLAN_REVIEW"} \X DOMAIN rr["PLAN_REVIEW"]
    OBVIOUS
  <2> QED
    BY <2>1, <2>2 DEF Requests
<1>3. Row(r).status \notin ActiveRequest
  BY <1>1, <1>2 DEF Row, ActiveRequest
<1>4. n \in DOMAIN rr'["PLAN_REVIEW"] /\ rr'["PLAN_REVIEW"][n] = rr["PLAN_REVIEW"][n]
  BY <1>2, <1>3, KindsKeep DEF Kept, Row
<1> QED
  BY <1>1, <1>4 DEF PassedPlan

\* A review that goes on, goes on about the same input.
LEMMA SameReview ==
  ASSUME Agreement, Agreement', Next, task'.active # NoRR, ~Asks
  PROVE  /\ task.active = task'.active /\ task.active \in Requests
         /\ Row(task.active)'.input = Row(task.active).input
         /\ Row(task.active)'.rev = Row(task.active).rev
<1>0. task \in TaskRow /\ Kinds
  BY StepKinds DEF Agreement, TypeOK
<1>1. task'.active = task.active
  <2>1. CASE Quiet \/ Expires
    BY <2>1 DEF Quiet, Expires
  <2>2. CASE Ends
    BY <2>2 DEF Ends
  <2>3. CASE Completes
    BY <2>3, Completion DEF Completes, Agreement
  <2>4. CASE Starts
    BY <1>0, <2>4 DEF Starts, ReviewStarted, TaskRow
  <2> QED
    BY <1>0, <2>1, <2>2, <2>3, <2>4 DEF Kinds
<1>2. PICK r \in Requests : r = task.active
  BY <1>1 DEF Agreement, ActiveRequestAgrees
<1>3. Kept(r)
  BY <1>0, KindsKeep DEF Agreement
<1> QED
  BY <1>1, <1>2, <1>3 DEF Kept, Row

\* What is under review stays current.
LEMMA ReviewStaysCurrent ==
  ASSUME Agreement, Agreement', Next, Founded
  PROVE  ReviewedInputIsCurrent'
<1> SUFFICES ASSUME task'.active # NoRR
             PROVE  /\ Row(task.active)'.rev = task'.rev
                    /\ task'.active[1] = "PLAN_REVIEW" => Row(task.active)'.input = task'.plan
                    /\ task'.active[1] = "FINAL_REVIEW" =>
                         Row(task.active)'.input = task'.final /\ task'.selfTest
                         /\ ActionsClosed'
  BY DEF ReviewedInputIsCurrent
<1>0. task \in TaskRow
  BY DEF Agreement, TypeOK
<1>1. ActionsClosed'
  <2>1. task'.state \in UnderReview
    BY DEF Agreement, ActiveRequestAgrees, ReviewState, UnderReview, PlanUnderReview,
           FinalUnderReview
  <2> QED
    BY <2>1 DEF Agreement, OpenActionHoldsTask, UnderReview, PlanUnderReview, FinalUnderReview
<1>2. CASE Asks
  <2>1. PICK type \in ReviewType : RequestReview(type)
    BY <1>2 DEF Asks
  <2> DEFINE row == [status |-> "PENDING", input |-> Input(type), rev |-> task.rev,
                     limit |-> task.limit[type], verdict |-> "NONE", expired |-> FALSE]
  <2>2. rr' = [rr EXCEPT ![type] = Append(rr[type], row)]
    BY <2>1 DEF RequestReview
  <2>3. row.input = Input(type) /\ row.rev = task.rev
    OBVIOUS
  <2> HIDE DEF row
  <2>4. rr'[type][Rounds(type) + 1] = row
    BY <2>2, AppendedRow DEF Agreement
  <2>5. /\ task'.active = <<type, Rounds(type) + 1>> /\ task'.rev = task.rev
        /\ task'.plan = task.plan /\ task'.final = task.final
        /\ task'.selfTest = task.selfTest
        /\ type = "FINAL_REVIEW" => task.selfTest
    BY <1>0, <2>1 DEF RequestReview, MayRequest, TaskRow
  <2>6. Row(task.active)' = row
    BY <2>4, <2>5 DEF Row
  <2> QED
    BY <1>1, <2>3, <2>5, <2>6 DEF Input
<1>3. CASE ~Asks
  <2>1. task.active # NoRR /\ task'.active = task.active
        /\ Row(task.active)'.input = Row(task.active).input
        /\ Row(task.active)'.rev = Row(task.active).rev
    BY <1>3, SameReview
  <2>2. ContentKinds
    BY StepContent DEF Agreement
  <2>3. ~Completes /\ ~GateAccept
    BY <1>0, Completion DEF Completes, GateAccept, TaskRow, Agreement
  <2>4. SameContent
    BY <2>2, <2>3 DEF ContentKinds, Stays, Unapproves, Tests, Packs
  <2> QED
    BY <1>1, <2>1, <2>4 DEF Founded, ReviewedInputIsCurrent, SameContent
<1> QED
  BY <1>2, <1>3

\* What a Plan PASS approves is the current plan; no other result approves.
LEMMA ResultFounded ==
  ASSUME Agreement, Founded, Completes
  PROVE  /\ task'.rev = task.rev /\ task'.plan = task.plan /\ task'.final = task.final
         /\ \/ /\ task'.approvedPlan = task.approvedPlan
               /\ task'.approvedScope = task.approvedScope
               /\ task'.state \in CodingStates => task.state \in CodingStates
            \/ /\ task'.approvedPlan = task.plan /\ task'.approvedScope = task.plan
               /\ task.plan # NoPlan /\ PassedPlan(task.plan)'
<1>0. task \in TaskRow
  BY DEF Agreement, TypeOK
<1>1. PICK r \in Requests, result \in Result : ReviewCompleted(r, result)
  BY DEF Completes
<1>2. PICK verdict \in Verdict, open \in SUBSET Findings :
        /\ task.active = r /\ rr' = End(r, "COMPLETED", verdict)
        /\ task' = Decided(r, verdict, open)
  BY <1>1, Completion DEF Agreement
<1>3. task'.rev = task.rev /\ task'.plan = task.plan /\ task'.final = task.final
  BY <1>0, <1>2 DEF Decided, Settled, TaskRow
<1>4. r # NoRR /\ r[1] \in ReviewType /\ (r[1] = "PLAN_REVIEW" => Row(r).input \in Plans)
  BY RowOfRequest DEF Agreement
<1>5. task.state = ReviewState(r)
  BY <1>2, <1>4 DEF Agreement, ActiveRequestAgrees
<1>6. CASE verdict = "PASS" /\ r[1] = "PLAN_REVIEW"
  <2>1. task'.approvedPlan = Row(r).input /\ task'.approvedScope = task.plan
    BY <1>0, <1>2, <1>6 DEF Decided, Settled, TaskRow
  <2>2. Row(r).input = task.plan
    BY <1>2, <1>4, <1>6 DEF Founded, ReviewedInputIsCurrent
  <2> DEFINE row == [Row(r) EXCEPT !.status = "COMPLETED", !.verdict = verdict,
                                   !.expired = FALSE]
  <2>3. OnlyRow(r, row, rr')
    BY <1>2, EndRow DEF Agreement, RequestStatus
  <2>4. row.status = "COMPLETED" /\ row.verdict = "PASS" /\ row.input = task.plan
    BY <1>6, <2>2, RowOfRequest DEF Agreement, Request
  <2> HIDE DEF row
  <2>5. r[2] \in DOMAIN rr'["PLAN_REVIEW"] /\ rr'["PLAN_REVIEW"][r[2]] = row
    BY <1>6, <2>3, RowOfRequest DEF OnlyRow, Agreement, TypeOK, RequestTable
  <2>6. PassedPlan(task.plan)'
    BY <1>3, <2>4, <2>5 DEF PassedPlan
  <2>7. task.plan # NoPlan
    BY <1>4, <1>6, <2>2, ConstantsAssumption
  <2> QED
    BY <1>3, <2>1, <2>2, <2>6, <2>7
<1>7. CASE ~(verdict = "PASS" /\ r[1] = "PLAN_REVIEW")
  <2>1. task'.approvedPlan = task.approvedPlan /\ task'.approvedScope = task.approvedScope
    BY <1>0, <1>2, <1>7 DEF Decided, Settled, TaskRow
  <2>2. CASE r[1] = "FINAL_REVIEW"
    BY <1>3, <1>5, <2>1, <2>2 DEF ReviewState, CodingStates
  <2>3. CASE r[1] = "PLAN_REVIEW"
    <3>1. task'.state \in {"PLAN_HUMAN_REVIEW", "PLAN_CHANGES_REQUIRED"}
      BY <1>0, <1>2, <1>7, <2>3, Moves DEF Decided, Settled, TaskRow
    <3> QED
      BY <1>3, <2>1, <3>1 DEF CodingStates
  <2> QED
    BY <1>4, <2>2, <2>3 DEF ReviewType
<1> QED
  BY <1>6, <1>7

\* Founded is inductive.
LEMMA FoundedStep == ASSUME Agreement, Agreement', Next, Founded PROVE Founded'
<1>0. ReviewedInputIsCurrent' /\ ContentKinds /\ Kinds
  BY ReviewStaysCurrent, StepContent, StepKinds DEF Agreement
<1>1. PassedPlan(task.plan) /\ task'.plan = task.plan => PassedPlan(task.plan)'
  <2> SUFFICES ASSUME PassedPlan(task.plan), task'.plan = task.plan
               PROVE  PassedPlan(task.plan)'
    OBVIOUS
  <2>1. PICK plan : plan = task.plan
    OBVIOUS
  <2>2. PassedPlan(plan)'
    BY <1>0, <2>1, PassedStays DEF Agreement
  <2> QED
    BY <2>1, <2>2 DEF PassedPlan
<1>2. CASE Stays
  BY <1>0, <1>1, <1>2 DEF Stays, SameContent, Leads, Founded
<1>3. CASE Unapproves
  BY <1>0, <1>3 DEF Unapproves, Founded, CodingStates
<1>4. CASE Tests
  BY <1>0, <1>1, <1>4 DEF Tests, Founded, CodingStates
<1>5. CASE Packs
  BY <1>0, <1>1, <1>5 DEF Packs, Founded
<1>6. CASE Completes
  BY <1>0, <1>1, <1>6, ResultFounded DEF Founded
<1>7. CASE GateAccept
  <2>1. SameContent /\ task.final # NoPackage
    BY <1>7 DEF GateAccept, Acceptable, Agreement, TypeOK, TaskRow, SameContent
  <2> QED
    BY <1>0, <1>1, <2>1 DEF SameContent, Founded
<1> QED
  BY <1>0, <1>2, <1>3, <1>4, <1>5, <1>6, <1>7 DEF ContentKinds

\* Founded holds in every state the Task can reach.
LEMMA FoundedHolds == Spec => []Founded
<1>1. Init => Founded
  BY DEF Init, Founded, ReviewedInputIsCurrent, CodingStates
<1>2. Agreement /\ Agreement' /\ Founded /\ [Next]_vars => Founded'
  <2>1. UNCHANGED vars /\ Founded => Founded'
    BY DEF vars, Founded, ReviewedInputIsCurrent, PassedPlan, Row, ActionsClosed
  <2> QED
    BY <2>1, FoundedStep
<1> QED
  BY <1>1, <1>2, AgreementHolds, PTL DEF Spec

(***************************************************************************)
(* What is under review is the current plan or package of the current      *)
(* revision, with its self-test and without an open action, so a result is *)
(* always about what the Task would build on.                              *)
(***************************************************************************)
THEOREM ReviewsAreCurrent == Spec => []ReviewedInputIsCurrent
<1>1. Founded => ReviewedInputIsCurrent
  BY DEF Founded
<1> QED
  BY <1>1, FoundedHolds, PTL

(***************************************************************************)
(* No code without the Reviewer's PASS of exactly the plan that is coded,  *)
(* whatever plans, re-plans, gates, resumes and overrides came before.     *)
(***************************************************************************)
THEOREM NoCodeWithoutPass == Spec => []CodingNeedsPlanPass
<1>1. Founded => CodingNeedsPlanPass
  BY DEF Founded, CodingNeedsPlanPass, PassedPlan
<1> QED
  BY <1>1, FoundedHolds, PTL

-----------------------------------------------------------------------------
(***************************************************************************)
(* Completion.                                                             *)
(***************************************************************************)
\* A Task that has ended is over: no step changes it, its requests or its findings.
LEMMA EndStays ==
  ASSUME Agreement, Next, task.state \in Terminal
  PROVE  UNCHANGED <<task, rr, finding, approval>>
<1>1. ~Live /\ task.active = NoRR /\ NoRR \notin Requests
  BY RowOfRequest DEF Live, Terminal, Agreement, ActiveRequestAgrees, ReviewState
<1>2. /\ ~CanMove(task.state, "plan_human_review") /\ ~CanMove(task.state, "cancel")
      /\ ~CanMove(task.state, "final_human_review") /\ ~CanMove(task.state, "escalate")
      /\ ~CanMove(task.state, "resume_plan") /\ ~CanMove(task.state, "resume_final")
      /\ ~CanMove(task.state, "override_final")
  BY Sources DEF Terminal, PlanUnderReview, FinalUnderReview
<1>3. ~Builder
  BY <1>1, <1>2 DEF Builder, BeginPlan, SubmitPlan, RequestReview, RequestBeyondLimit,
     MayRequest, RespondFinding, Execute, BeginFinalFix, SelfTest, SelfTestFailed,
     SubmitFinalPackage, RequestAction, ConsumeAction
<1>4. ~(Reviewer \/ Delivery \/ Sweep)
  BY <1>2 DEF Reviewer, EventPastDeadline, ReviewStarted, ReviewFailed, ReviewCompleted,
     Current, Accepted, Delivery, DispatchPastDeadline, DeliveryFailed, Sweep, Swept,
     SweepTaskTimeout, SweepReviewTimeout, SweepApprovalExpiry, Terminal
<1>5. ~Human
  BY <1>1, <1>2 DEF Human, DecideAction, WithdrawAction, WaiveFinding, MayWaive, Cancel,
     GateAbort, Abort, GateAccept, GateContinue, GateModify, AtGate, HumanGate, Resume,
     OverrideFinal, Terminal
<1>6. CASE Worker \/ RecoverAssignment
  BY <1>6 DEF Worker, ClaimAssignment, CompleteAssignment, RecoverAssignment
<1>7. CASE Clock
  BY <1>1, <1>7 DEF Clock, TaskDeadline, ReviewDeadline, ApprovalDeadline, LeaseDeadline,
                    Terminal
<1> QED
  BY <1>3, <1>4, <1>5, <1>6, <1>7 DEF Next

\* A request that was not there was asked for, and is pending.
LEMMA NewRequest ==
  ASSUME TypeOK, TypeOK', Kinds, NEW r \in Requests', r \notin Requests
  PROVE  \E type \in ReviewType :
           /\ RequestReview(type) /\ r = <<type, Rounds(type) + 1>>
           /\ Row(r)'.status = "PENDING" /\ Row(r)'.input = Input(type)
           /\ Row(r)'.rev = task.rev
<1>1. PICK at \in ReviewType : r \in {at} \X DOMAIN rr'[at]
  BY DEF Requests
<1>2. Asks
  <2>1. CASE Quiet
    BY <2>1 DEF Quiet, Requests
  <2>2. ASSUME ~Asks, ~Quiet PROVE FALSE
    <3>1. Rounds(at)' = Rounds(at)
      BY <2>2, OtherKindsRounds
    <3>2. rr[at] \in Seq(Request) /\ rr'[at] \in Seq(Request)
      BY DEF TypeOK, RequestTable
    <3>3. DOMAIN rr'[at] = DOMAIN rr[at]
      BY <3>1, <3>2 DEF Rounds
    <3> QED
      BY <1>1, <3>3 DEF Requests
  <2> QED
    BY <2>1, <2>2
<1>3. PICK type \in ReviewType : RequestReview(type)
  BY <1>2 DEF Asks
<1> DEFINE row == [status |-> "PENDING", input |-> Input(type), rev |-> task.rev,
                   limit |-> task.limit[type], verdict |-> "NONE", expired |-> FALSE]
<1>4. rr' = [rr EXCEPT ![type] = Append(rr[type], row)]
  BY <1>3 DEF RequestReview
<1>5. row.status = "PENDING" /\ row.input = Input(type) /\ row.rev = task.rev
  OBVIOUS
<1> HIDE DEF row
<1>6. r = <<type, Rounds(type) + 1>> /\ rr'[type][Rounds(type) + 1] = row
  BY <1>4, AppendedRow
<1> QED
  BY <1>3, <1>5, <1>6 DEF Row

\* Only a result completes a request that is open.
LEMMA OnlyResultsComplete ==
  ASSUME TypeOK, ActiveRequestAgrees, Kinds, NEW r \in Requests,
         Row(r).status \in ActiveRequest, Row(r)'.status = "COMPLETED"
  PROVE  Completes /\ task.active = r
<1>0. task.active = r /\ Row(r).status # "COMPLETED"
  BY DEF ActiveRequestAgrees, ActiveRequest
<1>1. ASSUME NEW status \in {"FAILED", "TIMED_OUT", "ESCALATED"}, rr' = Stop(status)
      PROVE  FALSE
  <2> DEFINE row == [Row(r) EXCEPT !.status = status, !.verdict = "NONE", !.expired = FALSE]
  <2>1. rr' = End(r, status, "NONE")
    BY <1>0, <1>1 DEF Stop
  <2>2. OnlyRow(r, row, rr')
    BY <2>1, EndRow DEF RequestStatus
  <2>3. row.status = status
    BY RowOfRequest DEF Request
  <2> HIDE DEF row
  <2>4. Row(r)' = row
    BY <2>2, SameRequests
  <2> QED
    BY <2>3, <2>4
<1>2. ASSUME Expires PROVE FALSE
  <2> DEFINE row == [Row(r) EXCEPT !.expired = TRUE]
  <2>1. OnlyRow(r, row, rr')
    BY <1>0, <1>2, ExpireRow DEF Expires
  <2>2. row.status = Row(r).status
    BY RowOfRequest DEF Request
  <2> HIDE DEF row
  <2>3. Row(r)' = row
    BY <2>1, SameRequests
  <2> QED
    BY <1>0, <2>2, <2>3
<1>3. ASSUME Starts PROVE FALSE
  <2>1. PICK q \in Requests : ReviewStarted(q)
    BY <1>3 DEF Starts
  <2> DEFINE row == [Row(q) EXCEPT !.status = "IN_PROGRESS"]
  <2>2. OnlyRow(q, row, rr')
    BY <2>1, StartRow
  <2>3. row.status = "IN_PROGRESS"
    BY RowOfRequest DEF Request
  <2> HIDE DEF row
  <2>4. Row(q)' = row /\ (r # q => Row(r)' = Row(r))
    BY <2>2, SameRequests
  <2> QED
    BY <1>0, <2>3, <2>4
<1>4. ASSUME Asks PROVE FALSE
  <2>1. PICK type \in ReviewType : RequestReview(type)
    BY <1>4 DEF Asks
  <2> DEFINE row == [status |-> "PENDING", input |-> Input(type), rev |-> task.rev,
                     limit |-> task.limit[type], verdict |-> "NONE", expired |-> FALSE]
  <2>2. rr' = [rr EXCEPT ![type] = Append(rr[type], row)]
    BY <2>1 DEF RequestReview
  <2> HIDE DEF row
  <2>3. Row(r)' = Row(r)
    BY <2>2, AppendedRow
  <2> QED
    BY <1>0, <2>3
<1>5. ~Quiet
  BY <1>0 DEF Quiet, Row
<1> QED
  BY <1>0, <1>1, <1>2, <1>3, <1>4, <1>5 DEF Kinds, Ends

(***************************************************************************)
(* The inductive invariant behind DoneIsEarned: a completion basis is      *)
(* given at DONE only; a Final review is of a package of its own revision, *)
(* and its PASS leaves the Task DONE, so that what a Human accepts at a    *)
(* gate was completed without one; and the request under review is the     *)
(* latest of its type, so that the result that makes the Task DONE is the  *)
(* last word on it.                                                        *)
(***************************************************************************)
FinalRowsAreJudged ==
  \A n \in DOMAIN rr["FINAL_REVIEW"] :
    LET row == rr["FINAL_REVIEW"][n]
    IN  /\ row.input[1] = row.rev
        /\ row.status = "COMPLETED" /\ row.verdict = "PASS" => task.state = "DONE"

ActiveIsLatest == task.active # NoRR => task.active[2] = Rounds(task.active[1])

Earned == /\ DoneIsEarned
          /\ task.basis # "NONE" => task.state = "DONE"
          /\ FinalRowsAreJudged
          /\ ActiveIsLatest

\* What the result of the active request makes of it, of the basis and of the findings.
LEMMA ResultRow ==
  ASSUME Agreement, Founded, Earned, NEW r \in Requests, NEW result \in Result,
         ReviewCompleted(r, result)
  PROVE  /\ task.active = r
         /\ r[2] \in DOMAIN rr'[r[1]] /\ r[2] = Rounds(r[1])'
         /\ LET row == rr'[r[1]][r[2]]
            IN  /\ row.input = Row(r).input /\ row.rev = Row(r).rev
                /\ row.status = "COMPLETED"
                /\ row.verdict = "PASS" /\ r[1] = "FINAL_REVIEW" =>
                     task'.state = "DONE" /\ LeftOpen(r, finding') = {}
                /\ \/ task'.basis = task.basis
                   \/ /\ r[1] = "FINAL_REVIEW" /\ row.verdict = "PASS"
                      /\ task'.basis = "FINAL_REVIEW_PASS"
<1>0. task \in TaskRow /\ r[1] \in ReviewType /\ r # NoRR
  BY RowOfRequest DEF Agreement, TypeOK
<1>1. PICK verdict \in Verdict, open \in SUBSET Findings :
        /\ task.active = r /\ rr' = End(r, "COMPLETED", verdict)
        /\ task' = Decided(r, verdict, open)
        /\ verdict = "PASS" => LeftOpen(r, finding') = {}
  BY Completion DEF Agreement
<1> DEFINE row == [Row(r) EXCEPT !.status = "COMPLETED", !.verdict = verdict,
                                 !.expired = FALSE]
<1>2. OnlyRow(r, row, rr')
  BY <1>1, EndRow DEF Agreement, RequestStatus
<1>3. /\ row.status = "COMPLETED" /\ row.verdict = verdict
      /\ row.input = Row(r).input /\ row.rev = Row(r).rev
  BY RowOfRequest DEF Agreement, Request
<1> HIDE DEF row
<1>4. /\ r[2] \in DOMAIN rr'[r[1]] /\ rr'[r[1]][r[2]] = row
      /\ Rounds(r[1])' = Rounds(r[1])
  BY <1>2, RowOfRequest DEF OnlyRow, Agreement, TypeOK, RequestTable, Rounds
<1>5. r[2] = Rounds(r[1])
  BY <1>0, <1>1 DEF Earned, ActiveIsLatest
<1>6. /\ r[1] = "FINAL_REVIEW" /\ verdict = "PASS" =>
           task'.state = "DONE" /\ task'.basis = "FINAL_REVIEW_PASS"
      /\ ~(r[1] = "FINAL_REVIEW" /\ verdict = "PASS") => task'.basis = task.basis
  BY <1>0, <1>1, Moves DEF Decided, Settled, TaskRow, ReviewType
<1> QED
  BY <1>1, <1>3, <1>4, <1>5, <1>6

\* The Final requests stay of their revision, and only DONE follows their PASS.
LEMMA FinalRowsStay ==
  ASSUME Agreement, Agreement', Next, Founded, Earned
  PROVE  FinalRowsAreJudged'
<1> SUFFICES ASSUME NEW n \in DOMAIN rr'["FINAL_REVIEW"]
             PROVE  LET row == rr'["FINAL_REVIEW"][n]
                    IN  /\ row.input[1] = row.rev
                        /\ row.status = "COMPLETED" /\ row.verdict = "PASS"
                             => task'.state = "DONE"
  BY DEF FinalRowsAreJudged
<1>0. task \in TaskRow /\ Kinds
  BY StepKinds DEF Agreement, TypeOK
<1>1. PICK r \in Requests' : r = <<"FINAL_REVIEW", n>>
  <2>1. "FINAL_REVIEW" \in ReviewType
    BY DEF ReviewType
  <2>2. <<"FINAL_REVIEW", n>> \in {"FINAL_REVIEW"} \X DOMAIN rr'["FINAL_REVIEW"]
    OBVIOUS
  <2> QED
    BY <2>1, <2>2 DEF Requests
<1>2. CASE r \in Requests
  <2>1. Kept(r) /\ Row(r)' = rr'["FINAL_REVIEW"][n]
    BY <1>0, <1>1, <1>2, KindsKeep DEF Agreement, Row
  <2>2. Row(r)'.input = Row(r).input /\ Row(r)'.rev = Row(r).rev
    BY <2>1 DEF Kept, Row
  <2>3. /\ Row(r).input[1] = Row(r).rev
        /\ Row(r).status = "COMPLETED" /\ Row(r).verdict = "PASS" => task.state = "DONE"
    BY <1>1, <1>2, RowOfRequest
       DEF Agreement, TypeOK, RequestTable, Earned, FinalRowsAreJudged, Row
  <2>4. ASSUME Row(r)'.status = "COMPLETED", Row(r)'.verdict = "PASS"
        PROVE  task'.state = "DONE"
    <3>1. CASE Row(r).status \notin ActiveRequest
      <4>1. Row(r)' = Row(r)
        BY <2>1, <3>1 DEF Kept, Row
      <4> QED
        BY <2>3, <2>4, <4>1, EndStays DEF Terminal
    <3>2. CASE Row(r).status \in ActiveRequest
      <4>1. Completes /\ task.active = r
        BY <1>0, <1>2, <2>4, <3>2, OnlyResultsComplete DEF Agreement
      <4>2. PICK q \in Requests, result \in Result : ReviewCompleted(q, result)
        BY <4>1 DEF Completes
      <4>3. q = r
        BY <4>1, <4>2, ResultRow
      <4> QED
        BY <1>1, <2>1, <2>4, <4>2, <4>3, ResultRow
    <3> QED
      BY <3>1, <3>2
  <2> QED
    BY <2>1, <2>2, <2>3, <2>4
<1>3. CASE r \notin Requests
  <2>1. /\ r = <<"FINAL_REVIEW", Rounds("FINAL_REVIEW") + 1>> /\ RequestReview("FINAL_REVIEW")
        /\ Row(r)'.status = "PENDING" /\ Row(r)'.input = task.final /\ Row(r)'.rev = task.rev
    BY <1>0, <1>1, <1>3, NewRequest DEF Agreement, Input
  <2>2. task.final # NoPackage
    BY <2>1 DEF RequestReview, MayRequest
  <2> QED
    BY <1>1, <2>1, <2>2 DEF Founded, Row
<1> QED
  BY <1>2, <1>3

\* The request under review stays the latest of its type.
LEMMA ActiveStaysLatest ==
  ASSUME Agreement, Agreement', Next, Earned
  PROVE  ActiveIsLatest'
<1> SUFFICES ASSUME task'.active # NoRR
             PROVE  task'.active[2] = Len(rr'[task'.active[1]])
  BY DEF ActiveIsLatest, Rounds
<1>0. task \in TaskRow /\ Kinds
  BY StepKinds DEF Agreement, TypeOK
<1>1. CASE Asks
  <2>1. PICK type \in ReviewType : RequestReview(type)
    BY <1>1 DEF Asks
  <2>2. task'.active = <<type, Rounds(type) + 1>>
    BY <1>0, <2>1 DEF RequestReview, TaskRow
  <2>3. \E row : rr' = [rr EXCEPT ![type] = Append(rr[type], row)]
    BY <2>1 DEF RequestReview
  <2>4. rr \in [ReviewType -> Seq(Request)]
    BY DEF Agreement, TypeOK, RequestTable
  <2>5. Len(rr'[type]) = Rounds(type) + 1
    BY <2>3, <2>4 DEF Rounds
  <2> QED
    BY <2>2, <2>5
<1>2. CASE ~Asks
  <2>1. task.active = task'.active /\ task.active \in Requests
    BY <1>2, SameReview
  <2>2. task.active[1] \in ReviewType /\ task.active # NoRR
    BY <2>1, RowOfRequest DEF Agreement
  <2>3. PICK type \in ReviewType : type = task.active[1]
    BY <2>2
  <2>4. Rounds(type)' = Rounds(type)
    BY <1>0, <1>2, OtherKindsRounds DEF Agreement
  <2> QED
    BY <2>1, <2>2, <2>3, <2>4 DEF Earned, ActiveIsLatest, Rounds
<1> QED
  BY <1>1, <1>2

\* A PASS of the Final review earns DONE.
LEMMA PassEarns ==
  ASSUME Agreement, Agreement', Founded, Earned, NEW r \in Requests, NEW result \in Result,
         ReviewCompleted(r, result), task.basis = "NONE", task'.basis # "NONE"
  PROVE  DoneIsEarned' /\ task'.state = "DONE"
<1>0. task \in TaskRow /\ r # NoRR
  BY RowOfRequest DEF Agreement, TypeOK
<1> DEFINE row == rr'["FINAL_REVIEW"][r[2]]
<1>1. /\ r[1] = "FINAL_REVIEW" /\ task.active = r
      /\ r[2] \in DOMAIN rr'["FINAL_REVIEW"] /\ r[2] = Rounds("FINAL_REVIEW")'
      /\ row.status = "COMPLETED" /\ row.verdict = "PASS"
      /\ row.input = Row(r).input /\ row.rev = Row(r).rev
      /\ task'.basis = "FINAL_REVIEW_PASS" /\ task'.state = "DONE"
      /\ LeftOpen(r, finding') = {}
  BY ResultRow
<1>2. Row(r).rev = task.rev /\ Row(r).input = task.final /\ task.selfTest
  BY <1>0, <1>1 DEF Founded, ReviewedInputIsCurrent
<1>3. task'.rev = task.rev /\ task'.final = task.final /\ task'.selfTest = task.selfTest
  BY <1>0 DEF ReviewCompleted, Decided, Settled, TaskRow
<1>4. Latest("FINAL_REVIEW")' = row
  BY <1>1 DEF Latest, Rounds
<1>5. Rounds("FINAL_REVIEW")' > 0
  BY <1>1, RowOfRequest DEF Agreement
<1>6. OpenFindings' = {}
  BY <1>1 DEF OpenFindings, Known, LeftOpen, Relevant
<1>7. ActionsClosed'
  BY <1>1 DEF Agreement, OpenActionHoldsTask
<1> HIDE DEF row
<1> QED
  BY <1>1, <1>2, <1>3, <1>4, <1>5, <1>6, <1>7 DEF DoneIsEarned

\* The Human accepts what was reviewed without a PASS.
LEMMA AcceptanceEarns ==
  ASSUME Agreement, Agreement', Founded, Earned, GateAccept
  PROVE  DoneIsEarned' /\ task'.state = "DONE"
<1>0. task \in TaskRow
  BY DEF Agreement, TypeOK
<1>1. /\ task.state = "FINAL_HUMAN_REVIEW" /\ Rounds("FINAL_REVIEW") > 0
      /\ task.final # NoPackage /\ task.selfTest
      /\ Latest("FINAL_REVIEW").input = task.final
      /\ Latest("FINAL_REVIEW").status = "COMPLETED"
  BY DEF GateAccept, AtGate, Acceptable, GateType
<1>2. task'.state = "DONE" /\ task'.basis = "HUMAN_OVERRIDE" /\ task'.rev = task.rev
      /\ task'.final = task.final /\ task'.selfTest = task.selfTest
  BY <1>0, Moves DEF GateAccept, TaskRow
<1>3. rr' = rr
  <2>1. task.active = NoRR
    BY <1>1 DEF Agreement, ActiveRequestAgrees, ReviewState
  <2>2. NoRR \notin Requests
    BY RowOfRequest DEF Agreement
  <2> QED
    BY <2>1, <2>2 DEF GateAccept, Stop
<1>4. PICK n \in DOMAIN rr["FINAL_REVIEW"] :
        n = Rounds("FINAL_REVIEW") /\ Latest("FINAL_REVIEW") = rr["FINAL_REVIEW"][n]
  <2>1. rr["FINAL_REVIEW"] \in Seq(Request)
    BY DEF Agreement, TypeOK, RequestTable, ReviewType
  <2> QED
    BY <1>1, <2>1 DEF Rounds, Latest
<1>5. Latest("FINAL_REVIEW").verdict # "PASS"
  BY <1>1, <1>4 DEF Earned, FinalRowsAreJudged
<1>6. Latest("FINAL_REVIEW").rev = task.rev
  BY <1>1, <1>4 DEF Earned, FinalRowsAreJudged, Founded
<1>7. ActionsClosed'
  BY <1>2 DEF Agreement, OpenActionHoldsTask
<1>8. Rounds("FINAL_REVIEW")' = Rounds("FINAL_REVIEW")
      /\ Latest("FINAL_REVIEW")' = Latest("FINAL_REVIEW")
  BY <1>3 DEF Rounds, Latest
<1> QED
  BY <1>1, <1>2, <1>5, <1>6, <1>7, <1>8 DEF DoneIsEarned

\* Earned is inductive.
LEMMA EarnedStep == ASSUME Agreement, Agreement', Next, Founded, Earned PROVE Earned'
<1>1. FinalRowsAreJudged' /\ ActiveIsLatest'
  BY FinalRowsStay, ActiveStaysLatest
<1>2. DoneIsEarned' /\ (task'.basis # "NONE" => task'.state = "DONE")
  <2>1. CASE task.state = "DONE"
    <3>1. UNCHANGED <<task, rr, finding, approval>>
      BY <2>1, EndStays DEF Terminal
    <3> QED
      BY <3>1 DEF Earned, DoneIsEarned, Rounds, Latest, OpenFindings, Known, ActionsClosed
  <2>2. CASE task.state # "DONE" /\ task'.basis = "NONE"
    BY <2>2 DEF DoneIsEarned
  <2>3. CASE task.state # "DONE" /\ task'.basis # "NONE"
    <3>1. task.basis = "NONE"
      BY <2>3 DEF Earned
    <3>2. ContentKinds
      BY StepContent DEF Agreement
    <3>3. Completes \/ GateAccept
      BY <2>3, <3>1, <3>2 DEF ContentKinds, Stays, Unapproves, Tests, Packs
    <3>4. CASE Completes
      <4>1. PICK r \in Requests, result \in Result : ReviewCompleted(r, result)
        BY <3>4 DEF Completes
      <4> QED
        BY <2>3, <3>1, <4>1, PassEarns
    <3> QED
      BY <3>3, <3>4, AcceptanceEarns
  <2> QED
    BY <2>1, <2>2, <2>3
<1> QED
  BY <1>1, <1>2 DEF Earned

LEMMA EarnedHolds == Spec => []Earned
<1>1. Init => Earned
  BY DEF Init, Earned, DoneIsEarned, FinalRowsAreJudged, ActiveIsLatest, ReviewType
<1>2. Agreement /\ Agreement' /\ Founded /\ Earned /\ [Next]_vars => Earned'
  <2>1. UNCHANGED vars /\ Earned => Earned'
    BY DEF vars, Earned, DoneIsEarned, FinalRowsAreJudged, ActiveIsLatest, Rounds, Latest,
           OpenFindings, Known, ActionsClosed
  <2> QED
    BY <2>1, EarnedStep
<1> QED
  BY <1>1, <1>2, AgreementHolds, FoundedHolds, PTL DEF Spec

(***************************************************************************)
(* DONE is earned, in every behaviour: a Task with a completion basis has  *)
(* a completed Final review of its current package and revision, which     *)
(* passed with every finding closed, or did not and was accepted by a      *)
(* Human; and it has a passed self-test and no open action.                *)
(***************************************************************************)
THEOREM DoneHasItsReview == Spec => []DoneIsEarned
<1>1. Earned => DoneIsEarned
  BY DEF Earned
<1> QED
  BY <1>1, EarnedHolds, PTL

-----------------------------------------------------------------------------
(***************************************************************************)
(* Findings.                                                               *)
(***************************************************************************)
\* Who moves findings at all.
LEMMA FindingSteps ==
  ASSUME Next
  PROVE  \/ finding' = finding
         \/ \E f \in Findings, action \in {"accept", "reject", "fix"} : RespondFinding(f, action)
         \/ \E f \in Findings : WaiveFinding(f)
         \/ Completes
<1>1. CASE Worker \/ RecoverAssignment \/ Clock
  BY <1>1 DEF Worker, ClaimAssignment, CompleteAssignment, RecoverAssignment, Clock,
              TaskDeadline, ReviewDeadline, ApprovalDeadline, LeaseDeadline
<1>2. CASE Delivery \/ Sweep
  BY <1>2 DEF Delivery, DispatchPastDeadline, DeliveryFailed, Sweep, SweepTaskTimeout,
              SweepReviewTimeout, SweepApprovalExpiry, FailureGate, Escalate
<1>3. CASE Reviewer
  BY <1>3 DEF Reviewer, EventPastDeadline, ReviewStarted, ReviewFailed, FailureGate, Completes
<1>4. CASE Builder
  BY <1>4 DEF Builder, BeginPlan, SubmitPlan, RequestReview, RequestBeyondLimit, Escalate,
              Execute, BeginFinalFix, SelfTest, SelfTestFailed, SubmitFinalPackage,
              RequestAction, ConsumeAction
<1>5. CASE Human
  BY <1>5 DEF Human, DecideAction, WithdrawAction, Cancel, GateAbort, Abort, GateAccept,
              GateContinue, GateModify, Resume, OverrideFinal
<1> QED
  BY <1>1, <1>2, <1>3, <1>4, <1>5 DEF Next

\* What a response or a waiver does to the finding it is about.
LEMMA OneFindingMoves ==
  ASSUME TypeOK, NEW f \in Findings,
         WaiveFinding(f) \/ \E action \in {"accept", "reject", "fix"} : RespondFinding(f, action)
  PROVE  /\ task.active = NoRR
         /\ \A g \in Findings : g # f => finding'[g] = finding[g]
         /\ finding[f].status \notin ClosedFinding /\ finding'[f].status # "VERIFIED"
         /\ finding'[f].advisory = finding[f].advisory
<1>1. finding \in [Findings -> FindingRow \cup {NoFinding}]
  BY DEF TypeOK
<1>2. PICK event \in {"accept", "reject", "fix", "waive"} :
        /\ task.active = NoRR /\ f \in Known /\ CanMoveFinding(finding[f].status, event)
        /\ finding' = [finding EXCEPT ![f].status = FindingEdges[event].to]
  BY DEF RespondFinding, WaiveFinding, MayWaive
<1>3. finding[f] \in FindingRow
  BY <1>1, <1>2 DEF Known, NoFinding
<1>4. /\ finding[f].status \notin ClosedFinding
      /\ FindingEdges[event].to # "VERIFIED"
  BY <1>2 DEF CanMoveFinding, FindingEdges, Edge, ClosedFinding, FindingStatus
<1>5. finding'[f] = [finding[f] EXCEPT !.status = FindingEdges[event].to]
  BY <1>1, <1>2
<1> QED
  BY <1>1, <1>2, <1>3, <1>4, <1>5 DEF FindingRow

\* What a result does to one finding.
LEMMA ResultMovesFinding ==
  ASSUME TypeOK, NEW r \in Requests, NEW result \in Result, ReviewCompleted(r, result),
         NEW f \in Findings
  PROVE  /\ finding[f].status \in ClosedFinding => finding'[f] = finding[f]
         /\ finding'[f].advisory /\ ~finding[f].advisory
              => r = <<finding[f].stage, 2>>
<1>1. /\ finding' = Projected(r, result) /\ FitsFindings(r, result)
      /\ FollowsProtocol(r, result)
  BY DEF ReviewCompleted
<1>2. finding[f] \in FindingRow \cup {NoFinding}
  BY DEF TypeOK
<1>3. CASE f \in DOMAIN result.new
  <2>1. finding[f].status = "NONE" /\ ~finding'[f].advisory
    BY <1>1, <1>3 DEF FitsFindings, Known, Projected
  <2> QED
    BY <2>1 DEF ClosedFinding
<1>4. CASE f \notin DOMAIN result.new /\ f \notin DOMAIN result.outcome
  BY <1>1, <1>4 DEF Projected
<1>5. CASE f \notin DOMAIN result.new /\ f \in DOMAIN result.outcome
  <2>1. f \in Known /\ finding[f] \in FindingRow
    BY <1>1, <1>2, <1>5 DEF FitsFindings, Known, NoFinding
  <2>2. result.outcome[f] \in Outcome
    BY <1>5 DEF Result, Partial
  <2>3. CASE result.outcome[f] = "ADVISORY"
    <3>1. MayAdvise(r, f)
      BY <1>1, <1>5, <2>3 DEF FitsFindings
    <3>2. r[2] = 2
      BY <1>1, <1>5, <2>3 DEF FollowsProtocol, AdvisesInSecondRound, Advised
    <3> QED
      BY <3>1, <3>2, RowOfRequest DEF MayAdvise, OpenFindings, Unresolved
  <2>4. CASE result.outcome[f] = "VERIFIED"
    <3>1. finding'[f] = [finding[f] EXCEPT !.status = "VERIFIED"]
      BY <1>1, <1>5, <2>4 DEF Projected
    <3>2. CanMoveFinding(finding[f].status, "verify")
      BY <1>1, <1>5, <2>4 DEF FitsFindings
    <3> QED
      BY <2>1, <3>1, <3>2 DEF FindingRow, CanMoveFinding, FindingEdges, Edge, ClosedFinding
  <2>5. CASE result.outcome[f] = "REOPENED"
    <3>1. finding'[f] = [finding[f] EXCEPT !.status = "OPEN"]
      BY <1>1, <1>5, <2>5 DEF Projected
    <3>2. CanMoveFinding(finding[f].status, "reopen")
      BY <1>1, <1>5, <2>5 DEF FitsFindings
    <3> QED
      BY <2>1, <3>1, <3>2 DEF FindingRow, CanMoveFinding, FindingEdges, Edge, ClosedFinding
  <2> QED
    BY <2>2, <2>3, <2>4, <2>5 DEF Outcome
<1> QED
  BY <1>3, <1>4, <1>5

(***************************************************************************)
(* Findings hold still under review, whoever responds or waives, and a     *)
(* closed finding stays closed: the context the Reviewer judges by is that *)
(* of the rows its result is applied to.                                   *)
(***************************************************************************)
THEOREM FindingsStay == Spec => FindingsHoldStill
<1> DEFINE Holds ==
      /\ task.active # NoRR /\ finding' # finding
           => /\ task'.active = NoRR
              /\ rr'[task.active[1]][task.active[2]].status = "COMPLETED"
      /\ \A f \in Findings : finding[f].status \in ClosedFinding => finding'[f] = finding[f]
<1>1. Agreement /\ Agreement' /\ [Next]_vars => [Holds]_vars
  <2> SUFFICES ASSUME Agreement, Agreement', Next PROVE Holds
    OBVIOUS
  <2>1. CASE finding' = finding
    BY <2>1
  <2>2. ASSUME NEW f \in Findings,
               \/ WaiveFinding(f)
               \/ \E action \in {"accept", "reject", "fix"} : RespondFinding(f, action)
        PROVE  Holds
    BY <2>2, OneFindingMoves DEF Agreement
  <2>3. ASSUME NEW r \in Requests, NEW result \in Result, ReviewCompleted(r, result)
        PROVE  Holds
    <3>1. PICK verdict \in Verdict : rr' = End(r, "COMPLETED", verdict)
      BY <2>3, Completion DEF Agreement
    <3> DEFINE row == [Row(r) EXCEPT !.status = "COMPLETED", !.verdict = verdict,
                                     !.expired = FALSE]
    <3>2. OnlyRow(r, row, rr')
      BY <3>1, EndRow DEF Agreement, RequestStatus
    <3>3. row.status = "COMPLETED"
      BY RowOfRequest DEF Agreement, Request
    <3> HIDE DEF row
    <3>4. rr'[r[1]][r[2]].status = "COMPLETED"
      BY <3>2, <3>3 DEF OnlyRow
    <3>5. task.active = r /\ task'.active = NoRR
      BY <2>3, Completion DEF Agreement
    <3> QED
      BY <2>3, <3>4, <3>5, ResultMovesFinding DEF Agreement
  <2> HIDE DEF Holds
  <2> QED
    BY <2>1, <2>2, <2>3, FindingSteps DEF Completes
<1>2. FindingsHoldStill <=> [][Holds]_vars
  BY PTL DEF FindingsHoldStill
<1> QED
  BY <1>1, <1>2, AgreementHolds, PTL DEF Spec

(***************************************************************************)
(* Only a result of the Reviewer absolves a finding: no response, waiver   *)
(* or gate decision verifies one or makes it advisory, and a result makes  *)
(* advisory only findings of its own stage, in the second round.           *)
(***************************************************************************)
THEOREM ReviewerAbsolves == Spec => ReviewerAloneAbsolves
<1> DEFINE Absolved == \A f \in Findings :
      /\ finding'[f].status = "VERIFIED" /\ finding[f].status # "VERIFIED"
           => task.active # NoRR
      /\ finding'[f].advisory /\ ~finding[f].advisory
           => task.active = <<finding[f].stage, 2>>
<1>1. Agreement /\ [Next]_vars => [Absolved]_vars
  <2> SUFFICES ASSUME Agreement, Next PROVE Absolved
    OBVIOUS
  <2>1. CASE finding' = finding
    BY <2>1
  <2>2. ASSUME NEW f \in Findings,
               \/ WaiveFinding(f)
               \/ \E action \in {"accept", "reject", "fix"} : RespondFinding(f, action)
        PROVE  Absolved
    <3> SUFFICES ASSUME NEW g \in Findings
                 PROVE  /\ finding'[g].status = "VERIFIED" => finding[g].status = "VERIFIED"
                        /\ finding'[g].advisory => finding[g].advisory
      OBVIOUS
    <3> QED
      BY <2>2, OneFindingMoves DEF Agreement
  <2>3. ASSUME NEW r \in Requests, NEW result \in Result, ReviewCompleted(r, result)
        PROVE  Absolved
    <3>1. task.active = r /\ r # NoRR
      BY <2>3, Completion, RowOfRequest DEF Agreement
    <3> QED
      BY <2>3, <3>1, ResultMovesFinding DEF Agreement
  <2> HIDE DEF Absolved
  <2> QED
    BY <2>1, <2>2, <2>3, FindingSteps DEF Completes
<1>2. ReviewerAloneAbsolves <=> [][Absolved]_vars
  BY PTL DEF ReviewerAloneAbsolves
<1> QED
  BY <1>1, <1>2, AgreementHolds, PTL DEF Spec

-----------------------------------------------------------------------------
(***************************************************************************)
(* The Task as ReviewPromise sees it.                                      *)
(***************************************************************************)
LEMMA RequestAt ==
  ASSUME NEW type \in ReviewType, NEW n
  PROVE  <<type, n>> \in Requests <=> n \in DOMAIN rr[type]
BY DEF Requests

\* Without a result no review comes to a verdict, and none loses it.
LEMMA VerdictsStay ==
  ASSUME TypeOK, TypeOK', ActiveRequestAgrees, Kinds, ~Completes
  PROVE  PassedPlans' = PassedPlans /\ JudgedPackages' = JudgedPackages
<1>1. ASSUME NEW type \in ReviewType, NEW n \in Completed(type)
      PROVE  n \in Completed(type)' /\ rr'[type][n] = rr[type][n]
  <2>1. PICK r \in Requests : r = <<type, n>>
    BY <1>1, RequestAt DEF Completed
  <2>2. Row(r).status \notin ActiveRequest
    BY <1>1, <2>1 DEF Completed, Row, ActiveRequest
  <2> QED
    BY <1>1, <2>1, <2>2, KindsKeep DEF Kept, Row, Completed
<1>2. ASSUME NEW type \in ReviewType, NEW n \in Completed(type)'
      PROVE  n \in Completed(type)
  <2>1. PICK r \in Requests' : r = <<type, n>>
    <3>1. <<type, n>> \in {type} \X DOMAIN rr'[type]
      BY <1>2 DEF Completed
    <3> QED
      BY <3>1 DEF Requests
  <2>2. Row(r)'.status = "COMPLETED"
    BY <1>2, <2>1 DEF Completed, Row
  <2>3. r \in Requests
    BY <2>2, NewRequest
  <2>4. Row(r).status \notin ActiveRequest
    BY <2>2, <2>3, OnlyResultsComplete
  <2>5. Row(r)' = Row(r) /\ n \in DOMAIN rr[type]
    BY <2>1, <2>3, <2>4, KindsKeep, RequestAt DEF Kept, Row
  <2> QED
    BY <2>1, <2>2, <2>5 DEF Completed, Row
<1>3. \A type \in ReviewType : Completed(type)' = Completed(type)
  BY <1>1, <1>2
<1>4. \A type \in ReviewType : \A n \in Completed(type) : rr'[type][n] = rr[type][n]
  BY <1>1
<1> QED
  BY <1>3, <1>4 DEF PassedPlans, JudgedPackages, ReviewType

\* What a result adds: the plan it passes, or the package it judges.
LEMMA VerdictAdds ==
  ASSUME TypeOK, TypeOK', ActiveRequestAgrees, NEW r \in Requests, task.active = r,
         Row(r).status \in ActiveRequest,
         NEW verdict \in Verdict, rr' = End(r, "COMPLETED", verdict)
  PROVE  /\ PassedPlans' = IF r[1] = "PLAN_REVIEW" /\ verdict = "PASS"
                           THEN PassedPlans \cup {Row(r).input} ELSE PassedPlans
         /\ JudgedPackages' = IF r[1] = "FINAL_REVIEW"
                              THEN JudgedPackages \cup {Row(r).input} ELSE JudgedPackages
<1> DEFINE row == [Row(r) EXCEPT !.status = "COMPLETED", !.verdict = verdict,
                                 !.expired = FALSE]
<1>1. OnlyRow(r, row, rr')
  BY EndRow DEF RequestStatus
<1>2. row.status = "COMPLETED" /\ row.verdict = verdict /\ row.input = Row(r).input
  BY RowOfRequest DEF Request
<1> HIDE DEF row
<1>3. /\ r[1] \in ReviewType /\ r[2] \in DOMAIN rr[r[1]] /\ r[2] \notin Completed(r[1])
      /\ r = <<r[1], r[2]>>
  BY RowOfRequest DEF TypeOK, RequestTable, Completed, Row, ActiveRequest
<1>4. \A type \in ReviewType : DOMAIN rr'[type] = DOMAIN rr[type]
  BY <1>1 DEF OnlyRow
<1>5. rr'[r[1]][r[2]] = row
  BY <1>1 DEF OnlyRow
<1>6. ASSUME NEW type \in ReviewType, NEW n \in DOMAIN rr[type], <<type, n>> # r
      PROVE  rr'[type][n] = rr[type][n]
  <2>1. PICK q \in Requests : q = <<type, n>>
    BY <1>6, RequestAt
  <2> QED
    BY <1>1, <1>6, <2>1 DEF OnlyRow, Row
<1>7. ASSUME NEW type \in ReviewType
      PROVE  Completed(type)' = IF type = r[1] THEN Completed(type) \cup {r[2]}
                                ELSE Completed(type)
  BY <1>2, <1>3, <1>4, <1>5, <1>6 DEF Completed
<1>8. ASSUME NEW type \in ReviewType, NEW n \in Completed(type)
      PROVE  rr'[type][n] = rr[type][n]
  BY <1>3, <1>6, <1>8 DEF Completed
<1>9. PassedPlans' = IF r[1] = "PLAN_REVIEW" /\ verdict = "PASS"
                     THEN PassedPlans \cup {Row(r).input} ELSE PassedPlans
  <2>1. \A n \in Completed("PLAN_REVIEW") : rr'["PLAN_REVIEW"][n] = rr["PLAN_REVIEW"][n]
    BY <1>8 DEF ReviewType
  <2>2. Completed("PLAN_REVIEW")' = IF r[1] = "PLAN_REVIEW"
          THEN Completed("PLAN_REVIEW") \cup {r[2]} ELSE Completed("PLAN_REVIEW")
    BY <1>7 DEF ReviewType
  <2>3. CASE r[1] = "PLAN_REVIEW"
    <3>1. rr'["PLAN_REVIEW"][r[2]].verdict = verdict
          /\ rr'["PLAN_REVIEW"][r[2]].input = Row(r).input
      BY <1>2, <1>5, <2>3
    <3> QED
      BY <2>1, <2>2, <2>3, <3>1 DEF PassedPlans
  <2>4. CASE r[1] # "PLAN_REVIEW"
    BY <2>1, <2>2, <2>4 DEF PassedPlans
  <2> QED
    BY <2>3, <2>4
<1>10. JudgedPackages' = IF r[1] = "FINAL_REVIEW"
                         THEN JudgedPackages \cup {Row(r).input} ELSE JudgedPackages
  <2>1. \A n \in Completed("FINAL_REVIEW") : rr'["FINAL_REVIEW"][n] = rr["FINAL_REVIEW"][n]
    BY <1>8 DEF ReviewType
  <2>2. Completed("FINAL_REVIEW")' = IF r[1] = "FINAL_REVIEW"
          THEN Completed("FINAL_REVIEW") \cup {r[2]} ELSE Completed("FINAL_REVIEW")
    BY <1>7 DEF ReviewType
  <2>3. r[1] = "FINAL_REVIEW" => rr'["FINAL_REVIEW"][r[2]].input = Row(r).input
    BY <1>2, <1>5
  <2> QED
    BY <2>1, <2>2, <2>3 DEF JudgedPackages
<1> QED
  BY <1>9, <1>10

\* A review is open exactly while the Task is in a review state.
OpenReview ==
  /\ task.active[1] = "NONE" <=> task.active = NoRR
  /\ task.active # NoRR <=> task.state \in UnderReview
  /\ task.active # NoRR => task.active[1] \in ReviewType

LEMMA ReviewIsOpen == Agreement => OpenReview
<1> SUFFICES ASSUME TypeOK, ActiveRequestAgrees PROVE OpenReview
  BY DEF Agreement
<1>1. task.active # NoRR => task.active[1] \in ReviewType /\ task.state \in UnderReview
  BY RowOfRequest DEF ActiveRequestAgrees, ReviewState, UnderReview, PlanUnderReview,
                      FinalUnderReview
<1>2. task.active = NoRR => task.state \notin UnderReview
  BY DEF ActiveRequestAgrees, UnderReview
<1>3. NoRR[1] = "NONE" /\ "NONE" \notin ReviewType
  BY DEF NoRR, ReviewType
<1> QED
  BY <1>1, <1>2, <1>3 DEF OpenReview

LEMMA ApprovedWasPassed ==
  ASSUME Founded, task.approvedPlan # NoPlan
  PROVE  task.approvedPlan \in PassedPlans
BY DEF Founded, PassedPlan, PassedPlans, Completed

\* What is known of the Task before and after a step.
Sound == Agreement /\ OpenReview /\ Founded /\ Earned /\ NoThirdRound

\* Where a step leads that keeps the rounds, the verdicts and the content.
LEMMA PromiseStays ==
  ASSUME Sound, Sound', Next, task.state \notin Terminal, Stays, ~Asks, ~Completes
  PROVE  [Promise!Next]_(Promise!vars)
<1>0. task \in TaskRow /\ task' \in TaskRow
  BY DEF Sound, Agreement, TypeOK
<1>1. /\ [type \in ReviewType |-> Rounds(type)]' = [type \in ReviewType |-> Rounds(type)]
      /\ PassedPlans' = PassedPlans /\ JudgedPackages' = JudgedPackages
      /\ task'.approvedPlan = task.approvedPlan /\ task'.final = task.final
  <2>1. Kinds
    BY StepKinds DEF Sound, Agreement
  <2>2. \A type \in ReviewType : Rounds(type)' = Rounds(type)
    BY <2>1, OtherKindsRounds DEF Sound, Agreement
  <2> QED
    BY <2>1, <2>2, VerdictsStay DEF Sound, Agreement, Stays, SameContent
<1>2. TaskOutcome = "open" /\ (task'.state \notin Terminal => TaskOutcome' = "open")
  BY DEF TaskOutcome, Terminal
<1>3. task'.active = task.active \/ task'.active = NoRR
  BY SameReview DEF Sound
<1>4. /\ task.active[1] = "NONE" <=> task.active = NoRR
      /\ task.active # NoRR <=> task.state \in UnderReview
      /\ task'.active[1] = "NONE" <=> task'.active = NoRR
      /\ task'.active # NoRR <=> task'.state \in UnderReview
  BY DEF Sound, OpenReview
<1>5. "EXECUTING" \notin UnderReview /\ Terminal \cap UnderReview = {} /\ "EXECUTING" \notin Terminal
  BY DEF UnderReview, PlanUnderReview, FinalUnderReview, Terminal
<1>6. task'.state \in CodingStates => task.approvedPlan \in PassedPlans
  BY <1>1, ApprovedWasPassed DEF Sound, Founded
<1>7. CASE task'.state \in Terminal /\ task'.state # "DONE"
  <2>1. TaskOutcome' = "cancelled"
    BY <1>7 DEF TaskOutcome
  <2>2. Promise!Cancel
    BY <1>1, <1>4, <1>5, <1>7, <2>1 DEF Promise!Cancel
  <2> QED
    BY <1>2, <2>2 DEF Promise!Next
<1>8. CASE task'.state = "DONE"
  <2>1. task'.basis = "NONE" /\ TaskOutcome' = "overridden"
    <3>1. task.basis = "NONE"
      BY <1>0, <1>8 DEF Sound, Earned, Terminal
    <3>2. task'.basis = "NONE"
      BY <3>1 DEF Stays
    <3> QED
      BY <1>8, <3>2 DEF TaskOutcome, Terminal
  <2>2. task.final # NoPackage /\ task.state # "EXECUTING"
    BY <1>8 DEF Stays, Leads, Terminal
  <2>3. Promise!Override
    BY <1>1, <1>4, <1>5, <1>6, <1>8, <2>1, <2>2
       DEF Promise!Override, Promise!Founded, CodingStates, Terminal
  <2> QED
    BY <1>2, <2>3 DEF Promise!Next
<1>9. CASE task'.state \notin Terminal
  <2>1. CASE task'.active = task.active
    <3>1. CASE task.state = "EXECUTING" /\ task'.state # "EXECUTING"
      BY <1>1, <1>2, <1>9, <2>1, <3>1 DEF Promise!Halt, Promise!Next
    <3>2. CASE task.state # "EXECUTING" /\ task'.state = "EXECUTING"
      BY <1>1, <1>2, <1>4, <1>5, <1>6, <1>9, <2>1, <3>2
         DEF Promise!Code, Promise!Founded, Promise!Next, CodingStates
    <3>3. CASE task.state = "EXECUTING" <=> task'.state = "EXECUTING"
      BY <1>1, <1>2, <1>9, <2>1, <3>3 DEF Promise!vars
    <3> QED
      BY <3>1, <3>2, <3>3
  <2>2. CASE task'.active = NoRR /\ task.active # NoRR
    <3>1. task'.state # "EXECUTING" /\ task.state # "EXECUTING"
      BY <1>4, <1>5, <2>2 DEF Stays, Leads
    <3> QED
      BY <1>1, <1>2, <1>4, <1>9, <2>2, <3>1 DEF Promise!Close, Promise!Next
  <2> QED
    BY <1>3, <2>1, <2>2
<1> QED
  BY <1>7, <1>8, <1>9

\* A review is asked for.
LEMMA PromiseAsk ==
  ASSUME Sound, Sound', Next, NEW type \in ReviewType, RequestReview(type)
  PROVE  [Promise!Next]_(Promise!vars)
<1>0. task \in TaskRow /\ Kinds /\ ~Completes
  <2>1. Kinds /\ task \in TaskRow
    BY StepKinds DEF Sound, Agreement, TypeOK
  <2>2. task.active = NoRR
    BY DEF RequestReview, MayRequest
  <2>3. ~Completes
    <3>1. TypeOK
      BY DEF Sound, Agreement
    <3> QED
      BY <2>2, <3>1, Completion, RowOfRequest DEF Completes
  <2> QED
    BY <2>1, <2>3
<1>1. /\ task.active = NoRR /\ task.state \in {"PLANNING", "SELF_TESTING"}
      /\ type = "FINAL_REVIEW" => task.final # NoPackage /\ task.state = "SELF_TESTING"
  BY DEF RequestReview, MayRequest, ReviewType
<1>2. /\ task'.active[1] = type /\ task'.active # NoRR
      /\ task'.approvedPlan = task.approvedPlan /\ task'.final = task.final
      /\ task'.state \in {"PLAN_REVIEW_PENDING", "FINAL_REVIEW_PENDING"}
  BY <1>0, Moves DEF RequestReview, TaskRow, NoRR, ReviewType
<1>3. PassedPlans' = PassedPlans /\ JudgedPackages' = JudgedPackages
  BY <1>0, VerdictsStay DEF Sound, Agreement
<1>4. /\ Rounds(type) < V1_LIMIT
      /\ [t \in ReviewType |-> Rounds(t)]'
           = [[t \in ReviewType |-> Rounds(t)] EXCEPT ![type] = @ + 1]
  <2>1. rr \in [ReviewType -> Seq(Request)]
    BY DEF Sound, Agreement, TypeOK, RequestTable
  <2>2. \E row : rr' = [rr EXCEPT ![type] = Append(rr[type], row)]
    BY DEF RequestReview
  <2>3. Rounds(type) \in Nat /\ Rounds(type)' = Rounds(type) + 1
    BY <2>1, <2>2 DEF Rounds
  <2>4. \A t \in ReviewType : t # type => Rounds(t)' = Rounds(t)
    BY <2>1, <2>2 DEF Rounds
  <2>5. Rounds(type)' <= V1_LIMIT
    BY DEF Sound, NoThirdRound
  <2>6. Rounds(type) < V1_LIMIT
    BY <2>3, <2>5 DEF V1_LIMIT
  <2>7. [t \in ReviewType |-> Rounds(t)]'
          = [[t \in ReviewType |-> Rounds(t)] EXCEPT ![type] = @ + 1]
    BY <2>3, <2>4
  <2> QED
    BY <2>6, <2>7
<1>5. type = "FINAL_REVIEW" => task.approvedPlan \in PassedPlans
  BY <1>1, ApprovedWasPassed DEF Sound, Founded, CodingStates
<1>6. TaskOutcome = "open" /\ TaskOutcome' = "open"
  BY <1>1, <1>2 DEF TaskOutcome, Terminal
<1>7. task.active[1] = "NONE"
  BY <1>1 DEF NoRR
<1>8. Promise!Ask(type)
  BY <1>1, <1>2, <1>3, <1>4, <1>5, <1>6, <1>7 DEF Promise!Ask, Promise!Founded
<1> QED
  BY <1>6, <1>8 DEF Promise!Next, Promise!Type, ReviewType

\* A result of the Reviewer.
LEMMA PromiseResult ==
  ASSUME Sound, Sound', Next, Completes
  PROVE  [Promise!Next]_(Promise!vars)
<1>0. task \in TaskRow /\ TypeOK /\ TypeOK' /\ Kinds
  BY StepKinds DEF Sound, Agreement, TypeOK
<1>1. PICK r \in Requests, result \in Result : ReviewCompleted(r, result)
  BY DEF Completes
<1>2. PICK verdict \in Verdict, open \in SUBSET Findings :
        /\ task.active = r /\ rr' = End(r, "COMPLETED", verdict)
        /\ task' = Decided(r, verdict, open)
  BY <1>0, <1>1, Completion
<1>3. Row(r).status \in ActiveRequest /\ task.state \notin Terminal
      /\ r[1] \in ReviewType /\ r # NoRR
  BY <1>0, <1>1, Completion, RowOfRequest
<1>4. /\ PassedPlans' = IF r[1] = "PLAN_REVIEW" /\ verdict = "PASS"
                        THEN PassedPlans \cup {Row(r).input} ELSE PassedPlans
      /\ JudgedPackages' = IF r[1] = "FINAL_REVIEW"
                           THEN JudgedPackages \cup {Row(r).input} ELSE JudgedPackages
  BY <1>0, <1>2, <1>3, VerdictAdds DEF Sound, Agreement
<1>5. [type \in ReviewType |-> Rounds(type)]' = [type \in ReviewType |-> Rounds(type)]
  <2>1. ~Asks
    BY <1>2, <1>3 DEF Asks, RequestReview, MayRequest
  <2> QED
    BY <1>0, <2>1, OtherKindsRounds
<1>6. /\ task.state # "EXECUTING" /\ TaskOutcome = "open"
      /\ task'.active[1] = "NONE" /\ task'.final = task.final
      /\ r[1] = "PLAN_REVIEW" => Row(r).input \in Plans
      /\ r[1] = "FINAL_REVIEW" => Row(r).input = task.final
  <2>1. task.state \in UnderReview
    BY <1>2, <1>3 DEF Sound, OpenReview
  <2>2. task'.active = NoRR /\ task'.final = task.final
    BY <1>0, <1>2 DEF Decided, Settled, TaskRow
  <2> QED
    BY <1>2, <1>3, <2>1, <2>2, RowOfRequest, <1>0
       DEF UnderReview, PlanUnderReview, FinalUnderReview, TaskOutcome, NoRR, Sound, Founded,
           ReviewedInputIsCurrent
<1>7. CASE r[1] = "PLAN_REVIEW" /\ verdict = "PASS"
  <2>1. task'.approvedPlan = Row(r).input /\ task'.state = "PLAN_APPROVED"
    BY <1>0, <1>2, <1>7, Moves DEF Decided, Settled, TaskRow
  <2>2. TaskOutcome' = "open"
    BY <2>1 DEF TaskOutcome, Terminal
  <2>3. Promise!PassPlan(Row(r).input)
    BY <1>2, <1>4, <1>5, <1>6, <1>7, <2>1, <2>2 DEF Promise!PassPlan
  <2> QED
    BY <1>6, <1>7, <2>3 DEF Promise!Next
<1>8. CASE r[1] = "PLAN_REVIEW" /\ verdict # "PASS"
  <2>1. /\ task'.approvedPlan = task.approvedPlan
        /\ task'.state \in {"PLAN_HUMAN_REVIEW", "PLAN_CHANGES_REQUIRED"}
    BY <1>0, <1>2, <1>8, Moves DEF Decided, Settled, TaskRow
  <2>2. TaskOutcome' = "open"
    BY <2>1 DEF TaskOutcome, Terminal
  <2>3. Promise!Close
    BY <1>2, <1>4, <1>5, <1>6, <1>8, <2>1, <2>2 DEF Promise!Close
  <2> QED
    BY <1>6, <2>3 DEF Promise!Next
<1>9. CASE r[1] = "FINAL_REVIEW"
  <2>1. /\ task'.approvedPlan = task.approvedPlan
        /\ \/ task'.state \in {"FINAL_HUMAN_REVIEW", "FINAL_CHANGES_REQUIRED"}
           \/ task'.state = "DONE" /\ task'.basis = "FINAL_REVIEW_PASS"
    BY <1>0, <1>2, <1>9, Moves DEF Decided, Settled, TaskRow
  <2>2. TaskOutcome' \in {"open", "passed"} /\ task'.state # "EXECUTING"
    BY <2>1 DEF TaskOutcome, Terminal
  <2>3. task.approvedPlan \in PassedPlans
    <3>1. task.state \in CodingStates
      BY <1>2, <1>3, <1>9 DEF Sound, Agreement, ActiveRequestAgrees, ReviewState, CodingStates
    <3> QED
      BY <3>1, ApprovedWasPassed DEF Sound, Founded
  <2>4. Promise!JudgePackage
    BY <1>2, <1>4, <1>5, <1>6, <1>9, <2>1, <2>2, <2>3 DEF Promise!JudgePackage, Promise!Founded
  <2> QED
    BY <1>6, <2>4 DEF Promise!Next
<1> QED
  BY <1>3, <1>7, <1>8, <1>9 DEF ReviewType

\* The Human accepts.
LEMMA PromiseAccept ==
  ASSUME Sound, Sound', Next, GateAccept
  PROVE  [Promise!Next]_(Promise!vars)
<1>0. task \in TaskRow /\ TypeOK /\ TypeOK' /\ Kinds
  BY StepKinds DEF Sound, Agreement, TypeOK
<1>1. /\ task.state = "FINAL_HUMAN_REVIEW" /\ Rounds("FINAL_REVIEW") > 0
      /\ task.final # NoPackage /\ Latest("FINAL_REVIEW").input = task.final
      /\ Latest("FINAL_REVIEW").status = "COMPLETED"
  BY DEF GateAccept, AtGate, Acceptable, GateType
<1>2. /\ task'.state = "DONE" /\ task'.basis = "HUMAN_OVERRIDE" /\ task'.active = NoRR
      /\ task'.approvedPlan = task.approvedPlan /\ task'.final = task.final
  BY <1>0, Moves DEF GateAccept, TaskRow
<1>3. task.active = NoRR
  BY <1>1 DEF Sound, OpenReview, UnderReview, PlanUnderReview, FinalUnderReview
<1>4. rr' = rr
  <2>1. NoRR \notin Requests
    BY <1>0, RowOfRequest
  <2> QED
    BY <1>3, <2>1 DEF GateAccept, Stop
<1>5. task.final \in JudgedPackages
  <2>1. rr["FINAL_REVIEW"] \in Seq(Request)
    BY <1>0 DEF TypeOK, RequestTable, ReviewType
  <2>2. Rounds("FINAL_REVIEW") \in Completed("FINAL_REVIEW")
    BY <1>1, <2>1 DEF Completed, Latest, Rounds
  <2> QED
    BY <1>1, <2>2 DEF JudgedPackages, Latest
<1>6. task.approvedPlan \in PassedPlans
  BY <1>1, ApprovedWasPassed DEF Sound, Founded, CodingStates
<1>7. TaskOutcome = "open" /\ TaskOutcome' = "accepted"
  BY <1>1, <1>2 DEF TaskOutcome, Terminal
<1>8. /\ [type \in ReviewType |-> Rounds(type)]' = [type \in ReviewType |-> Rounds(type)]
      /\ PassedPlans' = PassedPlans /\ JudgedPackages' = JudgedPackages
  BY <1>4 DEF Rounds, PassedPlans, JudgedPackages, Completed
<1>9. Promise!Accept
  BY <1>1, <1>2, <1>3, <1>5, <1>6, <1>7, <1>8 DEF Promise!Accept, Promise!Founded, NoRR
<1> QED
  BY <1>7, <1>9 DEF Promise!Next

\* New content: a plan, a self-test or a package.
LEMMA PromiseContent ==
  ASSUME Sound, Sound', Next, Unapproves \/ Tests \/ Packs
  PROVE  [Promise!Next]_(Promise!vars)
<1>1. /\ task'.active = NoRR /\ task.active = NoRR
      /\ task.state \notin Terminal /\ task'.state \notin Terminal
  <2>1. CASE Unapproves
    <3>1. task.state \notin Terminal
      BY <2>1, EndStays DEF Unapproves, Sound, Terminal
    <3> QED
      BY <2>1, <3>1 DEF Unapproves, Terminal
  <2>2. CASE Tests \/ Packs
    BY <2>2 DEF Tests, Packs, Terminal, Sound, OpenReview, UnderReview, PlanUnderReview,
                FinalUnderReview
  <2> QED
    BY <2>1, <2>2
<1>2. Kinds /\ ~Completes /\ ~Asks
  <2>1. ~Completes
    BY <1>1, Completion, RowOfRequest DEF Completes, Sound, Agreement
  <2>2. ASSUME NEW type \in ReviewType, RequestReview(type) PROVE FALSE
    <3>1. task'.active = <<type, Rounds(type) + 1>>
      BY <2>2 DEF RequestReview, Sound, Agreement, TypeOK, TaskRow
    <3> QED
      BY <1>1, <3>1 DEF NoRR, ReviewType
  <2> QED
    BY <2>1, <2>2, StepKinds DEF Asks, Sound, Agreement
<1>3. /\ [type \in ReviewType |-> Rounds(type)]' = [type \in ReviewType |-> Rounds(type)]
      /\ PassedPlans' = PassedPlans /\ JudgedPackages' = JudgedPackages
  BY <1>2, OtherKindsRounds, VerdictsStay DEF Sound, Agreement
<1>4. TaskOutcome = "open" /\ TaskOutcome' = "open" /\ NoRR[1] = "NONE"
  BY <1>1 DEF TaskOutcome, Terminal, NoRR
<1>5. CASE Unapproves
  BY <1>1, <1>3, <1>4, <1>5 DEF Unapproves, Promise!Replan, Promise!Next
<1>6. task.state \in CodingStates => task.approvedPlan \in PassedPlans
  BY ApprovedWasPassed DEF Sound, Founded
<1>7. CASE Tests
  BY <1>1, <1>3, <1>4, <1>6, <1>7
     DEF Tests, CodingStates, Promise!Test, Promise!Founded, Promise!Next
<1>8. CASE Packs
  BY <1>1, <1>3, <1>4, <1>6, <1>8
     DEF Packs, CodingStates, Promise!Pack, Promise!Founded, Promise!Next
<1> QED
  BY <1>5, <1>7, <1>8

\* Every step of the Task is a step of the promise, or one it does not see.
LEMMA PromiseStep ==
  ASSUME Sound, Sound', [Next]_vars
  PROVE  [Promise!Next]_(Promise!vars)
<1>1. CASE UNCHANGED vars
  BY <1>1 DEF vars, Promise!vars, Rounds, PassedPlans, JudgedPackages, Completed, TaskOutcome
<1>2. CASE Next /\ task.state \in Terminal
  <2>1. task' = task /\ rr' = rr
    BY <1>2, EndStays DEF Sound
  <2> QED
    BY <2>1 DEF Promise!vars, Rounds, PassedPlans, JudgedPackages, Completed, TaskOutcome
<1>3. CASE Next /\ task.state \notin Terminal
  <2>1. ContentKinds
    BY <1>3, StepContent DEF Sound, Agreement
  <2>2. CASE Asks
    BY <1>3, <2>2, PromiseAsk DEF Asks
  <2>3. CASE Completes
    BY <1>3, <2>3, PromiseResult
  <2>4. CASE GateAccept
    BY <1>3, <2>4, PromiseAccept
  <2>5. CASE Unapproves \/ Tests \/ Packs
    BY <1>3, <2>5, PromiseContent
  <2>6. CASE Stays /\ ~Asks /\ ~Completes
    BY <1>3, <2>6, PromiseStays
  <2> QED
    BY <2>1, <2>2, <2>3, <2>4, <2>5, <2>6 DEF ContentKinds
<1> QED
  BY <1>1, <1>2, <1>3

LEMMA PromiseInit == Init => Promise!Init
<1> SUFFICES ASSUME Init PROVE Promise!Init
  OBVIOUS
<1>1. \A type \in ReviewType : Rounds(type) = 0 /\ Completed(type) = {}
  BY DEF Init, Rounds, Completed
<1>2. PassedPlans = {} /\ JudgedPackages = {}
  BY <1>1 DEF PassedPlans, JudgedPackages, ReviewType
<1>3. TaskOutcome = "open" /\ task.active[1] = "NONE"
  BY DEF Init, TaskOutcome, Terminal, NoRR
<1> QED
  BY <1>1, <1>2, <1>3 DEF Init, Promise!Init, Promise!Type, ReviewType

(***************************************************************************)
(* The Task keeps the promise that ReviewPromise makes the Reviewer and    *)
(* the Human, whatever the Builder, the Workers, the clock, the delivery   *)
(* and the gates do: two rounds of each review at most, code and package   *)
(* only under a plan that was passed, and one outcome, of the Reviewer's   *)
(* verdict or of the Human's decision.                                     *)
(***************************************************************************)
THEOREM PromiseIsKept == Spec => KeepsReviewPromise
<1>1. Agreement => OpenReview
  BY ReviewIsOpen
<1>2. Agreement /\ OpenReview /\ Founded /\ Earned /\ NoThirdRound => Sound
  BY DEF Sound
<1>3. Sound /\ Sound' /\ [Next]_vars => [Promise!Next]_(Promise!vars)
  BY PromiseStep
<1> QED
  BY <1>1, <1>2, <1>3, PromiseInit, AgreementHolds, FoundedHolds, EarnedHolds, RoundsAreCapped,
     PTL DEF Spec, KeepsReviewPromise, Promise!Spec

-----------------------------------------------------------------------------
(***************************************************************************)
(* Each request lives as RequestLife says, which is what the modules of    *)
(* its delivery, its wake and its inbox take a request for.                *)
(***************************************************************************)
AnyRequest == ReviewType \X (Nat \ {0})

LifeName(status) == IF status \in {"FAILED", "ESCALATED"} THEN "STOPPED" ELSE status

LifeStatus == [r \in AnyRequest |-> IF r \in Requests THEN LifeName(Row(r).status) ELSE "NONE"]

\* A deadline of the active request has passed, or that of the Task.
Late == task.active # NoRR /\ (task.expired \/ Row(task.active).expired)

Life == INSTANCE RequestLife WITH Request <- AnyRequest, status <- LifeStatus, late <- Late

\* The Task gives up its active request, as timed out only when it is late.
EndsInTime ==
  /\ \E status \in {"FAILED", "TIMED_OUT", "ESCALATED"} :
       rr' = Stop(status) /\ (status = "TIMED_OUT" /\ task.active # NoRR => Late)
  /\ task'.active = NoRR

\* The request and its deadlines stay.
Still == /\ rr' = rr /\ task'.active = task.active
         /\ task.active # NoRR => task'.expired = task.expired

LifeKinds == Still \/ EndsInTime \/ Completes \/ Expires \/ Asks \/ Starts

\* What the Human does to the requests.
LEMMA HumanEnds ==
  ASSUME TypeOK, Human
  PROVE  LifeKinds
<1>0. task \in TaskRow /\ Reopened.active = NoRR
  BY DEF TypeOK, TaskRow, Reopened
<1>1. CASE \/ \E event \in {"approve_action", "reject_replan", "cancel"} : DecideAction(event)
           \/ WithdrawAction
           \/ \E f \in Findings : WaiveFinding(f)
  BY <1>0, <1>1 DEF DecideAction, WithdrawAction, WaiveFinding, TaskRow, Still, LifeKinds
<1>2. CASE Cancel \/ GateAbort
  BY <1>0, <1>2 DEF Cancel, GateAbort, Abort, TaskRow, EndsInTime, LifeKinds
<1>3. CASE GateAccept \/ OverrideFinal
  BY <1>0, <1>3 DEF GateAccept, OverrideFinal, TaskRow, EndsInTime, LifeKinds
<1>4. ASSUME NEW type \in ReviewType, NEW limit \in 1..V1_LIMIT + 1, Resume(type, limit)
      PROVE  LifeKinds
  BY <1>0, <1>4 DEF Resume, TaskRow, EndsInTime, LifeKinds
<1>5. ASSUME NEW gate \in HumanGate, NEW selected \in SUBSET Findings, NEW within \in BOOLEAN,
             GateModify(gate, selected, within)
      PROVE  LifeKinds
  BY <1>0, <1>5, ReopenedType DEF GateModify, TaskRow, EndsInTime, LifeKinds
<1>6. ASSUME NEW gate \in HumanGate, GateContinue(gate) PROVE LifeKinds
  BY <1>0, <1>6, ReopenedType DEF GateContinue, TaskRow, EndsInTime, LifeKinds
<1> QED
  BY <1>1, <1>2, <1>3, <1>4, <1>5, <1>6 DEF Human

\* What the Builder does to them.
LEMMA BuilderEnds == ASSUME TypeOK, Builder PROVE LifeKinds
<1>0. task \in TaskRow
  BY DEF TypeOK
<1>1. CASE \/ BeginPlan \/ Execute \/ SelfTestFailed \/ SubmitFinalPackage
           \/ RequestAction \/ ConsumeAction
  BY <1>0, <1>1 DEF BeginPlan, Execute, SelfTestFailed, SubmitFinalPackage, RequestAction,
                    ConsumeAction, TaskRow, Still, LifeKinds
<1>2. CASE \/ \E plan \in Plans : SubmitPlan(plan)
           \/ \E passed \in BOOLEAN : SelfTest(passed)
           \/ \E f \in Findings, action \in {"accept", "reject", "fix"} : RespondFinding(f, action)
  BY <1>0, <1>2 DEF SubmitPlan, SelfTest, Tested, RespondFinding, TaskRow, Still, LifeKinds
<1>3. ASSUME NEW fixes \in SUBSET Findings, NEW within \in BOOLEAN, BeginFinalFix(fixes, within)
      PROVE  LifeKinds
  BY <1>0, <1>3 DEF BeginFinalFix, TaskRow, Still, LifeKinds
<1>4. ASSUME NEW type \in ReviewType, RequestReview(type) \/ RequestBeyondLimit(type)
      PROVE  LifeKinds
  BY <1>0, <1>4 DEF RequestBeyondLimit, Escalate, TaskRow, Asks, EndsInTime, LifeKinds
<1> QED
  BY <1>1, <1>2, <1>3, <1>4 DEF Builder

\* Every step is one of the kinds.
LEMMA StepEnds == ASSUME Agreement, Next PROVE LifeKinds
<1>0. task \in TaskRow /\ TypeOK
  BY DEF Agreement, TypeOK
<1>1. CASE Worker \/ RecoverAssignment
  BY <1>1 DEF Worker, ClaimAssignment, CompleteAssignment, RecoverAssignment, Still, LifeKinds
<1>2. ASSUME NEW status \in {"FAILED", "TIMED_OUT", "ESCALATED"}, FailureGate(status),
             status = "TIMED_OUT" /\ task.active # NoRR => Late
      PROVE  LifeKinds
  BY <1>0, <1>2 DEF FailureGate, TaskRow, EndsInTime, LifeKinds
<1>3. \A r \in Requests : Accepted(r) => task.active = r
  BY DEF Accepted, Agreement, ActiveRequestAgrees
<1>4. CASE Delivery
  BY <1>2, <1>3, <1>4 DEF Delivery, DispatchPastDeadline, DeliveryFailed, Late
<1>5. CASE Sweep
  BY <1>0, <1>2, <1>5 DEF Sweep, SweepTaskTimeout, SweepReviewTimeout, ReviewOverdue,
       SweepApprovalExpiry, Escalate, TaskRow, EndsInTime, LifeKinds, Late
<1>6. CASE Reviewer
  BY <1>2, <1>3, <1>6 DEF Reviewer, EventPastDeadline, ReviewFailed, Late, Completes, Starts,
       LifeKinds
<1>7. CASE TaskDeadline
  <2>1. task.active # NoRR => task.active \in Requests
    BY DEF Agreement, ActiveRequestAgrees
  <2> QED
    BY <1>0, <1>7, <2>1, RowOfRequest DEF TaskDeadline, TaskRow, Still, Expires, LifeKinds
<1>8. CASE ReviewDeadline \/ ApprovalDeadline \/ LeaseDeadline
  BY <1>8 DEF ReviewDeadline, ApprovalDeadline, LeaseDeadline, Still, Expires, LifeKinds
<1> QED
  BY <1>0, <1>1, <1>4, <1>5, <1>6, <1>7, <1>8, HumanEnds, BuilderEnds DEF Next, Clock

\* A row that changes, changes the life of its request alone.
LEMMA LifeOfRow ==
  ASSUME TypeOK, NEW r \in Requests, NEW row, OnlyRow(r, row, rr')
  PROVE  /\ LifeStatus' = [LifeStatus EXCEPT ![r] = LifeName(row.status)]
         /\ r \in AnyRequest /\ LifeStatus[r] = LifeName(Row(r).status)
<1>1. \A q \in Requests : q \in AnyRequest
  BY RowOfRequest DEF AnyRequest
<1>2. /\ Requests' = Requests /\ Row(r)' = row
      /\ \A q \in Requests : q # r => Row(q)' = Row(q)
  BY SameRequests
<1> QED
  BY <1>1, <1>2 DEF LifeStatus, LifeName

\* Each kind is a step of the life of a request, or none.
LEMMA LifeStep == ASSUME Agreement, Agreement', Next PROVE [Life!Next]_(Life!vars)
<1> USE DEF Agreement
<1>0. task \in TaskRow /\ NoRR \notin Requests
  BY RowOfRequest DEF TypeOK
<1>1. task.active # NoRR => /\ task.active \in Requests
                            /\ Row(task.active).status \in ActiveRequest
  BY DEF ActiveRequestAgrees
<1>2. \A r \in Requests : /\ r \in AnyRequest /\ LifeStatus[r] = LifeName(Row(r).status)
                          /\ Row(r).status \in RequestStatus
  BY RowOfRequest DEF AnyRequest, LifeStatus, Request
<1>3. CASE Still
  <2>1. LifeStatus' = LifeStatus
    BY <1>3 DEF Still, LifeStatus, Requests, Row
  <2>2. Late' = Late
    BY <1>3 DEF Still, Late, Row
  <2> QED
    BY <2>1, <2>2 DEF Life!vars
<1>4. ASSUME task.active # NoRR PROVE Life!Open(task.active)
  BY <1>1, <1>2, <1>4 DEF Life!Open, Life!Active, ActiveRequest, LifeName
<1>5. ASSUME task.active = NoRR PROVE \A r \in AnyRequest : ~Life!Open(r)
  BY <1>0, <1>5 DEF ActiveRequestAgrees, Life!Open, Life!Active, LifeStatus, LifeName, ActiveRequest
<1>6. CASE EndsInTime
  <2>1. PICK status \in {"FAILED", "TIMED_OUT", "ESCALATED"} :
          rr' = Stop(status) /\ (status = "TIMED_OUT" /\ task.active # NoRR => Late)
    BY <1>6 DEF EndsInTime
  <2>2. ~Late'
    BY <1>6 DEF EndsInTime, Late
  <2>3. CASE task.active = NoRR
    <3>1. rr' = rr /\ ~Late
      BY <1>0, <2>1, <2>3 DEF Stop, Late
    <3>2. LifeStatus' = LifeStatus
      BY <3>1 DEF LifeStatus, Requests, Row
    <3>3. Late' = Late
      BY <2>2, <3>1 DEF Late
    <3> QED
      BY <3>2, <3>3 DEF Life!vars
  <2>4. CASE task.active # NoRR
    <3>1. PICK r \in Requests : r = task.active
      BY <1>1, <2>4
    <3>2. rr' = End(r, status, "NONE")
      BY <1>1, <2>1, <2>4, <3>1 DEF Stop
    <3> DEFINE row == [Row(r) EXCEPT !.status = status, !.verdict = "NONE", !.expired = FALSE]
    <3>3. OnlyRow(r, row, rr') /\ row.status = status
      BY <3>2, EndRow, RowOfRequest DEF Request, RequestStatus
    <3> HIDE DEF row
    <3>4. Life!Becomes(r, LifeName(status))
      BY <3>3, LifeOfRow DEF Life!Becomes
    <3> QED
      BY <1>2, <1>4, <2>1, <2>2, <2>4, <3>1, <3>4
         DEF Life!Next, Life!TimeOut, Life!Stop, LifeName
  <2> QED
    BY <2>3, <2>4
<1>7. CASE Completes
  <2>1. PICK r \in Requests, result \in Result : ReviewCompleted(r, result)
    BY <1>7 DEF Completes
  <2>2. PICK verdict \in Verdict : rr' = End(r, "COMPLETED", verdict)
    BY <2>1, Completion
  <2>3. task.active = r /\ task'.active = NoRR /\ ~Late
    BY <2>1, Completion DEF ReviewCompleted, Current, Late
  <2> DEFINE row == [Row(r) EXCEPT !.status = "COMPLETED", !.verdict = verdict, !.expired = FALSE]
  <2>4. OnlyRow(r, row, rr') /\ row.status = "COMPLETED"
    BY <2>2, EndRow, RowOfRequest DEF Request, RequestStatus
  <2> HIDE DEF row
  <2>5. Life!Becomes(r, "COMPLETED")
    BY <2>4, LifeOfRow DEF Life!Becomes, LifeName
  <2>6. Life!Complete(r)
    BY <1>0, <1>4, <2>3, <2>5 DEF Life!Complete, Late
  <2> QED
    BY <1>2, <2>6 DEF Life!Next
<1>8. CASE Expires
  <2>1. PICK r \in Requests : task.active = r
    BY <1>8 DEF Expires
  <2> DEFINE row == [Row(r) EXCEPT !.expired = TRUE]
  <2>2. OnlyRow(r, row, rr')
    BY <1>8, <2>1, ExpireRow DEF Expires
  <2>3. row.status = Row(r).status /\ row.expired
    BY RowOfRequest DEF Request
  <2> HIDE DEF row
  <2>4. LifeStatus' = LifeStatus
    <3>1. LifeStatus' = [LifeStatus EXCEPT ![r] = LifeStatus[r]]
      BY <2>2, <2>3, LifeOfRow
    <3> QED
      BY <3>1 DEF LifeStatus
  <2>5. Late'
    BY <1>0, <1>8, <2>1, <2>2, <2>3, SameRequests DEF Expires, Late
  <2> QED
    BY <1>0, <1>2, <1>4, <2>1, <2>4, <2>5 DEF Life!Next, Life!Deadline, Life!vars
<1>9. CASE Asks
  <2>1. PICK type \in ReviewType : RequestReview(type)
    BY <1>9 DEF Asks
  <2>0. PICK n \in Nat \ {0} : n = Rounds(type) + 1
    BY DEF TypeOK, RequestTable, Rounds
  <2> DEFINE new == <<type, n>>
             row == [status |-> "PENDING", input |-> Input(type), rev |-> task.rev,
                     limit |-> task.limit[type], verdict |-> "NONE", expired |-> FALSE]
  <2>2. /\ task.active = NoRR /\ task'.active = new /\ ~task'.expired
        /\ rr' = [rr EXCEPT ![type] = Append(rr[type], row)]
    BY <1>0, <2>0, <2>1 DEF RequestReview, MayRequest, Live, TaskRow
  <2>3. /\ \A q \in Requests : q \in Requests' /\ Row(q)' = Row(q)
        /\ \A q \in Requests' : q \in Requests \/ q = new
        /\ new \in Requests' /\ new \notin Requests
        /\ rr'[type][n] = row
    BY <2>0, <2>2, AppendedRow
  <2>4. Row(new)' = row /\ row.status = "PENDING" /\ ~row.expired
    BY <2>3 DEF Row
  <2>5. new \in AnyRequest
    BY <2>0 DEF AnyRequest
  <2> HIDE DEF new, row
  <2>6. Life!Becomes(new, "PENDING") /\ LifeStatus[new] = "NONE"
    BY <2>3, <2>4, <2>5 DEF Life!Becomes, LifeStatus, LifeName
  <2>7. ~Late'
    BY <2>2, <2>4 DEF Late
  <2>8. Life!Ask(new)
    BY <1>5, <2>2, <2>6, <2>7 DEF Life!Ask
  <2> QED
    BY <2>5, <2>8 DEF Life!Next
<1>10. CASE Starts
  <2>1. PICK r \in Requests : ReviewStarted(r)
    BY <1>10 DEF Starts
  <2>2. /\ task.active = r /\ task'.active = r /\ Row(r).status = "PENDING"
        /\ task'.expired = task.expired /\ ~Late
    BY <1>0, <2>1 DEF ReviewStarted, Current, Late, TaskRow
  <2> DEFINE row == [Row(r) EXCEPT !.status = "IN_PROGRESS"]
  <2>3. OnlyRow(r, row, rr') /\ row.status = "IN_PROGRESS" /\ row.expired = Row(r).expired
    BY <2>1, StartRow, RowOfRequest DEF Request
  <2> HIDE DEF row
  <2>4. Life!Becomes(r, "IN_PROGRESS")
    BY <2>3, LifeOfRow DEF Life!Becomes, LifeName
  <2>5. Late' = Late
    BY <1>0, <2>2, <2>3, SameRequests DEF Late
  <2>6. Life!Start(r)
    BY <1>2, <2>2, <2>4, <2>5 DEF Life!Start, LifeName
  <2> QED
    BY <1>2, <2>6 DEF Life!Next
<1> QED
  BY <1>3, <1>6, <1>7, <1>8, <1>9, <1>10, StepEnds DEF LifeKinds

(***************************************************************************)
(* For any plans, findings and bounds: a Task has one open request at a    *)
(* time, starts and completes it only in time, times it out only late, and *)
(* its end stays, whatever Builder, Human, Dispatcher and sweep do.        *)
(***************************************************************************)
THEOREM RequestLives == Spec => Life!Spec
<1>1. Init => Life!Init
  BY DEF Init, Life!Init, LifeStatus, Late, Requests
<1>2. Agreement /\ Agreement' /\ [Next]_vars => [Life!Next]_(Life!vars)
  <2>1. ASSUME UNCHANGED vars PROVE UNCHANGED Life!vars
    BY <2>1 DEF vars, Life!vars, LifeStatus, Late, Requests, Row
  <2> QED
    BY <2>1, LifeStep
<1> QED
  BY <1>1, <1>2, AgreementHolds, PTL DEF Spec, Life!Spec


-----------------------------------------------------------------------------
(***************************************************************************)
(* Where the sweep can close.  FailureGate is undone as a whole if the     *)
(* Task cannot enter the gate, and with it the sweep of all Tasks.         *)
(***************************************************************************)
\* The edge FailureGate takes.
GateEvent ==
  LET type == IF task.active # NoRR THEN task.active[1]
              ELSE IF task.state \in PlanStates THEN "PLAN_REVIEW" ELSE "FINAL_REVIEW"
  IN  IF type = "PLAN_REVIEW" THEN "plan_human_review" ELSE "final_human_review"

\* A time-out or failure gate can be entered exactly where GateEvent can be taken.
LEMMA GateEdge ==
  ASSUME NEW status
  PROVE  FailureGate(status) <=>
           /\ CanMove(task.state, GateEvent)
           /\ rr' = Stop(status)
           /\ task' = [task EXCEPT !.state = MoveTo(GateEvent), !.active = NoRR, !.frozen = TRUE]
           /\ UNCHANGED <<finding, moved, approval, worker>>
BY DEF FailureGate, GateEvent

\* No event leads a dual-round Task to BLOCKED or to FAILED.
Reached == TaskState \ {"BLOCKED", "FAILED"}

\* The edges lead there.
LEMMA ReachedMoves ==
  /\ \A event \in {"begin_plan", "request_plan", "plan_started", "plan_human_review", "execute",
      "self_test", "self_test_failed", "request_final", "final_started", "final_human_review",
      "human_accept_final", "human_modify_plan", "human_modify_final",
      "human_modify_final_replan", "human_continue_plan", "human_continue_final",
      "human_continue_final_rework", "scope_replan", "request_approval", "approve_action",
      "reject_replan", "resume_plan", "resume_final", "override_final", "cancel", "escalate",
      "plan_pass", "plan_changes", "final_pass", "final_changes"} :
       MoveTo(event) \in Reached
  /\ {"PLANNING", "ESCALATED"} \subseteq Reached
<1>1. Reached = {"NEW", "PLANNING", "PLAN_REVIEW_PENDING", "PLAN_REVIEWING",
      "PLAN_CHANGES_REQUIRED", "PLAN_HUMAN_REVIEW", "PLAN_APPROVED", "EXECUTING",
      "SELF_TESTING", "FINAL_REVIEW_PENDING", "FINAL_REVIEWING", "FINAL_CHANGES_REQUIRED",
      "FINAL_HUMAN_REVIEW", "AWAITING_HUMAN_APPROVAL", "ESCALATED", "CANCELLED", "DONE"}
  BY DEF Reached, TaskState
<1> QED
  BY <1>1, Moves

\* No step of the Builder leads elsewhere.
LEMMA BuilderReaches ==
  ASSUME TypeOK, task.state \in Reached, Builder
  PROVE  task'.state \in Reached
<1>0. task \in TaskRow
  BY DEF TypeOK
<1>1. CASE \/ BeginPlan \/ Execute \/ SelfTestFailed \/ SubmitFinalPackage
           \/ RequestAction \/ ConsumeAction
  BY <1>0, <1>1, ReachedMoves DEF BeginPlan, Execute, SelfTestFailed, SubmitFinalPackage,
     RequestAction, ConsumeAction, TaskRow
<1>2. CASE \/ \E plan \in Plans : SubmitPlan(plan)
           \/ \E passed \in BOOLEAN : SelfTest(passed)
           \/ \E f \in Findings, action \in {"accept", "reject", "fix"} : RespondFinding(f, action)
  BY <1>0, <1>2, ReachedMoves DEF SubmitPlan, SelfTest, Tested, RespondFinding, TaskRow
<1>3. ASSUME NEW fixes \in SUBSET Findings, NEW within \in BOOLEAN, BeginFinalFix(fixes, within)
      PROVE  task'.state \in Reached
  BY <1>0, <1>3, ReachedMoves DEF BeginFinalFix, TaskRow
<1>4. ASSUME NEW type \in ReviewType, RequestReview(type) \/ RequestBeyondLimit(type)
      PROVE  task'.state \in Reached
  BY <1>0, <1>4, ReachedMoves DEF RequestReview, RequestBeyondLimit, Escalate, TaskRow
<1> QED
  BY <1>1, <1>2, <1>3, <1>4 DEF Builder

\* Nor does a step of the Human.
LEMMA HumanReaches ==
  ASSUME TypeOK, task.state \in Reached, Human
  PROVE  task'.state \in Reached
<1>0. task \in TaskRow /\ Reopened \in TaskRow
  BY ReopenedType DEF TypeOK
<1>1. CASE \/ \E event \in {"approve_action", "reject_replan", "cancel"} : DecideAction(event)
           \/ WithdrawAction
           \/ \E f \in Findings : WaiveFinding(f)
  BY <1>0, <1>1, ReachedMoves DEF DecideAction, WithdrawAction, WaiveFinding, TaskRow
<1>2. CASE Cancel \/ GateAbort \/ GateAccept \/ OverrideFinal
  BY <1>0, <1>2, ReachedMoves DEF Cancel, GateAbort, Abort, GateAccept, OverrideFinal, TaskRow
<1>3. ASSUME NEW type \in ReviewType, NEW limit \in 1..V1_LIMIT + 1, Resume(type, limit)
      PROVE  task'.state \in Reached
  BY <1>0, <1>3, ReachedMoves DEF Resume, TaskRow
<1>4. ASSUME NEW gate \in HumanGate, NEW selected \in SUBSET Findings, NEW within \in BOOLEAN,
             GateModify(gate, selected, within)
      PROVE  task'.state \in Reached
  BY <1>0, <1>4, ReachedMoves DEF GateModify, TaskRow
<1>5. ASSUME NEW gate \in HumanGate, GateContinue(gate) PROVE task'.state \in Reached
  BY <1>0, <1>5, ReachedMoves DEF GateContinue, TaskRow
<1> QED
  BY <1>1, <1>2, <1>3, <1>4, <1>5 DEF Human

\* Nor any step at all.
LEMMA StepReaches ==
  ASSUME TypeOK, task.state \in Reached, Next
  PROVE  task'.state \in Reached
<1>0. task \in TaskRow
  BY DEF TypeOK
<1>1. ASSUME NEW status, FailureGate(status) \/ Escalate PROVE task'.state \in Reached
  BY <1>0, <1>1, ReachedMoves DEF FailureGate, Escalate, TaskRow
<1>2. CASE Worker \/ RecoverAssignment \/ Clock
  BY <1>0, <1>2 DEF Worker, ClaimAssignment, CompleteAssignment, RecoverAssignment, Clock,
     TaskDeadline, ReviewDeadline, ApprovalDeadline, LeaseDeadline, TaskRow
<1>3. CASE Delivery \/ Sweep
  BY <1>1, <1>3 DEF Delivery, DispatchPastDeadline, DeliveryFailed, Sweep,
     SweepTaskTimeout, SweepReviewTimeout, SweepApprovalExpiry
<1>4. ASSUME NEW r \in Requests,
             EventPastDeadline(r) \/ ReviewStarted(r) \/ ReviewFailed(r)
      PROVE  task'.state \in Reached
  BY <1>0, <1>1, <1>4, ReachedMoves DEF EventPastDeadline, ReviewStarted, ReviewFailed, TaskRow
<1>5. ASSUME NEW r \in Requests, NEW result \in Result, ReviewCompleted(r, result)
      PROVE  task'.state \in Reached
  <2>1. PICK verdict \in Verdict, open \in SUBSET Findings : task' = Decided(r, verdict, open)
    BY <1>5, Completion
  <2> QED
    BY <1>0, <2>1, ReachedMoves DEF Decided, Settled, TaskRow
<1> QED
  BY <1>2, <1>3, <1>4, <1>5, BuilderReaches, HumanReaches DEF Next, Reviewer

(***************************************************************************)
(* For any bounds: the Task itself never stands in the way of the          *)
(* time-out, the failure or the late event that is to close its open       *)
(* review, and there is one state in all in which the time-out of a Task   *)
(* raises, the one of the run that shows AwaitingTimesOut violated.  What  *)
(* it undoes are the time-outs of the other Tasks too: this is the state   *)
(* of those that SharedSweep calls defiant.                                *)
(***************************************************************************)
THEOREM OnlyApprovalDefiesSweep ==
  Spec => [](/\ task.active # NoRR => Swept /\ CanMove(task.state, GateEvent)
             /\ Swept /\ ~CanMove(task.state, GateEvent)
                  <=> task.state = "AWAITING_HUMAN_APPROVAL")
<1> DEFINE Closable == /\ task.active # NoRR => Swept /\ CanMove(task.state, GateEvent)
                       /\ Swept /\ ~CanMove(task.state, GateEvent)
                            <=> task.state = "AWAITING_HUMAN_APPROVAL"
<1>1. Agreement /\ FrozenExactlyAtGate /\ task.state \in Reached => Closable
  <2> SUFFICES ASSUME Agreement, FrozenExactlyAtGate, task.state \in Reached PROVE Closable
    OBVIOUS
  <2> USE DEF PlanUnderReview, FinalUnderReview, Terminal, HumanGate
  <2>1. CASE task.active # NoRR
    <3>1. /\ task.active \in Requests /\ task.state = ReviewState(task.active) /\ ~task.frozen
      BY <2>1 DEF Agreement, ActiveRequestAgrees, FrozenExactlyAtGate, TypeOK, TaskRow
    <3> QED
      BY <2>1, <3>1, Sources, RowOfRequest
         DEF ReviewState, GateEvent, Swept, Agreement, ReviewType
  <2>2. CASE task.active = NoRR
    <3>1. task.state \notin PlanUnderReview \cup FinalUnderReview
      BY <2>2 DEF Agreement, ActiveRequestAgrees
    <3> QED
      BY <2>2, <3>1, Sources
         DEF GateEvent, Swept, Reached, TaskState, PlanStates, FrozenExactlyAtGate
  <2> QED
    BY <2>1, <2>2
<1>2. Init => task.state \in Reached
  BY DEF Init, Reached, TaskState
<1>3. Agreement /\ task.state \in Reached /\ [Next]_vars => (task.state \in Reached)'
  BY StepReaches DEF Agreement, vars
<1> QED
  BY <1>1, <1>2, <1>3, AgreementHolds, FrozenAtGate, PTL DEF Spec

(***************************************************************************)
(* For any number of other Tasks: those that defy the sweep may delay the  *)
(* Task and lead it nowhere else, so that every theorem about Spec holds   *)
(* of a Task among others.                                                 *)
(***************************************************************************)
THEOREM SharedTaskLives == SharedSpec => Spec
<1>1. SharedInit => Init
  BY DEF SharedInit
<1>2. [SharedNext]_sharedVars => [Next]_vars
  BY DEF SharedNext, sharedVars, SweepTick, OtherDefies, OtherCancelled, Next
<1> QED
  BY <1>1, <1>2, PTL DEF SharedSpec, Spec

(***************************************************************************)
(* For any bounds: once a Task is done, failed or cancelled no call, late  *)
(* answer, delivery or sweep changes it, its reviews, its findings or its  *)
(* action.  Only the lease of a claim it left may still run out.           *)
(***************************************************************************)
THEOREM EndIsFinal ==
  Spec => [][task.state \in Terminal => UNCHANGED <<task, rr, finding, approval>>]_vars
<1>1. Agreement /\ [Next]_vars =>
        [task.state \in Terminal => UNCHANGED <<task, rr, finding, approval>>]_vars
  BY EndStays
<1> QED
  BY <1>1, AgreementHolds, PTL DEF Spec

-----------------------------------------------------------------------------
(***************************************************************************)
(* The latest assignment lives as AssignmentLife says.                     *)
(***************************************************************************)
HandLate == worker.status = "CLAIMED" /\ worker.expired

HandOver == INSTANCE AssignmentLife WITH status <- worker.status, late <- HandLate

WorkerRow == [status : WorkerStatus, fixes : SUBSET Findings, expired : BOOLEAN]

\* What a step does to it: nothing, an offer, or one of the others' actions.
HandKinds ==
  \/ UNCHANGED worker
  \/ \E fixes : Offer(task, fixes)
  \/ Abort \/ ClaimAssignment \/ CompleteAssignment \/ RecoverAssignment
  \/ TaskDeadline \/ LeaseDeadline

\* There is no other step.
LEMMA StepHands == Next => HandKinds
<1> SUFFICES ASSUME Next PROVE HandKinds
  OBVIOUS
<1> USE DEF HandKinds
<1>1. CASE Builder
  BY <1>1 DEF Builder, BeginPlan, SubmitPlan, RequestReview, RequestBeyondLimit, Escalate,
     RespondFinding, Execute, BeginFinalFix, SelfTest, SelfTestFailed, SubmitFinalPackage,
     RequestAction, ConsumeAction
<1>2. CASE Human
  BY <1>2 DEF Human, DecideAction, WithdrawAction, WaiveFinding, Cancel, GateAbort, GateAccept,
     GateModify, GateContinue, Resume, OverrideFinal
<1>3. CASE Delivery \/ Sweep
  BY <1>3 DEF Delivery, DispatchPastDeadline, DeliveryFailed, FailureGate, Sweep,
     SweepTaskTimeout, SweepReviewTimeout, SweepApprovalExpiry, Escalate
<1>4. CASE Reviewer
  BY <1>4 DEF Reviewer, EventPastDeadline, ReviewStarted, ReviewFailed, ReviewCompleted,
     FailureGate
<1>5. CASE Worker \/ RecoverAssignment \/ Clock
  BY <1>5 DEF Worker, Clock, ReviewDeadline, ApprovalDeadline
<1> QED
  BY <1>1, <1>2, <1>3, <1>4, <1>5 DEF Next

\* Each is a step of that life, or none.
LEMMA HandStep == ASSUME TypeOK, Next PROVE [HandOver!Next]_(HandOver!vars)
<1>0. worker \in WorkerRow /\ task.expired \in BOOLEAN
  BY DEF TypeOK, WorkerRow, TaskRow
<1> USE DEF HandOver!Next, HandOver!Live, LiveAssignment
<1>1. CASE UNCHANGED worker
  BY <1>1 DEF HandOver!vars, HandLate
<1>2. ASSUME NEW fixes, Offer(task, fixes) PROVE HandOver!Next
  <2>1. worker'.status = "OFFERED" /\ ~HandLate'
    BY <1>2 DEF Offer, HandLate
  <2> QED
    BY <1>2, <2>1 DEF Offer, HandOver!Offer
<1>3. CASE Abort /\ ~UNCHANGED worker
  <2>1. worker.status \in LiveAssignment /\ worker'.status = "CANCELLED" /\ ~HandLate'
    BY <1>0, <1>3 DEF Abort, WorkerRow, HandLate
  <2> QED
    BY <2>1 DEF HandOver!Cancel
<1>4. CASE ClaimAssignment
  <2>1. worker.status = "OFFERED" /\ worker'.status = "CLAIMED"
    BY <1>0, <1>4 DEF ClaimAssignment, WorkerRow
  <2>2. HandLate' \in BOOLEAN
    BY DEF HandLate
  <2> QED
    BY <2>1, <2>2 DEF HandOver!Claim
<1>5. CASE CompleteAssignment
  <2>1. /\ worker.status = "CLAIMED" /\ ~HandLate
        /\ worker'.status = "COMPLETED" /\ ~HandLate'
    BY <1>0, <1>5 DEF CompleteAssignment, WorkerRow, HandLate
  <2> QED
    BY <2>1 DEF HandOver!Complete
<1>6. CASE RecoverAssignment
  <2>1. /\ worker.status = "CLAIMED" /\ HandLate
        /\ worker'.status \in {"OFFERED", "FROZEN"} /\ ~HandLate'
    BY <1>0, <1>6 DEF RecoverAssignment, WorkerRow, HandLate
  <2> QED
    BY <2>1 DEF HandOver!Recover
<1>7. CASE (TaskDeadline \/ LeaseDeadline) /\ ~UNCHANGED worker
  <2>1. /\ worker.status = "CLAIMED" /\ ~HandLate
        /\ worker'.status = worker.status /\ HandLate'
    BY <1>0, <1>7 DEF TaskDeadline, LeaseDeadline, WorkerRow, HandLate
  <2> QED
    BY <2>1 DEF HandOver!Lapse
<1> QED
  BY <1>1, <1>2, <1>3, <1>4, <1>5, <1>6, <1>7, StepHands DEF HandKinds

(***************************************************************************)
(* For any plans, findings and bounds: the assignment of the Task lives as *)
(* AssignmentLife says, as it does among its generations in BuilderTools.  *)
(***************************************************************************)
THEOREM AssignmentLives == Spec => HandOver!Spec
<1>1. Init => HandOver!Init
  BY DEF Init, HandOver!Init, HandLate
<1>2. UNCHANGED vars => UNCHANGED HandOver!vars
  BY DEF vars, HandOver!vars, HandLate
<1>3. Agreement /\ [Next]_vars => [HandOver!Next]_(HandOver!vars)
  BY <1>2, HandStep DEF Agreement
<1> QED
  BY <1>1, <1>3, AgreementHolds, PTL DEF Spec, HandOver!Spec


-----------------------------------------------------------------------------
(***************************************************************************)
(* The verdict a review ends with.                                         *)
(***************************************************************************)
\* The graver of two verdicts, and what unresolved findings make of it.
LEMMA VerdictOfRows ==
  ASSUME NEW rows, NEW reported \in Verdict
  PROVE  LET verdict == AggregateVerdict(rows, reported)
             unresolved == {row \in rows : Unresolved(row)}
         IN  /\ verdict \in Verdict /\ Rank(verdict) >= Rank(reported)
             /\ verdict = "PASS" <=> reported = "PASS" /\ unresolved = {}
             /\ (\E row \in unresolved : row.severity = "CRITICAL") => verdict = "BLOCK"
BY DEF AggregateVerdict, Verdict, Rank

\* The verdict in the row of the request is the aggregated one.
LEMMA VerdictIsStored ==
  ASSUME TypeOK, NEW r \in Requests, NEW result \in Result, ReviewCompleted(r, result)
  PROVE  rr'[r[1]][r[2]].verdict
           = AggregateVerdict({finding'[f] : f \in Relevant(r, finding')}, result.verdict)
<1> DEFINE verdict == AggregateVerdict({finding'[f] : f \in Relevant(r, finding')}, result.verdict)
           row == [Row(r) EXCEPT !.status = "COMPLETED", !.verdict = verdict, !.expired = FALSE]
<1>1. finding' = Projected(r, result)
  BY DEF ReviewCompleted
<1>2. rr' = End(r, "COMPLETED", verdict)
  BY <1>1 DEF ReviewCompleted
<1>3. verdict \in Verdict
  BY AggregateType DEF Result
<1> HIDE DEF verdict
<1>4. OnlyRow(r, row, rr') /\ row.verdict = verdict
  BY <1>2, <1>3, EndRow, RowOfRequest DEF Request, RequestStatus
<1>5. Row(r)' = row
  BY <1>4, SameRequests
<1> QED
  BY <1>4, <1>5 DEF Row, verdict

\* The verdict that is stored, the one that was reported, and the findings agree.
VerdictAgrees(r, result) ==
  LET verdict == rr'[r[1]][r[2]].verdict
      open == LeftOpen(r, finding')
  IN  /\ verdict = "PASS" <=> result.verdict = "PASS"
      /\ verdict = "PASS" <=> open = {}
      /\ Rank(verdict) >= Rank(result.verdict)
      /\ (\E f \in open : finding'[f].severity = "CRITICAL") => verdict = "BLOCK"

(***************************************************************************)
(* For any findings and grades: the verdict a review ends with is PASS     *)
(* exactly if the Reviewer said so, and exactly if the result leaves no    *)
(* finding open that the review answers for; it is never milder than what  *)
(* the Reviewer said, and BLOCK if a critical finding is left.  What       *)
(* _complete refuses and what aggregate_verdict corrects thus make up one  *)
(* rule, in either round.                                                  *)
(***************************************************************************)
THEOREM VerdictIsOfFindings ==
  Spec => [][\A r \in Requests, result \in Result :
               ReviewCompleted(r, result) => VerdictAgrees(r, result)]_vars
<1>1. ASSUME TypeOK, NEW r \in Requests, NEW result \in Result, ReviewCompleted(r, result)
      PROVE  VerdictAgrees(r, result)
  <2> DEFINE rows == {finding'[f] : f \in Relevant(r, finding')}
             open == LeftOpen(r, finding')
             verdict == rr'[r[1]][r[2]].verdict
  <2>1. verdict = AggregateVerdict(rows, result.verdict)
    BY <1>1, VerdictIsStored
  <2>2. result.verdict \in Verdict
    BY DEF Result
  <2>3. VerdictHolds(r, result) /\ finding' = Projected(r, result)
    BY <1>1 DEF ReviewCompleted
  <2>4. /\ result.verdict = "PASS" => open = {}
        /\ result.verdict = "NEEDS_CHANGES" => open # {}
    BY <2>3 DEF VerdictHolds
  <2>5. result.verdict = "BLOCK" => open # {}
    <3>1. r[2] \in {1, 2}
      BY <1>1, RowOfRequest DEF ReviewCompleted, FollowsProtocol, V1_LIMIT, TypeOK, RequestTable
    <3> QED
      BY <2>3, <3>1 DEF VerdictHolds
  <2>6. result.verdict = "PASS" <=> open = {}
    BY <2>2, <2>4, <2>5 DEF Verdict
  <2>7. /\ {row \in rows : Unresolved(row)} = {} <=> open = {}
        /\ \A f \in open : finding'[f] \in {row \in rows : Unresolved(row)}
    BY DEF LeftOpen
  <2> HIDE DEF rows, open, verdict
  <2>8. /\ verdict \in Verdict /\ Rank(verdict) >= Rank(result.verdict)
        /\ verdict = "PASS" <=> result.verdict = "PASS" /\ {row \in rows : Unresolved(row)} = {}
        /\ (\E row \in {row \in rows : Unresolved(row)} : row.severity = "CRITICAL")
             => verdict = "BLOCK"
    BY <2>1, <2>2, VerdictOfRows
  <2> QED
    BY <2>6, <2>7, <2>8 DEF open, verdict, VerdictAgrees
<1>2. TypeOK /\ [Next]_vars => [\A r \in Requests, result \in Result :
                                  ReviewCompleted(r, result) => VerdictAgrees(r, result)]_vars
  BY <1>1
<1> QED
  BY <1>2, TypeCorrect, PTL DEF Spec
=============================================================================
