---------------------------- MODULE BuilderTools ----------------------------
(***************************************************************************)
(* The tools a Builder calls for a Final review.  request_final_review     *)
(* (interfaces/gateway.py) and retry_final_with_grok (application/         *)
(* grok_routing.py) are chains of Hub commands, each a transaction with a  *)
(* receipt under a key derived from the call's key:                        *)
(*   execute or resume, self_test, [profile snapshot], final package,      *)
(*   request_review                                                        *)
(* A chain may break between any two of them, by a refusal, a time-out or  *)
(* a crash, and be called again under its key; meanwhile other calls, the  *)
(* Workers, the Human and the sweep go on.                                 *)
(*   calls     one process per key: where its chain is and what it read    *)
(*   receipts  the command_receipts rows, by key and command               *)
(*   packages, requests   the rows the chains create, in their order       *)
(***************************************************************************)
EXTENDS WorkerAssignments

CONSTANTS Tests,         \* TEST_RESULT artifacts a client calls with
          EarlierTest,   \* the one of the calls made before the first state
          NoTest,        \* the null id of one
          FinalKeys,     \* keys of request_final_review calls
          RetryKeys,     \* keys of retry_final_with_grok calls
          Before,        \* stands for the calls made before the first state
          FinalLimit,    \* task.final_limit
          MaxVersion     \* bound on the Task version where other parties change it

ASSUME ToolConstants ==
  /\ NoTest \notin Tests \cup {EarlierTest}
  /\ FinalKeys \cap RetryKeys = {} /\ Before \notin FinalKeys \cup RetryKeys
  /\ FinalLimit \in Nat \ {0} /\ MaxVersion \in Nat

VARIABLES packages, requests, calls, receipts

world == <<task, assignments, uploads, now, packages, requests>>
vars == <<world, calls, receipts>>

Keys == FinalKeys \cup RetryKeys

Commands == {"begin", "self_test", "package", "request"}
Step == Commands \cup {"snapshot"}

Results == Tests \cup {EarlierTest}

(***************************************************************************)
(* "first" is the Task version the client gave, "at" the one the next      *)
(* command expects; "test" is what self_test is called with, "results" the *)
(* test_results of the package.                                            *)
(***************************************************************************)
NoCall == [pc |-> "idle", begin |-> FALSE, first |-> 0, at |-> 0, rev |-> 0, plan |-> NoPlan,
           test |-> NoTest, results |-> NoTest]

\* A receipt is the input of the command and its response.
NoReceipt == <<>>

\* What a Final package says of itself.
Submission == [rev : Nat, plan : Plans \cup {NoPlan}, results : Results \cup {NoTest}]

TaskRow == [state : {"PLANNING", "PLAN_APPROVED", "EXECUTING", "SELF_TESTING",
                    "FINAL_REVIEW_PENDING", "FINAL_CHANGES_REQUIRED",
                    "FINAL_HUMAN_REVIEW", "ESCALATED", "DONE", "CANCELLED"},
            version : Nat, rev : Nat, plan : Plans \cup {NoPlan},
            tested : BOOLEAN, test : Results \cup {NoTest}, package : Nat]

PackageRow == [by : Keys \cup {Before}, rev : Nat, plan : Plans \cup {NoPlan},
               results : Results \cup {NoTest}]

RequestRow == [by : Keys \cup {Before}, package : Nat,
               status : {"PENDING", "COMPLETED", "FAILED"}]

CallRow == [pc : Step \cup {"idle"}, begin : BOOLEAN,
            first : Nat, at : Nat, rev : Nat, plan : Plans \cup {NoPlan},
            test : Results \cup {NoTest}, results : Results \cup {NoTest}]

ReceiptRow == [begin : {NoReceipt} \cup (Nat \X Nat),
               self_test : {NoReceipt} \cup ((Nat \X (Results \cup {NoTest})) \X (Nat \X Nat)),
               package : {NoReceipt} \cup ((Submission \X Nat) \X Nat),
               request : {NoReceipt} \cup (Nat \X Nat)]

TypeOK ==
  /\ task \in TaskRow
  /\ assignments \in Seq(Assignment) /\ uploads \in Seq(Upload) /\ now \in 0..MaxTime
  /\ packages \in Seq(PackageRow) /\ requests \in Seq(RequestRow)
  /\ calls \in [Keys -> CallRow]
  /\ receipts \in [Keys -> ReceiptRow]

(***************************************************************************)
(* A plan has just been approved: the first one, or one that was submitted *)
(* after Final reviews of an earlier plan.                                 *)
(***************************************************************************)
Init ==
  /\ \E plan \in Plans, rounds \in 0..FinalLimit,
        status \in {"COMPLETED", "FAILED"} :
       /\ task = [state |-> "PLAN_APPROVED", version |-> 0, rev |-> rounds, plan |-> plan,
                  tested |-> FALSE, test |-> IF rounds = 0 THEN NoTest ELSE EarlierTest,
                  package |-> 0]
       /\ packages = [n \in 1..rounds |->
                        [by |-> Before, rev |-> n, plan |-> plan, results |-> EarlierTest]]
       /\ requests = [n \in 1..rounds |-> [by |-> Before, package |-> n, status |-> status]]
  /\ assignments = <<>> /\ uploads = <<>> /\ now = 0
  /\ calls = [k \in Keys |-> NoCall]
  /\ receipts = [k \in Keys |-> [c \in Commands |-> NoReceipt]]

-----------------------------------------------------------------------------
(***************************************************************************)
(* Commands under a key.                                                   *)
(***************************************************************************)
\* Services.command finds a receipt: the same input gets the same response.
Replays(k, c, input) == receipts[k][c] # NoReceipt /\ receipts[k][c][1] = input

\* The response of a replay.
Response(k, c) == receipts[k][c][2]

Fresh(k, c) == receipts[k][c] = NoReceipt

Record(k, c, input, response) == receipts' = [receipts EXCEPT ![k][c] = <<input, response>>]

\* change and touch: the row as its writer leaves it, one version on.
Write(row) == task' = [row EXCEPT !.version = task.version + 1]

Live == task.state \notin {"DONE", "CANCELLED", "ESCALATED"}

\* task_for(..., expected_version)
Expects(version) == Live /\ task.version = version

\* The call is over, with an answer or without.
Leave(k) == calls' = [calls EXCEPT ![k] = NoCall]

Goto(k, pc, at) == calls' = [calls EXCEPT ![k].pc = pc, ![k].at = at]

-----------------------------------------------------------------------------
(***************************************************************************)
(* A call.  The client may come back with the input of its first attempt   *)
(* or, having read the Task again, with its version of now or another      *)
(* TEST_RESULT.                                                            *)
(***************************************************************************)
Versions(k) ==
  {task.version} \cup (IF Fresh(k, "begin") THEN {} ELSE {receipts[k]["begin"][1]})
                 \cup (IF Fresh(k, "self_test") THEN {} ELSE {receipts[k]["self_test"][1][1]})

\* The request_final_review tool: the material preflight needs an approved plan.
CallFinal(k) ==
  \E begin \in BOOLEAN, version \in Versions(k), test \in Tests :
    /\ calls[k].pc = "idle"
    /\ task.plan # NoPlan
    /\ calls' = [calls EXCEPT ![k] = [NoCall EXCEPT !.pc = IF begin THEN "begin" ELSE "self_test",
                                                    !.begin = begin, !.first = version,
                                                    !.at = version,
                                                    !.test = test, !.results = test]]
    /\ UNCHANGED <<world, receipts>>

(***************************************************************************)
(* retry_final_with_grok of a request that ended without a review: what    *)
(* goes into self_test is the self_test_id the Task has at the time of the *)
(* call, what goes into the package are the results of the old one.        *)
(***************************************************************************)
CallRetry(k) ==
  \E n \in DOMAIN requests, version \in Versions(k) :
    /\ calls[k].pc = "idle"
    /\ requests[n].status = "FAILED"
    /\ task.test # NoTest /\ task.plan # NoPlan
    /\ LET old == packages[requests[n].package]
       IN  calls' = [calls EXCEPT ![k] = [NoCall EXCEPT !.pc = "begin", !.begin = TRUE,
                                                        !.first = version, !.at = version,
                                                        !.plan = old.plan, !.test = task.test,
                                                        !.results = old.results]]
    /\ UNCHANGED <<world, receipts>>

\* Mutant: the Task as it is by now says which version a command expects.
ExpectedNow(k) == task.version

\* The version of the response before, as the receipts of the call have it.
Expected(k) == calls[k].at

\* move(execute), or resume: out of ESCALATED, with a budget for one more round.
MayBegin(k) ==
  IF k \in FinalKeys
  THEN /\ Expects(Expected(k))
       /\ task.state = "PLAN_APPROVED"
       /\ LiveGenerations = {}
  ELSE /\ task.version = Expected(k)
       /\ task.state = "ESCALATED"
       /\ Len(requests) < FinalLimit
       /\ task.plan # NoPlan

Begin(k) ==
  LET input == Expected(k)
  IN  /\ calls[k].pc = "begin"
      /\ \/ /\ Replays(k, "begin", input)
            /\ Goto(k, "self_test", Response(k, "begin"))
            /\ UNCHANGED <<world, receipts>>
         \/ /\ Fresh(k, "begin") /\ MayBegin(k)
            /\ Write([task EXCEPT !.state = "EXECUTING"])
            /\ IF k \in FinalKeys THEN Offer(task) ELSE UNCHANGED assignments
            /\ Record(k, "begin", input, task.version + 1)
            /\ Goto(k, "self_test", task.version + 1)
            /\ UNCHANGED <<uploads, now, packages, requests>>

MaySelfTest(k) == Expects(Expected(k)) /\ task.state = "EXECUTING" /\ WorkIsDone

\* A retry goes on with the plan of the package it repeats.
Tested(k, version, rev) ==
  calls' = [calls EXCEPT ![k] =
    [@ EXCEPT !.pc = IF k \in FinalKeys THEN "snapshot" ELSE "package",
              !.at = version, !.rev = rev]]

SelfTest(k) ==
  LET input == <<Expected(k), calls[k].test>>
      response == <<task.version + 1, task.rev + 1>>
  IN  /\ calls[k].pc = "self_test"
      /\ \/ /\ Replays(k, "self_test", input)
            /\ Tested(k, Response(k, "self_test")[1], Response(k, "self_test")[2])
            /\ UNCHANGED <<world, receipts>>
         \/ /\ Fresh(k, "self_test") /\ MaySelfTest(k)
            /\ Write([task EXCEPT !.state = "SELF_TESTING", !.tested = TRUE,
                                  !.test = calls[k].test, !.package = 0, !.rev = @ + 1])
            /\ Record(k, "self_test", input, response)
            /\ Tested(k, response[1], response[2])
            /\ UNCHANGED <<assignments, uploads, now, packages, requests>>

\* What the call submits: the revision is the one its own self-test returned.
PackageOf(k) == [rev |-> calls[k].rev, plan |-> calls[k].plan, results |-> calls[k].results]

\* profile_snapshot and get_task: the approved plan is read from the Task of now.
\* The snapshot's own guard, a live Task, is one of the next command's too.
Snapshot(k) ==
  /\ calls[k].pc = "snapshot"
  /\ task.plan # NoPlan
  /\ calls' = [calls EXCEPT ![k].pc = "package", ![k].plan = task.plan]
  /\ UNCHANGED <<world, receipts>>

MayPackage(k) ==
  /\ Expects(Expected(k))
  /\ task.state = "SELF_TESTING" /\ task.tested
  /\ PackageOf(k).rev = task.rev
  /\ PackageOf(k).plan = task.plan
  /\ PackageOf(k).results = task.test

SubmitPackage(k) ==
  LET input == <<PackageOf(k), Expected(k)>>
  IN  /\ calls[k].pc = "package"
      /\ \/ /\ Replays(k, "package", input)
            /\ Goto(k, "request", Expected(k) + 1)
            /\ UNCHANGED <<world, receipts>>
         \/ /\ Fresh(k, "package") /\ MayPackage(k)
            /\ packages' = Append(packages, [by |-> k, rev |-> calls[k].rev, plan |-> calls[k].plan,
                                             results |-> calls[k].results])
            /\ Write([task EXCEPT !.package = Len(packages) + 1])
            /\ Record(k, "package", input, Len(packages) + 1)
            /\ Goto(k, "request", Expected(k) + 1)
            /\ UNCHANGED <<assignments, uploads, now, requests>>

\* Mutant: the request is for the Task as it is, whatever happened to it since.
MayRequestAnyVersion(k) == Live /\ task.state = "SELF_TESTING" /\ task.package # 0 /\ task.tested

MayRequest(k) ==
  /\ Expects(Expected(k))
  /\ task.state = "SELF_TESTING" /\ task.package # 0 /\ task.tested

\* request_review: a new round, or past the limit no round and an escalation.
Request(k) ==
  LET input == Expected(k)
  IN  /\ calls[k].pc = "request"
      /\ \/ /\ Replays(k, "request", input)
            /\ UNCHANGED <<world, receipts>>
         \/ /\ Fresh(k, "request") /\ MayRequest(k)
            /\ Len(requests) < FinalLimit
            /\ requests' = Append(requests, [by |-> k, package |-> task.package,
                                             status |-> "PENDING"])
            /\ Write([task EXCEPT !.state = "FINAL_REVIEW_PENDING"])
            /\ Record(k, "request", input, Len(requests) + 1)
            /\ UNCHANGED <<assignments, uploads, now, packages>>
         \/ /\ Fresh(k, "request") /\ MayRequest(k)
            /\ Len(requests) >= FinalLimit
            /\ Write([task EXCEPT !.state = "ESCALATED"])
            /\ Record(k, "request", input, 0)
            /\ UNCHANGED <<assignments, uploads, now, packages, requests>>
      /\ Leave(k)

(***************************************************************************)
(* The call breaks off: a command refuses it (see Refused), or the client  *)
(* or the server of the call is gone.  What is committed stays.            *)
(***************************************************************************)
Break(k) ==
  /\ calls[k].pc # "idle"
  /\ Leave(k)
  /\ UNCHANGED <<world, receipts>>

\* Conflict, a guard, or a receipt under another input.
Refused(k) ==
  LET Passes(c, input, may) == IF Fresh(k, c) THEN may ELSE Replays(k, c, input)
  IN  CASE calls[k].pc = "begin"     -> ~Passes("begin", Expected(k), MayBegin(k))
        [] calls[k].pc = "self_test" -> ~Passes("self_test", <<Expected(k), calls[k].test>>,
                                                MaySelfTest(k))
        [] calls[k].pc = "snapshot"  -> task.plan = NoPlan
        [] calls[k].pc = "package"   -> ~Passes("package", <<PackageOf(k), Expected(k)>>,
                                                MayPackage(k))
        [] calls[k].pc = "request"   -> ~Passes("request", Expected(k), MayRequest(k))
        [] OTHER -> FALSE

-----------------------------------------------------------------------------
(***************************************************************************)
(* The other parties; ReviewLifecycle has their commands in full.          *)
(***************************************************************************)
Pending == IF requests # <<>> /\ requests[Len(requests)].status = "PENDING"
           THEN {Len(requests)} ELSE {}

EndRequest(status) ==
  requests' = [n \in DOMAIN requests |->
                 IF n \in Pending THEN [requests[n] EXCEPT !.status = status] ELSE requests[n]]

\* The Reviewer's result: PASS, changes, or changes in the last round.
Reviewed(state) ==
  /\ task.state = "FINAL_REVIEW_PENDING"
  /\ state = "FINAL_CHANGES_REQUIRED" => Len(requests) < FinalLimit
  /\ state = "FINAL_HUMAN_REVIEW" => Len(requests) >= FinalLimit
  /\ Write([task EXCEPT !.state = state])
  /\ EndRequest("COMPLETED")
  /\ UNCHANGED <<assignments, packages>>

\* review_failure_gate: a deadline has passed, or a delivery failed.
FailureGate ==
  /\ task.state \in {"PLAN_APPROVED", "EXECUTING", "SELF_TESTING", "FINAL_REVIEW_PENDING",
                     "FINAL_CHANGES_REQUIRED"}
  /\ Write([task EXCEPT !.state = "FINAL_HUMAN_REVIEW"])
  /\ EndRequest("FAILED")
  /\ UNCHANGED <<assignments, packages>>

\* A high-risk action of the execution has expired, and is withdrawn later.
Escalate ==
  /\ Executable
  /\ Write([task EXCEPT !.state = "ESCALATED"])
  /\ UNCHANGED <<assignments, packages, requests>>

\* begin_final_fix and human MODIFY: rework, inside the approved scope or with a new plan.
Rework(state) ==
  /\ task.state = state
  /\ \/ LET row == [task EXCEPT !.state = "EXECUTING"]
        IN  /\ state = "FINAL_HUMAN_REVIEW" => Len(requests) \in 1..FinalLimit - 1
            /\ Offer(row)
            /\ Write(row)
     \/ /\ Write([task EXCEPT !.state = "PLANNING", !.plan = NoPlan, !.package = 0,
                              !.tested = FALSE])
        /\ UNCHANGED assignments
  /\ UNCHANGED <<packages, requests>>

\* human CONTINUE: the package under review again, or rework.
Continue ==
  LET reuse == task.package # 0 /\ task.tested /\ requests[Len(requests)].package = task.package
      row == [task EXCEPT !.state = IF reuse THEN "SELF_TESTING" ELSE "EXECUTING"]
  IN  /\ task.state = "FINAL_HUMAN_REVIEW"
      /\ Len(requests) \in 1..FinalLimit - 1
      /\ IF reuse THEN UNCHANGED assignments ELSE Offer(row)
      /\ Write(row)
      /\ UNCHANGED <<packages, requests>>

\* move(self_test_failed)
TakeBack ==
  /\ task.state = "SELF_TESTING"
  /\ Write([task EXCEPT !.state = "EXECUTING"])
  /\ UNCHANGED <<assignments, packages, requests>>

\* submit_plan, its review and the PASS.
Replan(plan) ==
  /\ task.state = "PLANNING"
  /\ task' = [task EXCEPT !.state = "PLAN_APPROVED", !.plan = plan, !.package = 0,
                          !.version = @ + 3, !.rev = @ + 1]
  /\ UNCHANGED <<assignments, packages, requests>>

\* _abort_task
Abort ==
  /\ task.state \notin {"DONE", "CANCELLED"}
  /\ Write([task EXCEPT !.state = "CANCELLED"])
  /\ EndRequest("FAILED")
  /\ CancelAssignments
  /\ UNCHANGED packages

Others ==
  /\ task.version < MaxVersion
  /\ \/ \E state \in {"DONE", "FINAL_CHANGES_REQUIRED", "FINAL_HUMAN_REVIEW"} : Reviewed(state)
     \/ \E state \in {"FINAL_CHANGES_REQUIRED", "FINAL_HUMAN_REVIEW"} : Rework(state)
     \/ \E plan \in Plans : Replan(plan)
     \/ FailureGate \/ Escalate \/ Continue \/ TakeBack \/ Abort
  /\ UNCHANGED <<uploads, now, calls, receipts>>

Hand(w) ==
  /\ \/ Claim(w) \/ Progress(w) \/ SubmitEvidence(w)
     \/ \E a \in DOMAIN uploads : Complete(w, a)
  /\ UNCHANGED <<task, now, packages, requests, calls, receipts>>

Supervise == Recover /\ UNCHANGED <<task, now, packages, requests, calls, receipts>>

Tick ==
  /\ now < MaxTime
  /\ now' = now + 1
  /\ UNCHANGED <<task, assignments, uploads, packages, requests, calls, receipts>>

Chain(k) ==
  \/ k \in FinalKeys /\ CallFinal(k)
  \/ k \in RetryKeys /\ CallRetry(k)
  \/ Begin(k) \/ SelfTest(k) \/ Snapshot(k) \/ SubmitPackage(k) \/ Request(k)
  \/ Break(k)

Next ==
  \/ \E k \in Keys : Chain(k)
  \/ \E w \in Workers : Hand(w)
  \/ Supervise
  \/ Others
  \/ Tick

Spec == Init /\ [][Next]_vars

-----------------------------------------------------------------------------
(***************************************************************************)
(* A request has the package its own call submitted under review, and a    *)
(* call asks for one review however often it is repeated: no other call    *)
(* that ran in between can slip its package in.                            *)
(***************************************************************************)
EachCallReviewsItsPackage ==
  \A n \in DOMAIN requests :
    /\ packages[requests[n].package].by = requests[n].by
    /\ \A m \in DOMAIN requests \ {n} : requests[m].by = requests[n].by => requests[n].by = Before

(***************************************************************************)
(* A call whose request exists can be repeated: once it has begun, every   *)
(* command of the chain replays until the answer is there again, whatever  *)
(* happened to the Task since.  What fails it is another input than the    *)
(* first, of the client or of the chain itself, which reads two things     *)
(* from the Task and not from its receipts: request_final_review the       *)
(* approved plan, which must be the one of the first time when the package *)
(* is built, and retry_final_with_grok the self-test, which must be the    *)
(* one of the first time when the call begins.                             *)
(***************************************************************************)
SameCall(k) ==
  LET tested  == receipts[k]["self_test"][1]
      package == receipts[k]["package"][1][1]
  IN  /\ IF calls[k].begin THEN receipts[k]["begin"] = <<calls[k].first, tested[1]>>
         ELSE calls[k].first = tested[1]
      /\ calls[k].test = tested[2] /\ calls[k].results = package.results
      /\ calls[k].pc = "snapshot" => task.plan # NoPlan
      /\ calls[k].pc = "package" => calls[k].plan = package.plan

AnsweredCallReplays ==
  \A k \in Keys :
    ~Fresh(k, "request") /\ calls[k].pc # "idle" /\ SameCall(k) => ~Refused(k)

(***************************************************************************)
(* What is packaged for review was finished: the latest assignment is      *)
(* completed, and was made for the plan the package names.                 *)
(***************************************************************************)
PackagedWorkIsFinished ==
  [][\A n \in DOMAIN packages' \ DOMAIN packages :
       /\ assignments[Len(assignments)].status = "COMPLETED"
       /\ assignments[Len(assignments)].plan = packages'[n].plan]_vars

(***************************************************************************)
(* A completed, fenced or cancelled assignment is history: no late report, *)
(* completion, recovery or abort touches it again.                         *)
(***************************************************************************)
EndedAssignmentsStay ==
  [][\A g \in Generations \ LiveGenerations : assignments'[g] = assignments[g]]_vars
=============================================================================
