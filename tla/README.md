# GrokBuddy: specifications, model checking and proofs

GrokBuddy is a review hub. A *Builder* (an AI agent) plans a task, has the plan
reviewed, lets a *Worker* execute it, tests it, and has the result reviewed
again; an independent *Reviewer* (Grok) answers review requests; a *Human*
decides at gates, authorizes high-risk actions and may waive, override, resume
or cancel. The Hub keeps all of this in one SQLite database: every command,
every event and every tick of a background worker is one serialized
transaction (`adapters/sqlite.py`). This directory specifies that program in
TLA+, checks it with TLC on small instances, and proves the safety properties
with TLAPS for all instances. Paths below are relative to
`src/src/grokbuddy/` unless they start with `src/`.

## 1. Inventory of the system

| Part | State it keeps | Operations | Modelled in |
|---|---|---|---|
| Domain rules (`domain/`) | none | edge tables of Task and finding, aggregate verdict, round cap | `TaskRules` |
| Tasks (`application/tasks.py`) | `tasks` row | create, move, submit_plan, self_test, submit_final_package, begin_final_fix | `ReviewLifecycle`; create in `TriggerIngress` |
| Reviews (`reviews.py`, `events.py`) | `review_requests`, `reviews` | request_review; ReviewStarted, ReviewCompleted, ReviewFailed | `ReviewLifecycle` |
| Findings (`findings.py`, `events.py`) | `review_findings` | respond, verify, reopen, advise, waive | `ReviewLifecycle` |
| Governance (`governance.py`) | `human_approvals`, Task | high-risk actions, Human Gates, waive, resume, override, cancel | `ReviewLifecycle` |
| Time-outs (`workers.py` TimeoutService) | deadlines of all rows | sweep, recover_assignments | `ReviewLifecycle`; the sweep of all Tasks in `SharedSweep` |
| Worker assignments (`worker_tasks.py`) | `worker_assignments` | offer, claim, progress, evidence, complete, recover | `WorkerAssignments`; deadlines and findings of the latest one in `ReviewLifecycle` |
| Composite tools (`interfaces/gateway.py`, `grok_routing.py`) | `command_receipts` | request_final_review, retry_final_with_grok | `BuilderTools` |
| Commands (`common.py`) | `command_receipts` | replay, refuse, compare-and-set | `BuilderTools`, `GitHubIngress`, `TriggerIngress` |
| Dispatcher (`workers.py`) | `outbox_events` | claim, query, submit, settle | `OutboxDelivery`; effects on the Task in `ReviewLifecycle` |
| Inbox (`events.py`) | `inbox_events` | persist, handle_one | `ReviewInbox`; effects on the Task in `ReviewLifecycle` |
| Local Reviewer (`adapters/mock_queue.py`, intake worker in `workers.py`) | `mock_jobs`, `intake_receipts` | enqueue, claim, take, complete, settle | `LocalReviewer` |
| HTTP intake and wake (`workers.py`, `reviewer_wake.py`) | `intake_receipts` | discover, acknowledge, wake | `ReviewerWake` |
| GitHub (`application/github.py`) | `github_events`, `github_comment_projections` | ingest, process; bind, queue, project | `GitHubIngress`, `CommentProjection` |
| Trigger (`trigger.py`, `interfaces/ingress_mcp.py`) | none; receipts of create_task | find the phrase, attest, verify | `TriggerPhrase`, `TriggerIngress` |
| Supervisor (`workers.py`, `infrastructure/supervisor_service.py`) | thread, cycle record | cycle, start, shutdown, join, readiness | `SupervisorHost` |
| Other interface tools, control center, profiles, artifacts, runtime | none of their own | translate, render, wire | not modelled, section 7 |

How they interact: commands of the Builder, the Worker and the Human and the
events of the Reviewer write the same Task row; `request_review` writes the
request and its outbox row in one transaction; the Dispatcher delivers that row
outside any transaction and settles it in another; the Reviewer's answer comes
back as an inbox row that `handle_one` applies later; the Supervisor runs
route binding, recovery, dispatch, intake, wake, event application and
projection in turn, catching the exception of each.

What is hard here:

* *Interleaving.* A result, a failure event, a delivery failure, three
  time-outs, a gate decision, a resume, an override and a cancel may all end
  the same review, in any order, and each may come late.
* *Bindings that go stale.* Plans, packages, self-tests, approvals, finding
  versions, channels and Task versions are frozen into requests, approvals,
  receipts and assignments and live on in the Task row.
* *Long protocols.* Two rounds of two reviews, with gates, re-plans, actions and
  fixes between them: the same state is reached with very different pasts.
* *Chains.* A tool is up to five transactions under keys derived from one; it
  breaks anywhere and is called again when the Task has moved.
* *Time.* Every row has a deadline, and the sweep needs an edge for each;
  leases lapse under workers that still run.
* *Failure.* A delivery of which the outcome is unknown; a process that dies with
  a lease; a worker that hangs or raises in a loop it shares with others; a Task
  that raises in a transaction it shares with others.

What makes each part correct:

* the Task: its row agrees with the rows it points to; what is reviewed, tested
  and packaged is current; no code without a Plan PASS, no DONE without a
  review; at most two rounds; frozen exactly at a gate; what ended stays; every
  review closes and automation comes to rest, unless another Task keeps the
  sweep from running;
* assignments: one Worker at a time, and evidence of its own claim;
* the tools: a call reviews the package it made, once, and repeats exactly;
* deliveries: made, once if the carrier allows it, and late settlers fenced off;
* the inbox: one review per request, no refusal without cause, every event is
  settled if its handling fails finitely often, and an acknowledged job has been
  done;
* the trigger: one Task per message, one at work per conversation, and only on
  words the user wrote;
* the Supervisor: one worker's failure stops no other, and a hung loop shows.

PROJECT.json lists the hazards line by line, each with its properties.

## 2. Modules

| Module | What it is |
|---|---|
| `TaskRules` | States, `TASK_EDGES`, `FINDING_EDGES`, `aggregate_verdict`, cap: pure operators. |
| `ReviewLifecycle` | The life of one v2 Task under the dual-round policy: all rows that belong to it, one action per command, event, sweep and deadline. |
| `ReviewSafety` | Its properties, and what a document says that the code does not do. |
| `SharedSweep` | EXTENDS it: the Task among other Tasks, whose exceptions undo the sweep of all; the fairness of the lifecycle and its liveness. |
| `ReviewPromise` | Abstract: what a Task promises its Reviewer and its Human. `ReviewLifecycle` implements it. |
| `RequestLife` | Abstract: the life of a review request. `ReviewLifecycle`, `OutboxDelivery`, `ReviewerWake`, `ReviewInbox` and `LocalReviewer` implement it. |
| `AssignmentLife` | Abstract: the hand-over of the work to Workers. `BuilderTools` and `ReviewLifecycle` implement it. |
| `WorkerAssignments` | The operations on assignments, generation by generation; no behaviour of its own. |
| `BuilderTools` | EXTENDS it: the composite tools as processes, with the Builder, the Human, the sweep and the clock around them. |
| `DeliveryPromise` | Abstract: what the Hub promises of a thing it delivers as a comment. |
| `OutboxDelivery` | One outbox row, its Dispatchers and the comment carrier; implements `DeliveryPromise` with repeated copies. |
| `CommentProjection` | One projection row, its projectors and GitHub; implements `DeliveryPromise` with a single copy. |
| `ReviewInbox` | The Reviewer's events from reading the request to their judgement. |
| `LocalReviewer` | EXTENDS it: the polling intake worker and the job queue in front of the inbox. |
| `ReviewerWake` | The HTTP intake receipt and the wake worker of one request. |
| `GitHubIngress` | The webhook deliveries of one pull request, and the idempotent command they run. |
| `TriggerPhrase` | Where the trigger phrase counts: the scanner, and a reference definition. |
| `TriggerIngress` | EXTENDS it: connectors that attest messages, and create_task. |
| `SupervisorHost` | The Supervisor thread, its owner, and the /ready probe. |
| `MC...` | Instances for TLC, one for each module that has a behaviour. |
| `..._proofs` | TLAPS proofs, one module for each of `ReviewSafety`, `BuilderTools`, `OutboxDelivery`, `CommentProjection`, `ReviewInbox` (with `LocalReviewer`), `GitHubIngress`, `TriggerIngress`, `SupervisorHost` (with `ReviewerWake`). |

A definition introduced as a *Mutant* is no part of the model. It is a plausible
bug in the definition that follows it, with which the property named for it in
PROJECT.json must fail.

The modules are joined as the parts of the program are, by rows: the request of
`ReviewLifecycle` is the frame of `OutboxDelivery`, `ReviewerWake` and
`ReviewInbox`, each of which keeps of the Task only what its transactions read
(the request is open or how it ended, a deadline has passed, the version), and
lets it change in every way `ReviewLifecycle` does. `ActiveRequestAgrees`, proved
there, is what allows them to treat the request row and the Task under review
as one. That all four mean the same by a request is `RequestLife`, which each of
them implements by a mapping of its own (section 5):

| | PENDING, IN_PROGRESS | ended otherwise than by an answer or in time-out |
|---|---|---|
| `ReviewLifecycle` | the row's status | FAILED, ESCALATED |
| `OutboxDelivery` | OPEN (it does not look at the difference) | FAILED, STOPPED |
| `ReviewerWake` | the row's status | CLOSED |
| `ReviewInbox` | the row's status | ENDED (time-outs among them) |

The mapping also says what is late: the deadline of the open request, or in
`ReviewLifecycle` that of its Task. `AnyLifeIsMet` is the other direction for the
Dispatcher: whatever step `RequestLife` leaves to the rest of the Hub can happen
to its request at any moment.

`ReviewPromise` is one level up: not how a review is asked for, delivered or
closed, but that there are two of each type at most, one at a time; that code
changes only under a plan that was passed, and packages are of such code; and
that the one outcome is the Reviewer's PASS or the Human's decision. In
`ReviewSafety`, `TaskOutcome` reads the outcome off state and completion basis, the
plans that passed and the packages that were judged off the rows of the
completed reviews, and "coding" is EXECUTING.

Likewise `AssignmentLife` is the one hand-over of which `BuilderTools` has every
generation, Workers and a clock, and `ReviewLifecycle` only the latest row and
whether its lease has run out. `BuilderTools` is a real composition: assignments, tools, gates and the
sweep act on the same rows.

### `ReviewLifecycle`: how it corresponds to the code

Variables: `task` (the `tasks` row), `rr` (the `review_requests` rows of each
type in the order of rounds, with the effective verdict of the review),
`finding` (`review_findings`), `moved` (findings whose version is no longer the
one frozen in the context of the active request), `approval` (latest
`HIGH_RISK_ACTION` row), `worker` (latest `worker_assignments` row).

A transaction is one action. What the code refuses rolls back and is not
enabled; what it calls on the way (`stop_request`, `review_failure_gate`,
`escalate`, `_create_worker_assignment`, `_abort_task`) is an operator used by
the actions (`Stop`, `FailureGate`, `Escalate`, `Offer`, `Abort`). A call that
raises deep inside disables the whole action, as it undoes the whole
transaction: `FailureGate` has the guard `CanMove`, because `transition` raises
where the gate has no edge.

| Group | Actions | Code |
|---|---|---|
| Builder | `BeginPlan SubmitPlan RequestReview RequestBeyondLimit RespondFinding Execute BeginFinalFix SelfTest SelfTestFailed SubmitFinalPackage RequestAction ConsumeAction` | tasks.py, reviews.py, findings.py, governance.py |
| Worker | `ClaimAssignment CompleteAssignment` | worker_tasks.py |
| Reviewer | `ReviewStarted ReviewFailed ReviewCompleted EventPastDeadline` | events.py |
| Dispatcher | `DispatchPastDeadline DeliveryFailed` | workers.py |
| Supervisor | `SweepTaskTimeout SweepReviewTimeout SweepApprovalExpiry RecoverAssignment` | workers.py |
| Human | `DecideAction WithdrawAction WaiveFinding Cancel GateAbort GateAccept GateModify GateContinue Resume OverrideFinal` | governance.py |
| Clock | `TaskDeadline ReviewDeadline ApprovalDeadline LeaseDeadline` | the deadlines those modules compare |

Reviewer events range over *all* requests ever made, not only the active one,
so an event may be lost, repeated, late or overtaken.

Commands and events of different Tasks do not meet, so one Task is enough for
the safety properties. The sweep is different: it handles all Tasks in one
transaction. `SharedSweep` adds the others as far as this Task can notice them:
`defiant` is the set of those whose time-out raises. `OtherDefies` is the
deadline of a Task that awaits a Human approval, `OtherCancelled` the cancel
that ends it, and `SweepTick` the whole sweep, which does something for this
Task only while no other defies it. `OnlyApprovalDefiesSweep` (section 5) shows
that no other state raises, and `SharedTaskLives` that nothing but the progress
of this Task depends on the others.

Abstractions:

* An artifact (plan, package, evidence) is its identity; a package is named by
  its revision and rank. Whether a proposed scope lies within the approved one
  is a free choice of the action.
* A deadline is one Boolean, "the clock has reached it". The deadline of a row
  that is closed is never read again and counts as not reached. A Human's new
  deadline is assumed to be no earlier than the one it replaces.
* The latest approval and the latest assignment stand for all: the code allows
  no second open one (for assignments that is `OneLiveAssignment`).
* `task.version`, the binding of results to it and receipts are in `ReviewInbox`
  and `BuilderTools`. They only make the code refuse more; a safety property of
  this model holds of the code.
* Revision counters, gate reasons, human modification scopes, risks, the limit
  of findings per result, and v1 Tasks are left out. None is read by a
  property.

### `WorkerAssignments` and `BuilderTools`

`Offer Claim Progress SubmitEvidence Complete Recover CancelAssignments` are the
operations of `worker_tasks.py` and `TimeoutService.recover_assignments`; the
place of a row in `assignments` is its generation. An upload remembers the
generation under which it was made, a history the code does not have: it
compares times, which is what `EvidenceOfTheClaim` is about.

A call of a tool is a process under its key: `CallFinal` and `CallRetry` start it
or repeat it, with the version and the TEST_RESULT the client gives. A retry
takes its test from the Task instead: `task.test` is `self_test_id`, which every
`self_test` writes and nothing clears (a re-plan clears `self_test_passed` only);
its package has the results of the package it repeats, so it is accepted if
these are the same. `Begin`, `SelfTest`,
`Snapshot`, `SubmitPackage` and `Request` are its commands, each the whole
idempotent command (`Replays`, `Fresh`, `Expected`, `Record`) with its effect;
`Break` ends it anywhere. Between them: other Builders' calls, the Worker
(`Hand`), recovery (`Supervise`), the end of a review in every way (`Reviewed`,
`FailureGate`, `Escalate`), the Human (`Rework`, `Continue`, `Replan`, `Abort`),
a self-test taken back (`TakeBack`) and the clock. Left out: scope validation,
findings, high-risk actions, and row versions of assignments, which a late
caller may match by accident and which therefore only refuse more.

### The workers: `OutboxDelivery`, `CommentProjection`, `ReviewerWake`

These three call the outside world between two transactions, so a call of
theirs is a process with a program counter, and each transaction and each
outside call is a step. A lease is lost by time (`Due`) or by the death of its
process (`Crash`), which may happen at every step.

* `OutboxDelivery`: `Claim`, `ClaimClosed`, `ClaimLate` are the three ends of
  `_claim`; `Query` and `Submit` the lookups of `dispatch_one` and of the
  adapter (`Routed`, `RoutedAtSubmit`: the request is read again before it is
  posted); `Post` the POST with its lost answers; `Settle` the last
  transaction. `attempts` and `lease_generation` are one number, as they are
  only incremented together; it names the claim and what the claim posted.
  `request` closes in every way `stop_request` is called.
* `CommentProjection`: `Bind`, `Enqueue`, then `Claim`, `Find`, `Update` or
  `Create`, `Settle` of `project_one`. `Unsure` is `claimed_from_status`.
* `ReviewerWake`: `Publish`, `Sent`, `Discover`, `Expire`, `Acknowledge` are the
  intake; `ReviewerEvent`, `ApplyEvent`, `Close`, `Complete`, `Deadline` what
  the wake worker reads; `ClaimStops`, `ClaimExhausted`, `Claim`, `SecondLook`,
  `Send`, `Settle` the worker.

`DeliveryPromise` is the abstract specification of both deliveries: `sent` only
after a copy was accepted, one end that stays, and, with `Single`, one copy at
most. They differ exactly there: a review request may be repeated, a comment on
a review may not, and the code pays for it by giving up in doubt.

Abstractions: time is whether a row is due or late; delays, error codes and
metadata are left out; a comment is the number of the claim that posted it; it
is found once it is listed, and nobody deletes it. Failures of the network stop
before the last claim of the bound (`MaxClaims`), which stands for "at some time".

### `ReviewInbox` and `LocalReviewer`

`Ask` makes a request and freezes its channel; `Read` is `grok_request`, from
which the Reviewer learns the version its result must name; `Post` is the route
check, `persist_event` and its deduplication. `Take`, `Judge` and `Reject` are the
transactions of `handle_one`: the alternatives of `Judge` are its branches in
their order, and another worker may have judged the same row in between. The
request ends in every other way too (`Sweep`, `Halt`, `Abort`), the Human resumes,
and `Touch`, the one command a Task under review accepts (`withdraw_action`),
moves its version. An answer stands for verdict, findings and execution
identity: it is valid, acceptable, or neither.

`LocalReviewer` is what happens to a request that the Hub evaluates itself. The
worker's claim and the job have a lease each (`Claim`, `Reconcile`, `TakeJob`,
`Evaluate`, `SettleClaim`), both of which may run out; an evaluation records its
event and ends the job in one transaction.

Left out: 'Review is not current' in `_complete` and the lookup in
`processed_events`, neither of which can be reached past the checks before
them; JSON schemas and sizes, which decide whether an answer is valid.

### `GitHubIngress`

The server runs each webhook call in a thread (`interfaces/composite.py`), and
`ingest` takes four transactions: record, prepare, command, settle. A call is a
process, its steps `Ingest`, `Process`, `RequestReview`, and `Reject` or `Apply`.
`RequestReview` is the whole idempotent command: `Replay`, `Refuse`,
`BeyondLimit`, `Create`. The Task is what the command reads of it: version,
readiness, rounds, binding and route. A request is named by the Task version at
which it was made, which it consumes. GitHub may deliver each push again, under
the same id or another, at any time.

### `TriggerPhrase` and `TriggerIngress`

`Eligible` is the scanner of `trigger.py` over a text of tokens as coarse as its
distinctions: it goes line by line, keeps the open fence, and drops inline code,
quotes, indented code and segments of other sources. `TopLevel` says the same
without a scan: a phrase counts if no fence opened before it is unclosed there
and no pair of equal back-tick runs has it between them.

A connector works through `Begin`, `Look` (is there a receipt for this key?),
`Issue` (attest the first phrase now), `CreateTask` and `Return`. Its lock is
per process, so several connectors interleave. `CreateTask` verifies the
attestation again, its age and its place, and refuses a conversation that has a
live Task. The check that a message has no Task yet is left out, because
the receipt of its key answers first.

### `SupervisorHost`

`Check`, `Return`, `Record`, `Wake`, `Fail` are the loop with the workers' calls in
it, `Start`, `Shutdown`, `Join`, `Exit` the main thread, `Ask`, `Read`, `Answer`
the probe, `Pass` a second. Time passes only in a worker's call and in the
wait: everything else takes none.

## 3. Runs

One run per question. Runs over one behaviour share its exploration.

| Run | Instance | Shows |
|---|---|---|
| `one_task` | 1 plan, 1 finding, a CRITICAL blocking grade, 3 revisions, 1 package each, 1 other Task | rows in step (`ActiveRequestAgrees`); DONE is earned; frozen exactly at gates; history and findings hold still; every review closes and automation comes to rest unless the other Task keeps the sweep from running |
| `replan` | 2 symmetric plans, 1 LOW finding, 3 revisions, 1 package each | what is reviewed is current; no code without a Plan PASS; the promise of the Task is kept; an open action holds the Task; only the Reviewer absolves |
| `tools` | 2 plans, 2 Workers, 1 key of each tool, 1 TEST_RESULT and an earlier one, time 1, 2 generations, 1 upload, 10 versions | one live assignment, its evidence of its claim; a call reviews its own package once, replays when answered; packages are of finished work |
| `outbox` | 2 Dispatchers, 2 submissions, 5 claims, comments listed late | the promise is kept; submissions within the limit; closed requests and late settlers change nothing; every delivery ends |
| `inbox` | 2 handlers, 2 keys, 2 answers, 2 requests, 2 versions, 1 fault | one review per request, as answered; no refusal without cause; open to its Reviewer |
| `local` | 1 handler, 2 intake workers, 2 keys, both kinds of Reviewer, 1 request, 2 attempts, 2 claims, 1 fault | what is acknowledged was evaluated; the inbox drains |
| `wake` | 2 wakers, 3 wakes | waking ends, within the limit, and never after an answer |
| `projection` | 2 projectors, limit 2, 4 claims | one POST at most; the promise is kept; every bound intent ends |
| `ingress` | 2 threads, 2 delivery ids, 2 pushes and an ignored event, 2 rounds, 4 versions | one request per push, of the Task as prepared; answers are true |
| `trigger` | 2 connectors, 2 keys, 2 conversations, 3 messages, age 1, time 2 | one Task per message and at work per conversation; on attested words; late calls replay |
| `host` | 2 workers, 1 probe, interval 1 | a hung loop is never ready; the Supervisor works until it is stopped, whatever its workers raise |
| `awaiting_forever` | 1 plan, 2 revisions | *violation*: a Task awaiting approval outlives its deadline |

Beside these, the instance of `trigger` compares `Eligible` with `TopLevel` on
every message of up to four chunks and a phrase after them, a chunk being any
token, the phrase itself or the start of another segment
(`ScannerFindsTopLevel`, an ASSUME).

Why the bounds suffice. Lifecycle: the cap is two rounds, and three revisions are
a plan, a self-test and one more of either, so both rounds of both reviews and
a re-plan fit; one finding takes every status in either stage; a blocking and a
milder grade reach the second-round BLOCK and the advisory path; two plans tell
the approved one from the current one. Workers: two processes give every
overtaking of one by another, there are more claims than the limit allows
attempts, so that lookups beyond it happen, and a limit of two has an attempt
that is not the last. Inbox: two keys give a repeated and a second event, two
requests an event for an older one, one fault an exception or a death at any
step. Tools: a key of each tool interleaves the two chains, two generations
give an offer, and a recovery or a rework after it. A first TEST_RESULT and an
earlier one are what a retry can take for its own. Ten versions leave room for a
retry that is answered, a whole `request_final_review` with another TEST_RESULT
after it, and the retry again, which is then refused; longer histories are the
subject of the proofs. In `ingress` a Task may start with its rounds used up, so that
escalation is met too; in `trigger` an attestation is issued, ages and lapses.
All of these systems really may stop (a Task at DONE, a settled row, a joined
thread), so deadlock is not checked.

Fairness, and why the code justifies it:

* Lifecycle (in `SharedSweep`): time passes (`TaskDeadline`, `ReviewDeadline`)
  and the sweep runs, as `run_once` calls it on every tick whatever it or another
  worker raised before. The fairness is that of the whole transaction
  (`SweepTick`), which does nothing as long as another Task defies it; so both
  liveness properties except that, and say that after the cancel of that Task the
  obligation is there again. Nothing is assumed of people or agents, who may
  leave such a Task for ever, nor of the Dispatcher or of `RecoverAssignment`,
  which an exception in the sweep keeps from running.
* Processes (`outbox`, `projection`, `wake`, `local`): a call that was begun goes
  on, and one that is due is begun: the loop ticks every few seconds and catches
  what a worker raises. Time passes (`Due`, `Deadline`). Nothing is assumed of
  GitHub or the Reviewer. Death of a process may come at every step, but
  finitely often in `local`, and so may an exception of `handle_one` that is no
  `HubError`; the next claim is that of the restarted process. One that comes on
  every try is not covered: see the inbox in section 4.
* `host`: calls return, as their transports have time-outs; the main thread gets
  its turn. Nothing is assumed of `Shutdown` or of the probe.
* The others state no liveness.

## 4. What the runs and the reading show

`awaiting_forever` is a disagreement between a document and the code:
the contract of the v2 policy wants a Task time-out during a high-risk approval
to enter a disposition by the Human, and warns that no Review Gate may be taken
for it (`src/docs/PHASE6_STEP6_0_CONTRACT_REPORT.md:80`); the table of all Tasks
sends it to `ESCALATED` (`src/STATE_MACHINE.md:72`). The sweep asks for a Review Gate
all the same, to which `AWAITING_HUMAN_APPROVAL` has no edge. The exception undoes
the sweep of *all* Tasks, on every tick, and `recover_assignments` after it does
not run.

Met while modelling, and not turned into runs.

*Tasks, gates and findings*

* A re-plan leaves an `OFFERED` assignment live. Outside `EXECUTING` it can be
  neither claimed nor expire, and it refuses the assignment of the next approved
  plan (`worker_tasks.py:18`; `src/STATE_MACHINE.md:60`).
* A Task that times out before its first review request stands at a gate at
  which `_latest_gate_request` refuses every decision; only `cancel` is left
  (`governance.py:62`; `src/STATE_MACHINE.md:49`).
* `override_review` of a blocked Final result writes no completion basis, so DONE
  is not told apart (`governance.py:515`;
  `src/docs/contracts/V1_REVIEW_DECISION_POLICY.md:24`).
* The gateway's `submit_plan` creates its Task, so a Task that was sent back to
  `PLANNING` gets no new plan through it
  (`src/docs/PHASE6_STEP6_0_CONTRACT_REPORT.md:87`).
* After a Human's CONTINUE with the package as it was, no tool of the gateway
  asks for its review (`src/docs/PHASE6_STEP6_5_HUMAN_GATE_ABORT_REPORT.md:60`).
  CONTINUE may also keep a package made before a fix that is still unfinished;
  `PackagedWorkIsFinished` is about making a package, not about reviewing it.
* After `withdraw_action` of an expired PENDING action the Task stays in
  `AWAITING_HUMAN_APPROVAL` with nothing to decide; an assignment frozen while
  an action is awaited leaves `EXECUTING` without a way to self-test; a finding
  waived while an assignment must fix it blocks every later self-test; an
  assignment left offered when a time-out enters the Final gate makes MODIFY
  and the rework CONTINUE fail; `ESCALATED` is still reached by dual-round Tasks.

*Composite tools*

* A repeated, completed `request_final_review` fails when the approved plan is
  gone by then, as the tool reads it before it looks for its receipts
  (`src/DATA_MODEL.md:47`, `src/docs/ASYNC_REVIEW_SEQUENCE.md:38`). Hence
  `AnsweredCallReplays` speaks of the commands of the chain.
* A repeated, answered `retry_final_with_grok` is refused when another
  TEST_RESULT was handed in since: the chain passes the `self_test_id` of now to
  the keyed `self_test` command, which has the former one in its receipt
  (`grok_routing.py:117`, `common.py:100`). Likewise `request_final_review`
  packages the plan approved by now. Those are the two conditions of `SameCall`
  that are not the client's.
* Repeated with the other `begin_execution` and a fresh version it starts the
  execution before the chain is refused.

*Workers*

* Outbox: a lookup in doubt that fails retryably makes an `UNKNOWN` row a `RETRY`
  row, so the next claim is not in doubt and posts after a single empty lookup;
  `reconcile_misses` is reset by SENT only, so a second lost answer gets no
  second look. Two Dispatchers can both have a comment accepted. The settlement
  does not compare deadlines
  (`src/docs/PHASE6_STEP6_0A_MANUAL_GLUE_SUPERVISOR_CONTRACT.md:44`). An exception
  of an unknown kind leaves `UNKNOWN` without regard to the limit.
* Wake: a receipt that is stopped while leased keeps the status `LEASED`.
* Projection: a claim whose process dies before its POST ends `FAILED` without a
  comment, as nobody can tell; so does a comment that GitHub lists only after
  the last look; a lookup in doubt that keeps failing is repeated without limit.
* Inbox: `handle_one` takes the first READY event; if that raises anything but a
  `HubError`, later events wait behind it until it does not. `InboxDrains` allows
  this finitely often; an event that raises on every try blocks the inbox for good.
* Ingress: a push whose request escalates stays `PREPARED` and is answered with
  an error ever after. If the process dies between command and settlement and
  the push comes under another id, that delivery has another Task version, is
  refused as a reused key and becomes `REJECTED`, though the review was
  requested. Binding and route are two transactions; a push between them is
  `REJECTED` for good.
* Trigger: a fence is closed by any line that begins with its marks, also one
  that goes on. Two connectors that attest the same message at different
  times submit different inputs under one key; the second is refused.

## 5. Proofs

All theorems are about the specification without fairness, for every value of
the constants and every bound, from the named assumptions of the modules. The
runs show what they state on one instance; theorems without a property state
more than a run checks.

| Module | Theorem | Property |
|---|---|---|
| `ReviewSafety_proofs` | `TypeCorrect` | (types) |
| | `ActionsHold` | `OpenActionHoldsTask` |
| | `RowsAgree` | `ActiveRequestAgrees` |
| | `RoundsAreCapped` | (no third round) |
| | `HistoryStays` | `HistoryIsImmutable` |
| | `FrozenAtGate` | `FrozenExactlyAtGate` |
| | `ReviewsAreCurrent` | `ReviewedInputIsCurrent` |
| | `NoCodeWithoutPass` | `CodingNeedsPlanPass` |
| | `DoneHasItsReview` | `DoneIsEarned` |
| | `FindingsStay` | `FindingsHoldStill` |
| | `ReviewerAbsolves` | `ReviewerAloneAbsolves` |
| | `PromiseIsKept` | `KeepsReviewPromise`, the refinement of `ReviewPromise` |
| | `RequestLives` | (the refinement of `RequestLife`) |
| | `OnlyApprovalDefiesSweep` | (where a time-out is undone: in one state) |
| | `SharedTaskLives` | (a Task among others lives as one alone) |
| | `EndIsFinal` | (what has ended stays as it is) |
| | `AssignmentLives` | (the refinement of `AssignmentLife`) |
| | `VerdictIsOfFindings` | (a review passes exactly if nothing it answers for is open) |
| `BuilderTools_proofs` | `ToolTypes` | (types) |
| | `OneAtWork` | `OneLiveAssignment` |
| | `EvidenceIsOfTheClaim` | `EvidenceOfTheClaim` |
| | `EndedIsHistory` | (ended assignments stay) |
| | `ReviewsOwnPackage` | `EachCallReviewsItsPackage` |
| | `AnsweredReplays` | `AnsweredCallReplays` |
| | `PackagesAreFinished` | `PackagedWorkIsFinished` |
| | `AssignmentLives` | (the refinement of `AssignmentLife`) |
| `OutboxDelivery_proofs` | `PromiseIsKept` | `KeepsPromise`, the refinement |
| | `WakesAreCapped` | `SubmissionsWithinLimit` |
| | `SettledRowStays` | (a settled row stays) |
| | `ClosedIsQuiet` | `ClosedRequestIsQuiet` |
| | `OneDispatcherOneCopy` | (one Dispatcher, a prompt carrier: one copy) |
| | `RequestLives`, `AnyLifeIsMet` | (the refinement of `RequestLife`, and its converse) |
| `CommentProjection_proofs` | `PostedOnce` | `PostsOnce` |
| | `PromiseIsKept` | `KeepsPromise`, the refinement with one copy |
| `ReviewInbox_proofs` | `AnsweredOnce` | `OneReviewAsAnswered` |
| | `CauseIsGiven` | `RefusedForCause` |
| | `StaysOpen` | `OpenToItsReviewer` |
| | `AckedIsEvaluated` | `AckedWasEvaluated` |
| | `LocalAnswersToo` | (the three of the inbox, with local Reviewers) |
| | `RequestLives`, `LocalRequestLives` | (the refinement of `RequestLife`) |
| `GitHubIngress_proofs` | `RequestedOnce` | `OneRequestPerEvent` |
| | `AnswersAreTrue` | `AnsweredWithItsRequest` |
| | `PreparedIsRequested` | `RequestedAsPrepared` |
| | `AnswersAreKept` | (an answered delivery stays) |
| `TriggerIngress_proofs` | `OneTask` | `OneTaskAtATime` |
| | `LateCallsReplay` | `LateCallReplays` |
| | `AttestedTasks` | `TasksAreAttested`, if `ScannerIsRight` |
| `SupervisorHost_proofs` | `HungIsTold` | `HungIsNotReady` |
| | `WakesAreLimited` | `WakesWithinLimit` |
| | `AttemptCallsOnce` | (one call of the webhook for each attempt) |
| | `AnsweredIsLeftAlone` | `AnsweredIsNotWoken` |
| | `ReasonsAreTrue`, `FirstReasonStays` | (a stored reason to stop holds, and stays) |
| | `AnyReasonEndsWaking` | (of `WakingEnds` all but the progress) |
| | `WakedRequestLives` | (the refinement of `RequestLife`) |

*Lifecycle* (`ConstantsAssumption`). Types are proved action by action, from
lemmas on the edge table (`Moves`, `Sources`) and on replacing a row of the
request table. The rest stands on three invariants.

    Agreement == TypeOK /\ OpenActionHoldsTask /\ ActiveRequestAgrees

`ActiveRequestAgrees` alone is not inductive: `decide_action` moves the Task
without looking at its active request, which is harmless only because a PENDING
action keeps the Task where nothing is under review. `Founded` says which PASS
an approval carries: the approved plan is the current one and its scope, and some
completed Plan review has passed it; a package is of the current revision and of
an approved plan. It is what a re-plan, a modification and a rework have to undo, each
by its own part. `Earned` adds to `DoneIsEarned` that a basis is written at
DONE only, that a Final PASS leaves the Task DONE, and that the active request is
the last of its type. The steps are sorted
once by what they do to the request table (`Quiet Ends Completes Expires Asks
Starts`) and once by what they do to the work (`Stays Unapproves Tests Packs
Completes GateAccept`); each fact is then proved per kind.

`PromiseIsKept` is proved from `Agreement`, `Founded`, `Earned` and
`RoundsAreCapped`, again by kind of step: for a kind, the lemma says which
variables of the promise move, and the step of `ReviewPromise` follows. Two
things in the code are not self-evident there. A re-plan must take
back the approval *and* the package, or a package would go on under a plan that
was never passed; and a basis is written only with the step to DONE, or an outcome
would change after the fact. `RequestLives` sorts the steps by what they do to the
active request and its deadlines (`LifeKinds`); the point that needs `Agreement`
is that `Stop` never meets a request the Task no longer names.
`OnlyApprovalDefiesSweep` compares `Swept` with the edges into the two gates, for
which `BLOCKED` and `FAILED`, states the table knows but no event of a dual-round
Task leads to, have to be shown unreachable. It says of `awaiting_forever` that
this is the only such state, and so which Tasks `SharedSweep` has to count as
`defiant`; of a Task with an open review it says that its own part of the sweep
does not raise. `SharedTaskLives` makes the theorems about `Spec` theorems
about `SharedSpec`. `VerdictIsOfFindings` puts together what
`_complete` refuses (`VerdictHolds`) and what `aggregate_verdict` corrects: alone,
neither makes PASS and "nothing open" the same.

*Tools* (`AssignmentConstants`, `ToolConstants`). `HandsOK` is about assignments
alone: only the last one is open, and the uploads of earlier generations are no
younger than its claim. `Based` ties the Task to the last assignment.
`Chained` says that the receipts of a key name each other's results, whatever
was broken off in between; `Versioned`, that as long as the version in a
receipt is the Task's, its work is as that command left it. It is the
compare-and-set that turns one into the other: `OtherWork` covers all
commands that are not of the chain by "the version grew". `AssignmentLives` maps
the last generation; it needs `HandsOK` for "the live one is the last", and that a
report of progress, which only extends a lease that still runs, changes nothing.

*Outbox* (`DeliveryAssumption`). Claims are numbered by the row, so a process is
past its lease exactly if its number is not the row's; with "whoever posts is
within the limit" and "who believes in success saw a copy accepted" the invariant
is inductive. That one Dispatcher makes one copy needs more: while nothing is
listed, a copy can only be posted by a claim that is not in doubt, and a claim
that posted leaves doubt behind, also when it dies.

*Wake* (`WakeAssumption`). `AttemptsCounted` numbers the claims as in the outbox;
`OneCallAnAttempt` says that a process that has not yet called holds the number
of an attempt nobody has called for, and is what makes counting attempts a limit
on calls although a lease may lapse under its holder. `LeaseHasNoReason` (a row
that is leased has no reason yet) and `ReasonStands` (a reason, once stored, holds of
request and receipt for good) carry the rest: the late settlement of a process
that lost its lease can neither replace a reason nor give one that is untrue.

*Projection* (`ProjectionAssumption`). `Fresh` and `Sole` say who is free to post:
as long as no comment is listed, at most one call may still post or let the next
one post, nothing was posted while there is one, and there is none while the row
is READY or RETRY.

*Inbox* (`InboxAssumption`, `LocalAssumption`). `AppliedOnce` and `RequestsAgree`
tie reviews, rows and the Task's phase to each other; `Versions` says that no
result names a version of the future, and that the version moved when its request
ended; `Refusals` keeps the cause for each rejected row. Steps are either `Forward`
(they change the Task and the requests, and versions grow) or change a row of
the inbox. With local Reviewers, the steps of the intake map to steps of the inbox
or leave it alone; `JobsSpeakOnce` adds that only a job that is DONE has a row
under its key. For `RequestLives` one more fact is invariant, `OverdueIsOpen`: only
a Task with an open request is overdue. The steps of workers then need nothing of
the inbox but `InTime`, the check they all make in their transaction.

*Ingress* (`IngressAssumption`). `ReceiptsAgree` ties the command receipt of an
event to the requests made for it, in both directions; the one gives uniqueness,
the other that a replay names a request that exists. `RowsArePrepared` says that
past preparation a row is never READY, IGNORED or UNMAPPED again, so that a late
settlement meets only rows it may settle; `Apply`, which does not look at the
row, is harmless because both it and what it overwrites name the one request of
the event.

*Trigger* (`IngressConstants`). `ReceiptsNameTasks` and `OneIsLive` are read off
by the command, which sees both in one transaction; `LateIsKnown` says that a
call that comes late has its receipt, and submits what that receipt answered. What stands on
the scanner is conditional on `ScannerIsRight`: the scanner and its reference
are recursive functions on texts, and that they agree is an induction over data,
which TLC checks on short texts instead.

*Supervisor* (`HostConstants`). `CycleIsOlderThanCall`: the cycle record was
written before the call that hangs; `HealthyWasMoving`: a probe
that read "healthy" read it of a loop that was not yet hanging.

Only model-checked: all liveness (`ReviewEventuallyCloses`,
`AutomationComesToRest`, `DeliveryEnds`, `ProjectionEnds`, `WakingEnds`,
`InboxDrains`, `AtWorkUntilStopped`), for which this prover has no rules, and
the scanner against its reference. Every invariant and every action property of
a run is stated by a theorem.

## 6. What is left

In this order:

1. The request and the Task of `GitHubIngress`, `TriggerIngress` and `BuilderTools`
   shown to live as `RequestLife` and `ReviewPromise` say.
2. Scope containment as an operator against a reference.

## 7. Not modelled, and why

* Control center and read models only query and render. The gateway, MCP, HTTP
  and CLI tools other than the chains and the connector translate one call into
  one command and keep no state.
* Profiles, runtime wiring, the clock and the registry of Reviewers construct
  and configure.
* Artifacts are immutable and content-addressed: in the models an artifact is its
  identity.
* Signatures, digests and JSON schemas decide what is refused before any of the
  steps above; a schema is modelled only where it constrains a verdict.
* Tasks made without trigger evidence (protocol v1), with the older limits and with
  `BLOCKED` and `ESCALATED` as ends of a review, which the documents keep for
  history; and the scripts for installation and live verification.
