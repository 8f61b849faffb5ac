---------------------------- MODULE GitHubIngress ----------------------------
(***************************************************************************)
(* How a push to a pull request asks for the Final Review of its Task.     *)
(* GitHub delivers a webhook at least once, under one delivery id or under *)
(* several; each call of ingest runs in a thread of its own and takes      *)
(* several transactions: record the delivery, prepare it against the Task  *)
(* as it is then, request the review (an idempotent command, keyed by the  *)
(* event), settle the delivery.  Between any two of them the Task moves,   *)
(* another call handles the same delivery or the same event, or the call   *)
(* dies; what it left is taken up when GitHub delivers again.              *)
(*                                                                         *)
(* One Task and its pull request.  A review request is named by the Task   *)
(* version at which it was made, which it consumes.  The Task is modelled  *)
(* by what request_review reads of it; ReviewLifecycle has the rest.       *)
(***************************************************************************)
EXTENDS Naturals

CONSTANTS Handler,    \* calls of ingest that run at the same time
          Delivery,   \* values of X-GitHub-Delivery
          Body,       \* payloads, as raw_sha256 tells them apart
          Event,      \* values of canonical_key
          EventOf,    \* the event in a payload
          Advancing,  \* events that advance the Final Review (synchronize)
          FinalLimit, \* rounds of Final Reviews a Task may have
          MaxVersion  \* bound on the version of the Task

ASSUME IngressAssumption ==
  /\ EventOf \in [Body -> Event]
  /\ Advancing \subseteq Event
  /\ FinalLimit \in Nat /\ MaxVersion \in Nat

VARIABLES task,      \* the row of the Task
          reviewer,  \* reviewer of the pull request binding, "none" without one
          routed,    \* the Task has a route to the Grok reviewer
          requests,  \* Final Reviews requested for an event
          receipt,   \* command receipt of each event's request_review
          rows,      \* github_events
          proc       \* the calls of ingest

vars == <<task, reviewer, routed, requests, receipt, rows, proc>>

-----------------------------------------------------------------------------
EventStatus == {"NONE", "READY", "PREPARED", "APPLIED", "IGNORED", "UNMAPPED",
                "DUPLICATE_SEMANTIC", "REJECTED"}

Processed == {"APPLIED", "IGNORED", "UNMAPPED", "DUPLICATE_SEMANTIC", "REJECTED"}

Reviewer == {"none", "local", "grok"}

\* "ready": SELF_TESTING, tested and packaged, no active request, no open action, not expired.
TaskType == [version : Nat, ready : BOOLEAN, rounds : Nat]

RequestType == [event : Event, version : Nat]

\* "version" and "reviewer" are the input that a replay has to repeat.
ReceiptType == [status : {"NONE", "PENDING", "ESCALATED"}, version : Nat, reviewer : Reviewer]

\* "version" and "reviewer" are requested_version and reviewer_actor_id;
\* "request" is review_request_id, 0 as long as there is none.
RowType == [status : EventStatus, body : Body, version : Nat, reviewer : Reviewer,
            request : Nat]

CallType == [pc : {"idle", "process", "request", "reject", "apply"}, delivery : Delivery,
             request : Nat]

TypeOK ==
  /\ task \in TaskType
  /\ reviewer \in Reviewer
  /\ routed \in BOOLEAN
  /\ requests \in SUBSET RequestType
  /\ receipt \in [Event -> ReceiptType]
  /\ rows \in [Delivery -> RowType]
  /\ proc \in [Handler -> CallType]

Init ==
  /\ \E ready \in BOOLEAN, rounds \in 0..FinalLimit :
       task = [version |-> 1, ready |-> ready, rounds |-> rounds]
  /\ reviewer = "none" /\ routed = FALSE
  /\ requests = {}
  /\ receipt = [e \in Event |-> [status |-> "NONE", version |-> 0, reviewer |-> "none"]]
  /\ \E body \in Body :
       rows = [d \in Delivery |-> [status |-> "NONE", body |-> body, version |-> 0,
                                   reviewer |-> "none", request |-> 0]]
  /\ \E d \in Delivery : proc = [h \in Handler |-> [pc |-> "idle", delivery |-> d, request |-> 0]]

-----------------------------------------------------------------------------
(***************************************************************************)
(* The Task and its pull request.                                          *)
(***************************************************************************)
NextVersion(ready, rounds) ==
  task' = [version |-> task.version + 1, ready |-> ready, rounds |-> rounds]

\* Somebody works on the Task or asks for its review, or its deadline passes.
TaskMoves ==
  /\ \/ /\ task.version < MaxVersion
        /\ \E ready \in BOOLEAN : NextVersion(ready, task.rounds)
     \/ /\ task.version < MaxVersion /\ task.ready /\ task.rounds < FinalLimit
        /\ NextVersion(FALSE, task.rounds + 1)
     \/ task.ready /\ task' = [task EXCEPT !.ready = FALSE]
  /\ UNCHANGED <<reviewer, routed, requests, receipt, rows, proc>>

\* bind_pull_request, for good.
Bind ==
  /\ reviewer = "none"
  /\ reviewer' \in {"local", "grok"}
  /\ UNCHANGED <<task, routed, requests, receipt, rows, proc>>

\* route_future_reviews: for good, in a later transaction, without a new Task version.
Route ==
  /\ reviewer # "none" /\ ~routed
  /\ routed' = TRUE
  /\ UNCHANGED <<task, reviewer, requests, receipt, rows, proc>>

-----------------------------------------------------------------------------
Goes(h, pc) == proc' = [proc EXCEPT ![h].pc = pc]

RowOf(h) == rows[proc[h].delivery]

EventIn(h) == EventOf[RowOf(h).body]

(***************************************************************************)
(* ingest: a delivery id names one payload; another one under the same id  *)
(* is refused and leaves an audit entry only.                              *)
(***************************************************************************)
Ingest(h) ==
  /\ proc[h].pc = "idle"
  /\ \E d \in Delivery, body \in Body :
       /\ \/ /\ rows[d].status = "NONE"
             /\ rows' = [rows EXCEPT ![d].status = "READY", ![d].body = body]
          \/ /\ rows[d].status # "NONE" /\ rows[d].body = body
             /\ UNCHANGED rows
       /\ proc' = [proc EXCEPT ![h] = [pc |-> "process", delivery |-> d, request |-> 0]]
  /\ UNCHANGED <<task, reviewer, routed, requests, receipt>>

Settles(h, status, request) ==
  /\ rows' = [rows EXCEPT ![proc[h].delivery].status = status,
                          ![proc[h].delivery].request = request]
  /\ Goes(h, "idle")

\* Mutant: a delivery of the same event counts as soon as it was prepared.
OriginalsPrepared(h) ==
  {d \in Delivery \ {proc[h].delivery} :
     /\ EventOf[rows[d].body] = EventIn(h)
     /\ rows[d].status \in {"PREPARED", "APPLIED", "DUPLICATE_SEMANTIC"}}

Originals(h) ==
  {d \in Delivery \ {proc[h].delivery} :
     /\ EventOf[rows[d].body] = EventIn(h)
     /\ rows[d].status \in {"APPLIED", "DUPLICATE_SEMANTIC"}}

PreparedReviewer == IF routed THEN "grok" ELSE reviewer

\* A delivery prepared before keeps the version and the reviewer it was prepared with.
Prepare(h) ==
  /\ IF RowOf(h).status = "READY"
     THEN rows' = [rows EXCEPT ![proc[h].delivery].status = "PREPARED",
                               ![proc[h].delivery].version = task.version,
                               ![proc[h].delivery].reviewer = PreparedReviewer]
     ELSE UNCHANGED rows
  /\ Goes(h, "request")

\* process, up to the command.
Process(h) ==
  /\ proc[h].pc = "process"
  /\ \/ RowOf(h).status \in Processed /\ Goes(h, "idle") /\ UNCHANGED rows
     \/ /\ RowOf(h).status \notin Processed
        /\ \/ EventIn(h) \notin Advancing /\ Settles(h, "IGNORED", 0)
           \/ /\ EventIn(h) \in Advancing
              /\ \/ \E d \in Originals(h) : Settles(h, "DUPLICATE_SEMANTIC", rows[d].request)
                 \/ /\ Originals(h) = {}
                    /\ \/ reviewer = "none" /\ Settles(h, "UNMAPPED", 0)
                       \/ reviewer # "none" /\ Prepare(h)
  /\ UNCHANGED <<task, reviewer, routed, requests, receipt>>

-----------------------------------------------------------------------------
(***************************************************************************)
(* request_review, in one transaction: replay, refuse, escalate or create. *)
(***************************************************************************)
SameInput(h) ==
  /\ receipt[EventIn(h)].version = RowOf(h).version
  /\ receipt[EventIn(h)].reviewer = RowOf(h).reviewer

\* ESCALATED is no PENDING receipt: the call raises and leaves the row PREPARED.
Replay(h) ==
  /\ receipt[EventIn(h)].status # "NONE" /\ SameInput(h)
  /\ IF receipt[EventIn(h)].status = "PENDING"
     THEN proc' = [proc EXCEPT ![h].pc = "apply", ![h].request = receipt[EventIn(h)].version]
     ELSE Goes(h, "idle")
  /\ UNCHANGED <<task, requests, receipt>>

\* Mutant: the command is keyed by the delivery, so that the event has no receipt yet.
AcceptedPerDelivery(h) ==
  /\ RowOf(h).version = task.version
  /\ task.ready
  /\ RowOf(h).reviewer = "grok" => routed

\* Mutant: expected_version is not compared.
AcceptedAtAnyVersion(h) ==
  /\ receipt[EventIn(h)].status = "NONE"
  /\ task.ready
  /\ RowOf(h).reviewer = "grok" => routed

\* task_for, state and package of the Task, select_review_delivery_channel.
Accepted(h) ==
  /\ receipt[EventIn(h)].status = "NONE"
  /\ RowOf(h).version = task.version
  /\ task.ready
  /\ RowOf(h).reviewer = "grok" => routed

Refuse(h) ==
  /\ ~Accepted(h)
  /\ ~(receipt[EventIn(h)].status # "NONE" /\ SameInput(h))
  /\ Goes(h, "reject")
  /\ UNCHANGED <<task, requests, receipt>>

Consumes(h, status) ==
  receipt' = [receipt EXCEPT ![EventIn(h)] =
                [status |-> status, version |-> RowOf(h).version, reviewer |-> RowOf(h).reviewer]]

BeyondLimit(h) ==
  /\ Accepted(h) /\ task.rounds >= FinalLimit
  /\ Consumes(h, "ESCALATED")
  /\ NextVersion(FALSE, task.rounds)
  /\ Goes(h, "idle")
  /\ UNCHANGED requests

Create(h) ==
  /\ Accepted(h) /\ task.rounds < FinalLimit
  /\ Consumes(h, "PENDING")
  /\ requests' = requests \cup {[event |-> EventIn(h), version |-> task.version]}
  /\ NextVersion(FALSE, task.rounds + 1)
  /\ proc' = [proc EXCEPT ![h].pc = "apply", ![h].request = task.version]

RequestReview(h) ==
  /\ proc[h].pc = "request"
  /\ Replay(h) \/ Refuse(h) \/ BeyondLimit(h) \/ Create(h)
  /\ UNCHANGED <<reviewer, routed, rows>>

-----------------------------------------------------------------------------
AlreadySettled(h) == RowOf(h).status # "PREPARED"

\* The command was refused; somebody else may have settled the row since.
Reject(h) ==
  /\ proc[h].pc = "reject"
  /\ IF AlreadySettled(h)
     THEN UNCHANGED rows /\ Goes(h, "idle")
     ELSE Settles(h, "REJECTED", 0)
  /\ UNCHANGED <<task, reviewer, routed, requests, receipt>>

\* The command was accepted: whatever the row says meanwhile, it is APPLIED.
Apply(h) ==
  /\ proc[h].pc = "apply"
  /\ Settles(h, "APPLIED", proc[h].request)
  /\ UNCHANGED <<task, reviewer, routed, requests, receipt>>

\* The process dies, or the call ends with an exception that is no HubError.
Crash(h) ==
  /\ proc[h].pc # "idle"
  /\ Goes(h, "idle")
  /\ UNCHANGED <<task, reviewer, routed, requests, receipt, rows>>

-----------------------------------------------------------------------------
Handle(h) == Ingest(h) \/ Process(h) \/ RequestReview(h) \/ Reject(h) \/ Apply(h)

Next ==
  \/ TaskMoves \/ Bind \/ Route
  \/ \E h \in Handler : Handle(h) \/ Crash(h)

Spec == Init /\ [][Next]_vars

-----------------------------------------------------------------------------
(***************************************************************************)
(* A push asks for one review, under however many delivery ids it comes,   *)
(* whatever versions they were prepared at, and whichever calls died       *)
(* between the command and its settlement.                                 *)
(***************************************************************************)
OneRequestPerEvent == \A r, s \in requests : r.event = s.event => r = s

(***************************************************************************)
(* A delivery that is answered with a review request is answered with one  *)
(* that exists and that its own push asked for.                            *)
(***************************************************************************)
AnsweredWithItsRequest ==
  \A d \in Delivery : rows[d].status \in {"APPLIED", "DUPLICATE_SEMANTIC"} =>
    [event |-> EventOf[rows[d].body], version |-> rows[d].request] \in requests

(***************************************************************************)
(* What a push asks to be reviewed is the Task as it was when a delivery   *)
(* of that push was prepared; a delivery taken up again after the Task     *)
(* moved on asks for nothing.                                              *)
(***************************************************************************)
RequestedAsPrepared ==
  \A r \in requests : \E d \in Delivery :
    /\ EventOf[rows[d].body] = r.event
    /\ rows[d].version = r.version

(***************************************************************************)
(* Answers stay: a delivery keeps its payload and the request it was       *)
(* answered with, however late a second call of ingest settles it; and     *)
(* what was ignored or unmapped stays so.                                  *)
(***************************************************************************)
AnswersStay ==
  [][\A d \in Delivery :
       /\ rows[d].status # "NONE" => rows'[d].body = rows[d].body
       /\ rows[d].request # 0 => rows'[d].request = rows[d].request
       /\ rows[d].status \in {"IGNORED", "UNMAPPED"} => rows'[d] = rows[d]]_vars
=============================================================================
