----------------------------- MODULE ReviewInbox -----------------------------
(***************************************************************************)
(* How a Reviewer's events reach the Task.  The Reviewer reads the request *)
(* and with it the Task version its result has to name, and posts events:  *)
(* late, twice, in any order, under keys of its choice.  Each is recorded  *)
(* in the inbox; event workers take the oldest READY row in one            *)
(* transaction, judge it in a second and, if it is refused, say so in a    *)
(* third.  In between other workers judge the same row, the deadline       *)
(* passes, the Task is aborted, or its version moves under the result.     *)
(*                                                                         *)
(* Two events are one here when their normalized hashes are: an answer     *)
(* stands for verdict, findings and execution identity.  The Task is       *)
(* modelled by what the inbox reads and writes of it; ReviewLifecycle has  *)
(* the rest.  LocalReviewer adds the requests that are evaluated locally.  *)
(***************************************************************************)
EXTENDS Naturals

CONSTANTS Handler,      \* threads and processes that run handle_one
          PostKey,      \* deduplication keys the Reviewer posts under
          Answer,       \* results a Reviewer may come to
          Valid,        \* answers that pass the result schema and the frozen bindings
          Acceptable,   \* valid answers that pass the findings and verdict rules too
          ReviewerType, \* "grok_bot", "mock": the Reviewers that may be asked
          MaxRequests,  \* bound on the review requests of the Task
          MaxVersion,   \* bound on the version up to which the Task is touched
          MaxFaults     \* bound on the tries that fail, by death or exception

ASSUME InboxAssumption ==
  /\ Acceptable \subseteq Valid /\ Valid \subseteq Answer
  /\ "none" \notin Answer
  /\ ReviewerType \subseteq {"grok_bot", "mock"}
  /\ MaxRequests \in Nat /\ MaxVersion \in Nat /\ MaxFaults \in Nat

VARIABLES task,      \* the row of the Task
          routing,   \* "none", "bound" to a pull request, or "routed" to Grok as well
          requests,  \* review_requests, and the review of each
          seen,      \* the version at which the Reviewer last read each request, 0 if never
          inbox,     \* inbox_events, by the key of their receipt
          received,  \* number of rows so far, in the order of which they are taken
          proc,      \* the calls of handle_one
          faults     \* crashes so far

taskVars == <<task, requests>>
vars == <<task, routing, requests, seen, inbox, received, proc, faults>>

-----------------------------------------------------------------------------
Request == 1..MaxRequests

\* A local evaluation posts under the key of its request.
Key == PostKey \cup Request

ActiveRequest == {"PENDING", "IN_PROGRESS"}

\* "gate": frozen, at a Human Gate or ESCALATED; "over": terminal.
\* "overdue": the active request is past its deadline.
TaskType == [version : Nat, phase : {"open", "gate", "over"}, active : Nat, asked : Nat,
             overdue : BOOLEAN]

ResultType == [answer : Answer \cup {"none"}, version : Nat]

NoResult == [answer |-> "none", version |-> 0]

\* "ENDED" stands for TIMED_OUT, FAILED and ESCALATED, "version" is the
\* expected_task_version of the envelope, "result" the stored review.
RequestType ==
  [status : ActiveRequest \cup {"NONE", "COMPLETED", "ENDED"},
   channel : {"none", "REVIEWER_HTTP", "GITHUB_COMMENT", "LOCAL_ADAPTER"},
   version : Nat, result : ResultType]

EventType == {"none", "ReviewStarted", "ReviewCompleted", "ReviewFailed"}

Settled == {"APPLIED", "DUPLICATE", "LATE_EVENT", "REJECTED"}

\* "at" is the rowid; "original" is duplicate_of_ingress_id.
RowType ==
  [status : Settled \cup {"NONE", "READY"}, at : Nat, type : EventType,
   request : Nat, result : ResultType, original : Nat]

NoRow == [status |-> "NONE", at |-> 0, type |-> "none", request |-> 0,
          result |-> NoResult, original |-> 0]

\* "key" is 0 while the worker is idle.
CallType == [pc : {"idle", "judge", "reject"}, key : Key \cup {0}]

Idle == [pc |-> "idle", key |-> 0]

TypeOK ==
  /\ task \in TaskType
  /\ routing \in {"none", "bound", "routed"}
  /\ requests \in [Request -> RequestType]
  /\ seen \in [Request -> Nat]
  /\ inbox \in [Key -> RowType]
  /\ \A k \in Key : inbox[k].status # "NONE" => inbox[k].request \in Request
  /\ received \in Nat
  /\ proc \in [Handler -> CallType]
  /\ \A h \in Handler : proc[h].pc # "idle" =>
       proc[h].key \in Key /\ inbox[proc[h].key].status # "NONE"
  /\ faults \in Nat

Init ==
  /\ task = [version |-> 0, phase |-> "open", active |-> 0, asked |-> 0,
             overdue |-> FALSE]
  /\ routing = "none"
  /\ requests = [r \in Request |-> [status |-> "NONE", channel |-> "none", version |-> 0,
                                    result |-> NoResult]]
  /\ seen = [r \in Request |-> 0]
  /\ inbox = [k \in Key |-> NoRow]
  /\ received = 0
  /\ proc = [h \in Handler |-> Idle]
  /\ faults = 0

-----------------------------------------------------------------------------
(***************************************************************************)
(* The request and its delivery channel.                                   *)
(***************************************************************************)
Channels ==
  {channel \in {"LOCAL_ADAPTER", "REVIEWER_HTTP", "GITHUB_COMMENT"} :
     CASE channel = "LOCAL_ADAPTER"  -> "mock" \in ReviewerType
       [] channel = "REVIEWER_HTTP"  -> "grok_bot" \in ReviewerType /\ routing = "none"
       [] channel = "GITHUB_COMMENT" -> "grok_bot" \in ReviewerType /\ routing = "routed"}

\* request_review: the version it names is the one it makes.
Ask ==
  /\ task.phase = "open" /\ task.active = 0 /\ task.asked < MaxRequests
  /\ task' = [task EXCEPT !.version = @ + 1, !.active = task.asked + 1, !.asked = @ + 1]
  /\ \E channel \in Channels :
       requests' = [requests EXCEPT ![task.asked + 1] =
                      [status |-> "PENDING", channel |-> channel, version |-> task.version + 1,
                       result |-> NoResult]]
  /\ UNCHANGED <<routing, seen, inbox, received, proc, faults>>

\* bind_pull_request and route_future_reviews, each for good.
Route ==
  /\ \/ routing = "none" /\ routing' = "bound"
     \/ routing = "bound" /\ routing' = "routed"
  /\ UNCHANGED <<task, requests, seen, inbox, received, proc, faults>>

\* Mutant: the channel is chosen again for the pull request as it is now.
MatchesByNow(r) == requests[r].channel \in Channels \ {"LOCAL_ADAPTER"}

ContractMatches(r) ==
  \/ requests[r].channel = "REVIEWER_HTTP"
  \/ requests[r].channel = "GITHUB_COMMENT" /\ routing = "routed"

Current(r) ==
  /\ requests[r].status \in ActiveRequest
  /\ task.active = r /\ task.phase = "open" /\ ~task.overdue

\* grok_request: the frozen request, with the version of the Task as it is now.
Read ==
  /\ \E r \in Request :
       /\ Current(r) /\ ContractMatches(r)
       /\ seen' = [seen EXCEPT ![r] = task.version]
  /\ UNCHANGED <<task, routing, requests, inbox, received, proc, faults>>

-----------------------------------------------------------------------------
(***************************************************************************)
(* What else ends a request, or moves the version under it.                *)
(***************************************************************************)
\* stop_request and the state it leads to.
Stops(phase) ==
  /\ requests' = IF task.active = 0 THEN requests
                 ELSE [requests EXCEPT ![task.active].status = "ENDED"]
  /\ task' = [task EXCEPT !.version = @ + 1, !.active = 0, !.phase = phase, !.overdue = FALSE]

Expire ==
  /\ task.active # 0 /\ ~task.overdue
  /\ task' = [task EXCEPT !.overdue = TRUE]
  /\ UNCHANGED <<routing, requests, seen, inbox, received, proc, faults>>

Sweep ==
  /\ task.phase = "open" /\ task.overdue
  /\ Stops("gate")
  /\ UNCHANGED <<routing, seen, inbox, received, proc, faults>>

\* The delivery fails, or an approval expires.
Halt ==
  /\ task.phase = "open" /\ task.active # 0
  /\ Stops("gate")
  /\ UNCHANGED <<routing, seen, inbox, received, proc, faults>>

Abort ==
  /\ task.phase # "over"
  /\ Stops("over")
  /\ UNCHANGED <<routing, seen, inbox, received, proc, faults>>

\* The Human answers the gate.
Resume ==
  /\ task.phase = "gate" /\ task.asked < MaxRequests
  /\ task' = [task EXCEPT !.version = @ + 1, !.phase = "open"]
  /\ UNCHANGED <<routing, requests, seen, inbox, received, proc, faults>>

\* withdraw_action, the one command a Task under review accepts.
Touch ==
  /\ task.phase = "open" /\ task.active # 0 /\ task.version < MaxVersion
  /\ task' = [task EXCEPT !.version = @ + 1]
  /\ UNCHANGED <<routing, requests, seen, inbox, received, proc, faults>>

-----------------------------------------------------------------------------
(***************************************************************************)
(* persist_event.  A key names one event: the same event under it is       *)
(* acknowledged again, another one is refused, and neither leaves a row.   *)
(***************************************************************************)
Recorded(k) == inbox[k].status # "NONE"

SameEvent(k, type, r, result) ==
  inbox[k].type = type /\ inbox[k].request = r /\ inbox[k].result = result

\* The row that a new one repeats under another key, 0 without one.
Original(type, r, result) ==
  IF \E k \in Key : SameEvent(k, type, r, result)
  THEN (CHOOSE n \in 1..received :
          /\ \E k \in Key : inbox[k].at = n /\ SameEvent(k, type, r, result)
          /\ \A k \in Key : SameEvent(k, type, r, result) => n <= inbox[k].at)
  ELSE 0

Persist(k, type, r, result) ==
  IF Recorded(k)
  THEN UNCHANGED <<inbox, received>>
  ELSE /\ inbox' = [inbox EXCEPT ![k] =
                      [status |-> "READY", at |-> received + 1, type |-> type, request |-> r,
                       result |-> result, original |-> Original(type, r, result)]]
       /\ received' = received + 1

\* validate_grok_event_route and ingest, for an event about a request that was read.
Post(k) ==
  /\ \E r \in Request :
       /\ seen[r] # 0 /\ ContractMatches(r)
       /\ \/ \E type \in {"ReviewStarted", "ReviewFailed"} : Persist(k, type, r, NoResult)
          \/ \E answer \in Answer :
               Persist(k, "ReviewCompleted", r, [answer |-> answer, version |-> seen[r]])
  /\ UNCHANGED <<task, routing, requests, seen, proc, faults>>

-----------------------------------------------------------------------------
(***************************************************************************)
(* handle_one.                                                             *)
(***************************************************************************)
Leaves(h) == proc' = [proc EXCEPT ![h] = Idle]

Refused(h) == proc' = [proc EXCEPT ![h].pc = "reject"]

Oldest(k) ==
  /\ inbox[k].status = "READY"
  /\ \A j \in Key : inbox[j].status = "READY" => inbox[k].at <= inbox[j].at

Take(h) ==
  /\ proc[h].pc = "idle"
  /\ \E k \in Key : Oldest(k) /\ proc' = [proc EXCEPT ![h] = [pc |-> "judge", key |-> k]]
  /\ UNCHANGED <<task, routing, requests, seen, inbox, received, faults>>

Finishes(h, outcome) ==
  /\ inbox' = [inbox EXCEPT ![proc[h].key].status = outcome]
  /\ Leaves(h)

\* A result for a request that has its review.
Answered(row) ==
  row.type = "ReviewCompleted" /\ requests[row.request].result # NoResult

Late(row) ==
  requests[row.request].status \notin ActiveRequest \/ task.phase # "open"

\* Mutant: the version frozen in the request is asked for.
FrozenVersionMisses(row) ==
  /\ row.type = "ReviewCompleted"
  /\ row.result.answer \notin Valid \/ row.result.version # requests[row.request].version

\* result schema and result_binding_error
BindingError(row) ==
  /\ row.type = "ReviewCompleted"
  /\ row.result.answer \notin Valid \/ row.result.version # task.version

JudgeRepeated(h, row) ==
  /\ Answered(row)
  /\ IF row.result = requests[row.request].result
     THEN Finishes(h, "DUPLICATE")
     ELSE Refused(h) /\ UNCHANGED inbox
  /\ UNCHANGED taskVars

JudgeLate(h, row) ==
  /\ ~Answered(row) /\ Late(row)
  /\ Finishes(h, "LATE_EVENT")
  /\ UNCHANGED taskVars

JudgeUnbound(h, row) ==
  /\ ~Answered(row) /\ ~Late(row) /\ BindingError(row)
  /\ Refused(h)
  /\ UNCHANGED <<taskVars, inbox>>

\* The deadline ends the review, though an answer is at hand.
JudgeExpired(h, row) ==
  /\ ~Answered(row) /\ ~Late(row) /\ ~BindingError(row)
  /\ task.overdue
  /\ Stops("gate")
  /\ Finishes(h, "LATE_EVENT")

InTime(row) ==
  ~Answered(row) /\ ~Late(row) /\ ~BindingError(row) /\ ~task.overdue

Begin(h, row) ==
  /\ InTime(row) /\ row.type = "ReviewStarted"
  /\ IF requests[row.request].status = "PENDING"
     THEN /\ requests' = [requests EXCEPT ![row.request].status = "IN_PROGRESS"]
          /\ task' = [task EXCEPT !.version = @ + 1]
     ELSE UNCHANGED taskVars
  /\ Finishes(h, "APPLIED")

Fail(h, row) ==
  /\ InTime(row) /\ row.type = "ReviewFailed"
  /\ Stops("gate")
  /\ Finishes(h, "APPLIED")

\* _complete; a BLOCK or the last round leads to a gate.
Complete(h, row) ==
  /\ InTime(row) /\ row.type = "ReviewCompleted" /\ row.result.answer \in Acceptable
  /\ requests' = [requests EXCEPT ![row.request].status = "COMPLETED",
                                  ![row.request].result = row.result]
  /\ \E phase \in {"open", "gate", "over"} :
       task' = [task EXCEPT !.version = @ + 1, !.active = 0, !.phase = phase,
                             !.overdue = FALSE]
  /\ Finishes(h, "APPLIED")

JudgeUnacceptable(h, row) ==
  /\ InTime(row) /\ row.type = "ReviewCompleted" /\ row.result.answer \notin Acceptable
  /\ Refused(h)
  /\ UNCHANGED <<taskVars, inbox>>

\* Mutant: the row is judged without a second look at its status.
NeverSettled(h) == FALSE

AlreadySettled(h) == inbox[proc[h].key].status # "READY"

Judge(h) ==
  /\ proc[h].pc = "judge"
  /\ \/ AlreadySettled(h) /\ Leaves(h) /\ UNCHANGED <<taskVars, inbox>>
     \/ /\ ~AlreadySettled(h)
        /\ LET row == inbox[proc[h].key] IN
             \/ JudgeRepeated(h, row) \/ JudgeLate(h, row) \/ JudgeUnbound(h, row)
             \/ JudgeExpired(h, row) \/ Begin(h, row) \/ Fail(h, row)
             \/ Complete(h, row) \/ JudgeUnacceptable(h, row)
  /\ UNCHANGED <<routing, seen, received, faults>>

\* Mutant: the refusal is logged only.
RefusesNone(h) == Leaves(h) /\ UNCHANGED inbox

Refuses(h) ==
  IF inbox[proc[h].key].status = "READY"
  THEN Finishes(h, "REJECTED")
  ELSE Leaves(h) /\ UNCHANGED inbox

Reject(h) ==
  /\ proc[h].pc = "reject"
  /\ Refuses(h)
  /\ UNCHANGED <<task, routing, requests, seen, received, faults>>

\* The worker dies, or its call ends with an exception that is no HubError.
Crash(h) ==
  /\ proc[h].pc # "idle" /\ faults < MaxFaults
  /\ Leaves(h)
  /\ faults' = faults + 1
  /\ UNCHANGED <<task, routing, requests, seen, inbox, received>>

-----------------------------------------------------------------------------
Handle(h) == Take(h) \/ Judge(h) \/ Reject(h)

\* What other parts of the Hub do to the Task of the inbox; Abort is a part
\* of its own because it also ends the work of a local Reviewer.
Elsewhere == Ask \/ Route \/ Expire \/ Sweep \/ Halt \/ Resume \/ Touch

Next ==
  \/ Elsewhere \/ Abort \/ Read
  \/ \E k \in PostKey : Post(k)
  \/ \E h \in Handler : Handle(h) \/ Crash(h)

Fairness == \A h \in Handler : WF_vars(Handle(h))

Spec == Init /\ [][Next]_vars /\ Fairness
-----------------------------------------------------------------------------
(***************************************************************************)
(* A request has a review exactly when it is COMPLETED, and exactly one    *)
(* row of the inbox is the one that was applied; every other row that is   *)
(* reported to the Reviewer as accepted has the very same content.         *)
(***************************************************************************)
OneReviewAsAnswered ==
  \A r \in Request :
    LET Results(statuses) == {k \in Key : /\ inbox[k].type = "ReviewCompleted"
                                          /\ inbox[k].request = r
                                          /\ inbox[k].status \in statuses}
    IN /\ requests[r].status = "COMPLETED" <=> requests[r].result # NoResult
       /\ requests[r].status = "COMPLETED" <=> Results({"APPLIED"}) # {}
       /\ \A j, k \in Results({"APPLIED"}) : j = k
       /\ \A k \in Results({"APPLIED", "DUPLICATE"}) : inbox[k].result = requests[r].result

(***************************************************************************)
(* The Reviewer is refused only for cause: its answer breaks a rule, or    *)
(* the Task has moved since the Reviewer read the request.  Events other   *)
(* than results are never refused.                                         *)
(***************************************************************************)
RefusedForCause ==
  \A k \in Key : inbox[k].status = "REJECTED" =>
    /\ inbox[k].type = "ReviewCompleted"
    /\ inbox[k].result.answer \in Acceptable => inbox[k].result.version < task.version

(***************************************************************************)
(* As long as a request waits for a Reviewer outside the Hub, the routing  *)
(* does not shut that Reviewer out of reading it and posting to it,        *)
(* whatever was bound or routed after the request was made.  (Its deadline *)
(* does: an overdue request cannot be read any more, see Read.)            *)
(***************************************************************************)
OpenToItsReviewer ==
  \A r \in Request :
    requests[r].status \in ActiveRequest /\ requests[r].channel # "LOCAL_ADAPTER"
      => ContractMatches(r)

(***************************************************************************)
(* Each event that was recorded is settled in the end, if the transactions *)
(* that handle it fail finitely often (MaxFaults): by the death of the     *)
(* worker, or by an exception that is no HubError.  An event that raises   *)
(* one on every try would stay READY for ever, as would all behind it.     *)
(***************************************************************************)
InboxDrains == \A k \in Key : inbox[k].status = "READY" ~> inbox[k].status \in Settled
=============================================================================
