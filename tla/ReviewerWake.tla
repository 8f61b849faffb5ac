---------------------------- MODULE ReviewerWake ----------------------------
(***************************************************************************)
(* How the Reviewer learns of one review request over HTTP: the intake     *)
(* receipt, by which the request is discoverable at /reviewer/requests and *)
(* which the Reviewer acknowledges by reading it, and the wake receipt of  *)
(* the worker that calls the Reviewer's webhook until the request is read. *)
(* The webhook is a mere notification: its 2xx answer proves nothing, the  *)
(* call may be repeated, and what ends it is stored as terminal_reason.    *)
(*                                                                         *)
(* OutboxDelivery has the Dispatcher that publishes the request,           *)
(* ReviewLifecycle the Task; of both only the steps that the workers here  *)
(* look at are kept.  The webhook is called outside any transaction.  How  *)
(* long a retry waits is abstracted to whether it is due.                  *)
(***************************************************************************)
EXTENDS Naturals

CONSTANTS Waker,     \* processes that run the wake worker
          MaxWakes   \* _MAX_TOTAL_ATTEMPTS

ASSUME WakeAssumption == MaxWakes \in Nat \ {0}

VARIABLES channel,  \* delivery_channel frozen in the request
          request,  \* status of the request; CLOSED stands for every other end
          late,     \* the deadline of the request or of the Task has passed
          outbox,   \* status of the outbox row, as far as these workers look
          intake,   \* status of the intake receipt
          event,    \* the ReviewStarted or ReviewCompleted events of the Reviewer
          wake,     \* the wake receipt
          call,     \* the run_one call of each Waker
          woken     \* attempts whose webhook call was made

wakeVars == <<channel, request, late, outbox, intake, event, wake, call, woken>>

surroundings == <<channel, request, late, outbox, intake, event>>

-----------------------------------------------------------------------------
Channel == {"REVIEWER_HTTP", "GITHUB_COMMENT"}

RequestStatus == {"PENDING", "IN_PROGRESS", "COMPLETED", "TIMED_OUT", "CLOSED"}

ActiveRequest == {"PENDING", "IN_PROGRESS"}

Receipt == {"NONE", "READY", "ACKED", "FAILED"}

EventStatus == {"NONE", "READY", "APPLIED", "REFUSED"}

WakeStatus == Receipt \cup {"LEASED", "UNKNOWN"}

Reason == {"NONE", "RR_DEADLINE_REACHED", "REVIEW_COMPLETED", "REVIEWER_INTAKE_ACKED",
           "REVIEWER_EVENT_RECEIVED", "RR_STALE_OR_SUPERSEDED",
           "WAKE_ATTEMPTS_EXHAUSTED", "PERMANENT_WAKE_REJECTION"}

\* "token": the lease, 0 without one; "due": lease_until or next_retry_at is past.
WakeRow == [status : WakeStatus, attempts : Nat, token : Nat, due : BOOLEAN, reason : Reason]

NoCall == [pc |-> "idle", claim |-> 0, outcome |-> "ACKED"]

CallType == [pc : {"idle", "check", "send", "settle"}, claim : Nat,
             outcome : {"ACKED", "UNKNOWN", "FAILED"}]

WakeTypeOK ==
  /\ channel \in Channel /\ request \in RequestStatus /\ late \in BOOLEAN
  /\ outbox \in {"UNSENT", "SENT", "CANCELLED"}
  /\ intake \in Receipt /\ event \in EventStatus
  /\ wake \in WakeRow
  /\ call \in [Waker -> CallType]
  /\ woken \in SUBSET Nat

WakeInit ==
  /\ channel \in Channel
  /\ request = "PENDING" /\ late = FALSE
  /\ outbox = "UNSENT" /\ intake = "NONE" /\ event = "NONE"
  /\ wake = [status |-> "NONE", attempts |-> 0, token |-> 0, due |-> TRUE, reason |-> "NONE"]
  /\ call = [w \in Waker |-> NoCall]
  /\ woken = {}

-----------------------------------------------------------------------------
(***************************************************************************)
(* Dispatcher, Reviewer and Hub, as far as a wake depends on them.         *)
(***************************************************************************)
\* RemoteReviewerIntakeWorker._route_is_current
Current == request \in ActiveRequest /\ ~late

Quiet == UNCHANGED <<wake, call, woken>>

\* publish: over HTTP the intake receipt is the delivery, written before SENT.
Publish ==
  /\ channel = "REVIEWER_HTTP" /\ outbox = "UNSENT"
  /\ Current /\ intake = "NONE"
  /\ intake' = "READY"
  /\ UNCHANGED <<channel, request, late, outbox, event>> /\ Quiet

\* The Dispatcher settles an accepted delivery.
Sent ==
  /\ outbox = "UNSENT" /\ request \in ActiveRequest
  /\ channel = "REVIEWER_HTTP" => intake # "NONE"
  /\ outbox' = "SENT"
  /\ UNCHANGED <<channel, request, late, intake, event>> /\ Quiet

\* RemoteReviewerIntakeWorker.run_one
Discover ==
  /\ outbox = "SENT" /\ Current /\ intake = "NONE"
  /\ intake' = "READY"
  /\ UNCHANGED <<channel, request, late, outbox, event>> /\ Quiet

Expire ==
  /\ outbox = "SENT" /\ ~Current /\ intake = "READY"
  /\ intake' = "FAILED"
  /\ UNCHANGED <<channel, request, late, outbox, event>> /\ Quiet

Available == outbox = "SENT" /\ Current

\* acknowledge: the authenticated Reviewer reads the frozen request.
Acknowledge ==
  /\ Available /\ intake \in {"NONE", "READY"}
  /\ intake' = "ACKED"
  /\ UNCHANGED <<channel, request, late, outbox, event>> /\ Quiet

\* The Reviewer posts an event; it need not have read the request over HTTP.
ReviewerEvent ==
  /\ event \in {"NONE", "REFUSED"}
  /\ event' = "READY"
  /\ UNCHANGED <<channel, request, late, outbox, intake>> /\ Quiet

\* handle_one: applied while the request is active and in time, late otherwise.
ApplyEvent ==
  /\ event = "READY"
  /\ \/ /\ Current
        /\ event' = "APPLIED"
        /\ \/ request = "PENDING" /\ request' = "IN_PROGRESS"
           \/ request' = "COMPLETED"
        /\ UNCHANGED outbox
     \/ /\ event' = "REFUSED"
        /\ UNCHANGED <<request, outbox>>
     \/ /\ request \in ActiveRequest /\ late
        /\ event' = "REFUSED"
        /\ request' = "TIMED_OUT"
        /\ outbox' = IF outbox = "SENT" THEN outbox ELSE "CANCELLED"
  /\ UNCHANGED <<channel, late, intake>> /\ Quiet

\* stop_request in a time-out, a failure or a Human decision.
Close(status) ==
  /\ request \in ActiveRequest
  /\ status = "TIMED_OUT" => late
  /\ request' = status
  /\ outbox' = IF outbox = "SENT" THEN outbox ELSE "CANCELLED"
  /\ UNCHANGED <<channel, late, intake, event>> /\ Quiet

\* The result of a review that was started.
Complete ==
  /\ request = "IN_PROGRESS" /\ ~late
  /\ request' = "COMPLETED"
  /\ UNCHANGED <<channel, late, outbox, intake, event>> /\ Quiet

Deadline ==
  /\ ~late
  /\ late' = TRUE
  /\ UNCHANGED <<channel, request, outbox, intake, event>> /\ Quiet

-----------------------------------------------------------------------------
\* Mutant: a request that was read is waked for until the review starts.
StopReasonUnread ==
  IF late \/ request = "TIMED_OUT" THEN "RR_DEADLINE_REACHED"
  ELSE IF request = "COMPLETED" THEN "REVIEW_COMPLETED"
  ELSE IF event = "APPLIED" THEN "REVIEWER_EVENT_RECEIVED"
  ELSE IF channel # "REVIEWER_HTTP" \/ request # "PENDING" THEN "RR_STALE_OR_SUPERSEDED"
  ELSE "NONE"

\* _stop_reason
StopReason ==
  IF late \/ request = "TIMED_OUT" THEN "RR_DEADLINE_REACHED"
  ELSE IF request = "COMPLETED" THEN "REVIEW_COMPLETED"
  ELSE IF intake = "ACKED" THEN "REVIEWER_INTAKE_ACKED"
  ELSE IF event = "APPLIED" THEN "REVIEWER_EVENT_RECEIVED"
  ELSE IF channel # "REVIEWER_HTTP" \/ request # "PENDING" THEN "RR_STALE_OR_SUPERSEDED"
  ELSE "NONE"

Call(w, next) == call' = [call EXCEPT ![w] = next]

\* _stop: the first reason stays; the status stays too, LEASED included.
Stopped(reason) == IF wake.reason # "NONE" THEN wake
                   ELSE [wake EXCEPT !.reason = reason, !.token = 0, !.due = TRUE]

(***************************************************************************)
(* _claim: stops a wake that is not needed any more, waits while an event  *)
(* of the Reviewer is still to be judged, and leases the receipt.          *)
(***************************************************************************)
Stoppable == outbox = "SENT" /\ wake.status # "NONE"

ClaimStops(w) ==
  /\ call[w].pc = "idle"
  /\ Stoppable
  /\ StopReason # "NONE"
  /\ wake' = Stopped(StopReason)
  /\ UNCHANGED <<call, woken, surroundings>>

Wakeable == /\ outbox = "SENT" /\ StopReason = "NONE" /\ event # "READY"
            /\ intake = "READY"
            /\ wake.reason = "NONE"

\* Mutant: off by one.
UsedUpLate == wake.attempts > MaxWakes

UsedUp == wake.attempts >= MaxWakes

ClaimExhausted(w) ==
  /\ call[w].pc = "idle"
  /\ Wakeable /\ UsedUp
  /\ wake' = Stopped("WAKE_ATTEMPTS_EXHAUSTED")
  /\ UNCHANGED <<call, woken, surroundings>>

Claim(w) ==
  /\ call[w].pc = "idle"
  /\ Wakeable /\ ~UsedUp
  /\ wake.due
  /\ wake' = [wake EXCEPT !.status = "LEASED", !.attempts = @ + 1,
                          !.token = wake.attempts + 1, !.due = FALSE]
  /\ Call(w, [pc |-> "check", claim |-> wake.attempts + 1, outcome |-> "ACKED"])
  /\ UNCHANGED <<woken, surroundings>>

-----------------------------------------------------------------------------
HoldsLease(w) == wake.status = "LEASED" /\ wake.token = call[w].claim

(***************************************************************************)
(* run_one: a second look before the call; everything may have changed.    *)
(***************************************************************************)
SecondLook(w) ==
  /\ call[w].pc = "check"
  /\ \/ /\ ~HoldsLease(w)
        /\ Call(w, NoCall) /\ UNCHANGED wake
     \/ /\ HoldsLease(w) /\ StopReason # "NONE"
        /\ wake' = Stopped(StopReason)
        /\ Call(w, NoCall)
     \/ /\ HoldsLease(w) /\ StopReason = "NONE" /\ event = "READY"
        /\ wake' = [wake EXCEPT !.status = "UNKNOWN", !.token = 0, !.due = FALSE]
        /\ Call(w, NoCall)
     \/ /\ HoldsLease(w) /\ StopReason = "NONE" /\ event # "READY"
        /\ Call(w, [call[w] EXCEPT !.pc = "send"]) /\ UNCHANGED wake
  /\ UNCHANGED <<woken, surroundings>>

\* The webhook call: accepted, failed for now or without an answer, or refused.
Send(w) ==
  /\ call[w].pc = "send"
  /\ woken' = woken \cup {call[w].claim}
  /\ \E outcome \in {"ACKED", "UNKNOWN", "FAILED"} :
       Call(w, [call[w] EXCEPT !.pc = "settle", !.outcome = outcome])
  /\ UNCHANGED <<wake, surroundings>>

\* Mutant: a webhook that accepted the call is taken for a Reviewer that read it.
AcceptedIsRead(w) ==
  IF StopReason # "NONE" THEN StopReason
  ELSE IF call[w].outcome = "FAILED" THEN "PERMANENT_WAKE_REJECTION"
  ELSE IF call[w].outcome = "ACKED" THEN "REVIEWER_INTAKE_ACKED"
  ELSE IF UsedUp THEN "WAKE_ATTEMPTS_EXHAUSTED" ELSE "NONE"

SettledReason(w) ==
  IF StopReason # "NONE" THEN StopReason
  ELSE IF call[w].outcome = "FAILED" THEN "PERMANENT_WAKE_REJECTION"
  ELSE IF UsedUp THEN "WAKE_ATTEMPTS_EXHAUSTED" ELSE "NONE"

Settle(w) ==
  /\ call[w].pc = "settle"
  /\ wake' = IF HoldsLease(w)
             THEN [wake EXCEPT !.status = call[w].outcome, !.token = 0,
                               !.reason = SettledReason(w), !.due = SettledReason(w) # "NONE"]
             ELSE wake
  /\ Call(w, NoCall)
  /\ UNCHANGED <<woken, surroundings>>

Crash(w) ==
  /\ call[w].pc # "idle"
  /\ Call(w, NoCall)
  /\ UNCHANGED <<wake, woken, surroundings>>

\* lease_until or next_retry_at comes.
Due ==
  /\ ~wake.due
  /\ wake' = [wake EXCEPT !.due = TRUE]
  /\ UNCHANGED <<call, woken, surroundings>>

-----------------------------------------------------------------------------
RunOne(w) == \/ ClaimStops(w) \/ ClaimExhausted(w) \/ Claim(w)
             \/ SecondLook(w) \/ Send(w) \/ Settle(w)

WakeNext ==
  \/ Publish \/ Sent \/ Discover \/ Expire \/ Acknowledge
  \/ ReviewerEvent \/ ApplyEvent \/ Complete \/ Deadline
  \/ \E status \in {"TIMED_OUT", "CLOSED"} : Close(status)
  \/ \E w \in Waker : RunOne(w) \/ Crash(w)
  \/ Due

WakeSpec == WakeInit /\ [][WakeNext]_wakeVars

(***************************************************************************)
(* The Supervisor runs the wake worker on every tick and time passes.      *)
(* Neither the Reviewer nor the Hub has to do anything: an event may wait  *)
(* for ever to be judged and a late request for ever to be closed.         *)
(***************************************************************************)
WakeFairness == /\ \A w \in Waker : WF_wakeVars(RunOne(w))
                /\ WF_wakeVars(Due) /\ WF_wakeVars(Deadline)

FairWakeSpec == WakeSpec /\ WakeFairness

-----------------------------------------------------------------------------
(***************************************************************************)
(* The Reviewer's webhook is called at most MaxWakes times for a request,  *)
(* whichever processes crashed with a lease.                               *)
(***************************************************************************)
WakesWithinLimit == woken \subseteq 1..MaxWakes

(***************************************************************************)
(* Once the Reviewer has read the request or an event of it was applied,   *)
(* the receipt is not leased again and no further call begins; a call on   *)
(* its way may still arrive.                                               *)
(***************************************************************************)
AnsweredIsNotWoken ==
  [][intake = "ACKED" \/ event = "APPLIED" \/ request \notin ActiveRequest =>
       /\ wake'.attempts = wake.attempts
       /\ \A w \in Waker : call'[w].pc = "send" => call[w].pc = "send"]_wakeVars

(***************************************************************************)
(* Waking ends, and for a true reason: every wake receipt comes to a       *)
(* reason that holds and stays from then on, also if every answer is lost, *)
(* the Reviewer is silent and the Hub never judges its events.  A 2xx      *)
(* answer is never taken for a read, a worker that was calling meanwhile   *)
(* does not write over the reason, and no later change of the request, the *)
(* receipt or the inbox makes the stored reason a false one.               *)
(***************************************************************************)
ReasonHolds ==
  \/ wake.reason = "RR_DEADLINE_REACHED"     /\ late
  \/ wake.reason = "REVIEW_COMPLETED"        /\ request = "COMPLETED"
  \/ wake.reason = "REVIEWER_INTAKE_ACKED"   /\ intake = "ACKED"
  \/ wake.reason = "REVIEWER_EVENT_RECEIVED" /\ event = "APPLIED"
  \/ wake.reason = "RR_STALE_OR_SUPERSEDED"  /\ request # "PENDING"
  \/ wake.reason = "WAKE_ATTEMPTS_EXHAUSTED" /\ wake.attempts >= MaxWakes
  \/ wake.reason = "PERMANENT_WAKE_REJECTION" /\ woken # {}

WakingEnds == wake.status # "NONE" ~> []ReasonHolds
=============================================================================
