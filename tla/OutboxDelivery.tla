--------------------------- MODULE OutboxDelivery ---------------------------
(***************************************************************************)
(* The delivery of one v2 review request to the Reviewer: its outbox row,  *)
(* the Dispatchers that lease it (the Supervisor's and the one of the      *)
(* dispatch-once command) and the carrier, a pull request on which the     *)
(* Reviewer finds the request as a comment.  A comment cannot be created   *)
(* idempotently, and its POST can be accepted while the answer is lost.    *)
(*                                                                         *)
(* No transaction is held while the carrier is called, so one dispatch is  *)
(* a claim, a query, a submission and a settlement, between which anything *)
(* may happen to the row and to the request.  ReviewLifecycle has the Task *)
(* around it; here "request" stands for the request row and for the Task   *)
(* it keeps under review, which ActiveRequestAgrees holds together.        *)
(*                                                                         *)
(* attempts and lease_generation of the row start at 0 and are only ever   *)
(* incremented together, by a claim: one number, which also names the      *)
(* claim (lease_token) and whatever the claim posted.                      *)
(***************************************************************************)
EXTENDS Naturals, FiniteSets

CONSTANTS Dispatcher,   \* processes that run dispatch_one
          MaxAttempts,  \* settings.delivery_max_attempts
          MaxClaims,    \* bound on the claims of the row
          Prompt        \* whether an accepted comment can be found at once

ASSUME DeliveryAssumption ==
  /\ MaxAttempts \in Nat \ {0}
  /\ MaxClaims \in Nat
  /\ Prompt \in BOOLEAN

VARIABLES request,   \* OPEN, or how the request was closed
          late,      \* the deadline of the request or of the Task has passed
          row,       \* the outbox_events row
          proc,      \* the dispatch_one call of each Dispatcher
          posted,    \* attempts whose comment was sent to the carrier
          accepted,  \* of these, the ones the carrier accepted
          listed     \* of these, the ones a lookup finds

vars == <<request, late, row, proc, posted, accepted, listed>>

-----------------------------------------------------------------------------
RequestStatus == {"OPEN", "COMPLETED", "FAILED", "TIMED_OUT", "STOPPED"}

RowStatus == {"READY", "LEASED", "RETRY", "UNKNOWN", "SENT", "CANCELLED"}

\* What a dispatch comes to; RECONCILE is UNKNOWN with DELIVERY_RECONCILE_PENDING.
Outcome == {"SENT", "RETRY", "UNKNOWN", "RECONCILE", "FAILED"}

\* "due": next_attempt_at or, of a leased row, lease_until is past.
RowType == [status : RowStatus, attempts : Nat, due : BOOLEAN, misses : Nat]

Idle == [pc |-> "idle", claim |-> 0, unsure |-> FALSE, misses |-> 0, outcome |-> "SENT"]

\* "claim", "unsure" (claimed_from_status is UNKNOWN) and "misses": the row as claimed.
CallType == [pc : {"idle", "query", "submit", "post", "settle"}, claim : Nat,
             unsure : BOOLEAN, misses : Nat, outcome : Outcome]

TypeOK ==
  /\ request \in RequestStatus
  /\ late \in BOOLEAN
  /\ row \in RowType
  /\ proc \in [Dispatcher -> CallType]
  /\ posted \in SUBSET Nat
  /\ accepted \in SUBSET posted
  /\ listed \in SUBSET accepted

\* request_review writes the row together with the request.
Init ==
  /\ request = "OPEN"
  /\ late = FALSE
  /\ row = [status |-> "READY", attempts |-> 0, due |-> TRUE, misses |-> 0]
  /\ proc = [p \in Dispatcher |-> Idle]
  /\ posted = {} /\ accepted = {} /\ listed = {}

-----------------------------------------------------------------------------
Settled == {"SENT", "CANCELLED"}

\* stop_request and the gates built on it: what was not sent is cancelled.
CancelUnsent(r) == IF r.status \in Settled THEN r ELSE [r EXCEPT !.status = "CANCELLED"]

\* Mutant: the lease of a Dispatcher that died is never taken over.
ReadyWithoutRecovery == row.status \in {"READY", "RETRY", "UNKNOWN"} /\ row.due

Ready == row.status \in {"READY", "RETRY", "UNKNOWN", "LEASED"} /\ row.due

Free(p) == proc[p].pc = "idle"

Call(p, next) == proc' = [proc EXCEPT ![p] = next]

\* The call of p has an outcome and goes on to settle it.
Ends(p, outcome) == Call(p, [proc[p] EXCEPT !.pc = "settle", !.outcome = outcome])

Exhausted(p) == proc[p].claim >= MaxAttempts

\* RetryableDelivery, and DeliveryUnknown: a carrier that failed, and one that may not have.
Retryable(p) == Ends(p, IF Exhausted(p) THEN "FAILED" ELSE "RETRY")
Ambiguous(p) == Ends(p, IF Exhausted(p) THEN "FAILED" ELSE "UNKNOWN")

Unsure == row.status \in {"UNKNOWN", "LEASED"}

(***************************************************************************)
(* Dispatcher._claim, one transaction.                                     *)
(***************************************************************************)
ClaimClosed ==
  /\ \E p \in Dispatcher : Free(p)
  /\ Ready
  /\ request # "OPEN"
  /\ row' = [row EXCEPT !.status = "CANCELLED"]
  /\ UNCHANGED <<request, late, proc, posted, accepted, listed>>

ClaimLate ==
  /\ \E p \in Dispatcher : Free(p)
  /\ Ready
  /\ request = "OPEN" /\ late
  /\ request' = "TIMED_OUT"
  /\ row' = CancelUnsent(row)
  /\ UNCHANGED <<late, proc, posted, accepted, listed>>

NextAttempt == row.attempts + 1

Claim(p) ==
  /\ Free(p)
  /\ Ready
  /\ request = "OPEN" /\ ~late
  /\ row.attempts < MaxClaims
  /\ row' = [row EXCEPT !.status = "LEASED", !.attempts = NextAttempt, !.due = FALSE]
  /\ Call(p, [pc |-> "query", claim |-> NextAttempt, unsure |-> Unsure,
              misses |-> row.misses, outcome |-> "SENT"])
  /\ UNCHANGED <<request, late, posted, accepted, listed>>

(***************************************************************************)
(* dispatch_one asks the carrier first.  The adapter looks the request up  *)
(* before it calls the carrier (_target) and refuses one that is closed or *)
(* late, as the carrier may refuse the lookup: FAILED.  A lookup that      *)
(* fails for now is retried, an unexpected answer leaves it unknown.       *)
(***************************************************************************)
Routed == request = "OPEN" /\ ~late

\* After an unsure claim the first lookup that finds nothing is not believed.
NeedsSecondLook(p) == proc[p].unsure /\ proc[p].misses < 1

\* Mutant: one submission too many.
SubmissionsUsedUpLate(p) == proc[p].claim > MaxAttempts + 1

SubmissionsUsedUp(p) == proc[p].claim > MaxAttempts

NothingFound == listed = {}

Query(p) ==
  /\ proc[p].pc = "query"
  /\ \/ Ends(p, "FAILED")
     \/ /\ Routed
        /\ \/ Retryable(p)
           \/ Ambiguous(p)
           \/ Ends(p, "UNKNOWN")
           \/ listed # {} /\ Ends(p, "SENT")
           \/ /\ NothingFound
              /\ IF NeedsSecondLook(p) THEN Ends(p, "RECONCILE")
                 ELSE IF SubmissionsUsedUp(p) THEN Ends(p, "FAILED")
                 ELSE Call(p, [proc[p] EXCEPT !.pc = "submit"])
  /\ UNCHANGED <<request, late, row, posted, accepted, listed>>

\* Mutant: the request is not looked up again.
StillRouted == TRUE

RoutedAtSubmit == Routed

\* submit_review_request up to the POST.
Submit(p) ==
  /\ proc[p].pc = "submit"
  /\ \/ RoutedAtSubmit /\ Call(p, [proc[p] EXCEPT !.pc = "post"])
     \/ Ends(p, "FAILED")
  /\ UNCHANGED <<request, late, row, posted, accepted, listed>>

\* Mutant: a POST without an answer is taken for one with an answer.
LostAnswerIsSent(p) == Ends(p, "SENT")

LostAnswer(p) == Ambiguous(p)

(***************************************************************************)
(* The POST.  A comment the carrier accepted can be found at once or, with *)
(* a carrier that is not prompt, later.  Without the receipt the           *)
(* Dispatcher knows nothing.                                               *)
(***************************************************************************)
Post(p) ==
  LET attempt == proc[p].claim
  IN  /\ proc[p].pc = "post"
      /\ posted' = posted \cup {attempt}
      /\ \/ /\ accepted' = accepted \cup {attempt}
            /\ \/ listed' = listed \cup {attempt}
               \/ ~Prompt /\ listed' = listed
            /\ Ends(p, "SENT") \/ LostAnswer(p) \/ Ends(p, "UNKNOWN")
         \/ /\ UNCHANGED <<accepted, listed>>
            /\ LostAnswer(p) \/ Ends(p, "UNKNOWN")
      /\ UNCHANGED <<request, late, row>>

-----------------------------------------------------------------------------
HoldsLease(p) == row.status = "LEASED" /\ proc[p].claim = row.attempts

\* The row as an outcome leaves it while the request is open.
SettledRow(p) ==
  LET outcome == proc[p].outcome
  IN  [row EXCEPT !.status = IF outcome = "RECONCILE" THEN "UNKNOWN" ELSE outcome,
                  !.misses = IF outcome = "RECONCILE" THEN @ + 1
                             ELSE IF outcome = "SENT" THEN 0 ELSE @]

(***************************************************************************)
(* The last transaction of dispatch_one.  A failed delivery fails the      *)
(* request, and with it (review_failure_gate) the row is cancelled.        *)
(***************************************************************************)
Settle(p) ==
  /\ proc[p].pc = "settle"
  /\ Call(p, Idle)
  /\ \/ ~HoldsLease(p) /\ UNCHANGED <<request, row>>
     \/ /\ HoldsLease(p) /\ request # "OPEN"
        /\ row' = [row EXCEPT !.status = "CANCELLED"]
        /\ UNCHANGED request
     \/ /\ HoldsLease(p) /\ request = "OPEN" /\ proc[p].outcome # "FAILED"
        /\ row' = SettledRow(p)
        /\ UNCHANGED request
     \/ /\ HoldsLease(p) /\ request = "OPEN" /\ proc[p].outcome = "FAILED"
        /\ row' = CancelUnsent(row)
        /\ request' = "FAILED"
  /\ UNCHANGED <<late, posted, accepted, listed>>

\* A Dispatcher dies; its lease runs out.
Crash(p) ==
  /\ proc[p].pc # "idle"
  /\ Call(p, Idle)
  /\ UNCHANGED <<request, late, row, posted, accepted, listed>>

-----------------------------------------------------------------------------
(***************************************************************************)
(* Everything else that touches the request or the row.                    *)
(***************************************************************************)
\* handle_one applies a review result and does not look at the outbox.
ReviewCompletes ==
  /\ request = "OPEN" /\ ~late
  /\ request' = "COMPLETED"
  /\ UNCHANGED <<late, row, proc, posted, accepted, listed>>

\* stop_request for a failure event or a Human decision.
RequestStopped ==
  /\ request = "OPEN"
  /\ request' = "STOPPED"
  /\ row' = CancelUnsent(row)
  /\ UNCHANGED <<late, proc, posted, accepted, listed>>

\* TimeoutService.sweep
SweepTimeout ==
  /\ request = "OPEN" /\ late
  /\ request' = "TIMED_OUT"
  /\ row' = CancelUnsent(row)
  /\ UNCHANGED <<late, proc, posted, accepted, listed>>

\* next_attempt_at or lease_until comes.
Due ==
  /\ row.status \in {"RETRY", "UNKNOWN", "LEASED"} /\ ~row.due
  /\ row' = [row EXCEPT !.due = TRUE]
  /\ UNCHANGED <<request, late, proc, posted, accepted, listed>>

Deadline ==
  /\ ~late
  /\ late' = TRUE
  /\ UNCHANGED <<request, row, proc, posted, accepted, listed>>

\* The carrier lists a comment it accepted before.
List ==
  /\ \E attempt \in accepted \ listed : listed' = listed \cup {attempt}
  /\ UNCHANGED <<request, late, row, proc, posted, accepted>>

-----------------------------------------------------------------------------
Dispatch(p) == Claim(p) \/ Query(p) \/ Submit(p) \/ Post(p) \/ Settle(p)

Next ==
  \/ ClaimClosed \/ ClaimLate
  \/ \E p \in Dispatcher : Dispatch(p) \/ Crash(p)
  \/ ReviewCompletes \/ RequestStopped \/ SweepTimeout
  \/ Due \/ Deadline \/ List

Spec == Init /\ [][Next]_vars

(***************************************************************************)
(* The Supervisor calls dispatch_one on every tick and time passes; nobody *)
(* has to answer, the sweep included.                                      *)
(***************************************************************************)
Fairness ==
  /\ WF_vars(ClaimClosed) /\ WF_vars(ClaimLate)
  /\ \A p \in Dispatcher : WF_vars(Dispatch(p))
  /\ WF_vars(Due) /\ WF_vars(Deadline)

FairSpec == Spec /\ Fairness

-----------------------------------------------------------------------------
(***************************************************************************)
(* A row is SENT only if the carrier has accepted the request, whatever    *)
(* answers were lost and whichever Dispatcher settled it.                  *)
(***************************************************************************)
SentWasAccepted == row.status = "SENT" => accepted # {}

(***************************************************************************)
(* The delivery keeps the promise of one that may be repeated: it is SENT  *)
(* only if accepted, ends once, and GitHub accepts no comment of a claim   *)
(* beyond the limit, however answers, leases and Dispatchers are lost.     *)
(***************************************************************************)
Promise == INSTANCE DeliveryPromise WITH
  Copy   <- 1..MaxAttempts,
  Single <- FALSE,
  state  <- IF row.status = "SENT" THEN "sent"
            ELSE IF row.status = "CANCELLED" THEN "given up" ELSE "open",
  copies <- accepted

KeepsPromise == Promise!Spec

(***************************************************************************)
(* The Reviewer is woken at most MaxAttempts times: queries go on after    *)
(* that, POSTs do not.                                                     *)
(***************************************************************************)
SubmissionsWithinLimit == posted \subseteq 1..MaxAttempts

(***************************************************************************)
(* One attempt posts at most once: the attempt of a Dispatcher that is     *)
(* about to post has posted nothing, and no other Dispatcher works on it.  *)
(***************************************************************************)
AttemptPostsOnce ==
  \A p \in Dispatcher : proc[p].pc \in {"query", "submit", "post"} =>
    /\ proc[p].claim \notin posted
    /\ \A q \in Dispatcher \ {p} : proc[q].pc # "idle" => proc[q].claim # proc[p].claim

(***************************************************************************)
(* A delivery that was settled stays settled: a Dispatcher that comes back *)
(* after its lease ran out changes neither the row nor, by a failure it    *)
(* believes in, the request.                                               *)
(***************************************************************************)
SettledStays ==
  [][row.status \in Settled => row' = row /\ (request' = "FAILED" => request = "FAILED")]_vars

(***************************************************************************)
(* Once the request is closed no Dispatcher claims it and none starts to   *)
(* post; at most the POSTs on their way arrive.                            *)
(***************************************************************************)
ClosedRequestIsQuiet ==
  [][request # "OPEN" =>
       /\ row'.attempts = row.attempts
       /\ \A p \in Dispatcher : proc'[p].pc = "post" => proc[p].pc = "post"]_vars

(***************************************************************************)
(* With one Dispatcher, which may crash anywhere and may lose any answer,  *)
(* and a prompt carrier, the Reviewer never finds the request twice.       *)
(***************************************************************************)
AtMostOneCopy == Cardinality(accepted) <= 1

(***************************************************************************)
(* Delivery ends: the row is sent or cancelled in the end, also when the   *)
(* Dispatchers keep failing and the request is closed behind their back.   *)
(***************************************************************************)
DeliveryEnds == <>(row.status \in Settled)
=============================================================================
