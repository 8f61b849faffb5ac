------------------------ MODULE OutboxDelivery_proofs ------------------------
(***************************************************************************)
(* Proofs about OutboxDelivery, for any number of Dispatchers, any limit   *)
(* of attempts and any carrier: the invariants, the promise that is kept,  *)
(* and that the request it delivers lives as RequestLife says.             *)
(***************************************************************************)
EXTENDS OutboxDelivery, FiniteSetTheorems, TLAPS

(***************************************************************************)
(* The strengthening of the safety properties.  Claims are numbered below  *)
(* the row's attempts, which is what makes the number of a new claim new;  *)
(* nothing is posted under a number that was not claimed; and whoever may  *)
(* still post has passed the limit check.                                  *)
(***************************************************************************)
ClaimsAreNumbered ==
  /\ \A p \in Dispatcher : proc[p].pc # "idle" => proc[p].claim \in 1..row.attempts
  /\ posted \subseteq 1..row.attempts

PostersWithinLimit ==
  \A p \in Dispatcher : proc[p].pc \in {"submit", "post"} => proc[p].claim <= MaxAttempts

SuccessWasAccepted ==
  \A p \in Dispatcher :
    proc[p].pc = "settle" /\ proc[p].outcome = "SENT" => accepted # {}

IInv == /\ TypeOK
        /\ ClaimsAreNumbered /\ PostersWithinLimit /\ SuccessWasAccepted
        /\ AttemptPostsOnce /\ SubmissionsWithinLimit /\ SentWasAccepted

\* Initially nobody dispatches and nothing is posted.
LEMMA InitIInv == Init => IInv
<1> SUFFICES ASSUME Init PROVE IInv
  OBVIOUS
<1>1. Idle \in CallType /\ Idle.pc = "idle"
  BY DEF Idle, CallType, Outcome
<1>2. \A p \in Dispatcher : proc[p].pc = "idle"
  BY <1>1 DEF Init
<1>3. TypeOK
  BY <1>1 DEF Init, TypeOK, RequestStatus, RowType, RowStatus
<1>4. ClaimsAreNumbered /\ PostersWithinLimit /\ SuccessWasAccepted
  BY <1>2 DEF Init, ClaimsAreNumbered, PostersWithinLimit, SuccessWasAccepted
<1>5. AttemptPostsOnce /\ SubmissionsWithinLimit /\ SentWasAccepted
  BY <1>2 DEF Init, AttemptPostsOnce, SubmissionsWithinLimit, SentWasAccepted
<1> QED  BY <1>3, <1>4, <1>5 DEF IInv

\* A step that leaves the calls and the carrier alone and keeps the attempts.
LEMMA RowStep ==
  ASSUME IInv, UNCHANGED <<proc, posted, accepted, listed>>,
         request' \in RequestStatus, late' \in BOOLEAN, row' \in RowType,
         row'.attempts = row.attempts,
         row'.status = "SENT" => row.status = "SENT"
  PROVE  IInv'
BY DEF IInv, TypeOK, ClaimsAreNumbered, PostersWithinLimit, SuccessWasAccepted,
       AttemptPostsOnce, SubmissionsWithinLimit, SentWasAccepted

\* Cancelling what was not sent.
LEMMA Cancelled ==
  ASSUME row \in RowType
  PROVE  /\ CancelUnsent(row) \in RowType
         /\ CancelUnsent(row).attempts = row.attempts
         /\ CancelUnsent(row).status = "SENT" => row.status = "SENT"
BY DEF CancelUnsent, RowType, RowStatus

\* A call that ends takes an outcome to its settlement, and the carrier's word if SENT.
LEMMA EndStep ==
  ASSUME IInv, NEW p \in Dispatcher, NEW outcome \in Outcome,
         proc[p].pc # "idle", Ends(p, outcome),
         outcome = "SENT" => accepted' # {},
         UNCHANGED <<request, late, row>>,
         posted' \in SUBSET (posted \cup {proc[p].claim}),
         posted \subseteq posted',
         posted' # posted => proc[p].pc = "post",
         accepted \subseteq accepted', accepted' \in SUBSET posted', listed' \in SUBSET accepted'
  PROVE  IInv'
<1> DEFINE next == [proc[p] EXCEPT !.pc = "settle", !.outcome = outcome]
<1> USE DeliveryAssumption
<1>1. next \in CallType /\ next.pc = "settle" /\ next.outcome = outcome
      /\ next.claim = proc[p].claim
  BY DEF IInv, TypeOK, CallType
<1>2. proc' = [proc EXCEPT ![p] = next]
  BY DEF Ends, Call
<1> HIDE DEF next
<1>3. proc[p].claim \in 1..row.attempts /\ row.attempts \in Nat
  BY DEF IInv, ClaimsAreNumbered, TypeOK, RowType
<1>4. /\ proc'[p] = next
      /\ \A q \in Dispatcher \ {p} : proc'[q] = proc[q]
  BY <1>2 DEF IInv, TypeOK
<1>5. TypeOK'
  <2>1. posted' \in SUBSET Nat
    BY <1>3 DEF IInv, TypeOK
  <2>2. proc' \in [Dispatcher -> CallType]
    BY <1>1, <1>2 DEF IInv, TypeOK
  <2> QED  BY <2>1, <2>2 DEF IInv, TypeOK
<1>6. ClaimsAreNumbered'
  BY <1>1, <1>3, <1>4 DEF IInv, ClaimsAreNumbered
<1>7. PostersWithinLimit'
  BY <1>1, <1>4 DEF IInv, PostersWithinLimit
<1>8. SuccessWasAccepted'
  BY <1>1, <1>4 DEF IInv, SuccessWasAccepted
<1>9. AttemptPostsOnce'
  <2> SUFFICES ASSUME NEW q \in Dispatcher, proc'[q].pc \in {"query", "submit", "post"}
               PROVE  /\ proc'[q].claim \notin posted'
                      /\ \A r \in Dispatcher \ {q} :
                           proc'[r].pc # "idle" => proc'[r].claim # proc'[q].claim
    BY DEF AttemptPostsOnce
  <2>1. q # p /\ proc'[q] = proc[q]
    BY <1>1, <1>4
  <2>2. proc[q].claim \notin posted /\ proc[p].claim # proc[q].claim
    BY <2>1 DEF IInv, AttemptPostsOnce
  <2>3. \A r \in Dispatcher \ {q} : proc'[r].pc # "idle" => proc'[r].claim # proc[q].claim
    BY <1>1, <1>4, <2>1, <2>2 DEF IInv, AttemptPostsOnce
  <2> QED  BY <2>1, <2>2, <2>3
<1>10. SubmissionsWithinLimit'
  <2>1. CASE posted' = posted
    BY <2>1 DEF IInv, SubmissionsWithinLimit
  <2>2. CASE posted' # posted
    <3>1. proc[p].claim <= MaxAttempts
      BY <2>2 DEF IInv, PostersWithinLimit
    <3> QED  BY <3>1, <1>3 DEF IInv, SubmissionsWithinLimit
  <2> QED  BY <2>1, <2>2
<1>11. SentWasAccepted'
  BY DEF IInv, SentWasAccepted
<1> QED  BY <1>5, <1>6, <1>7, <1>8, <1>9, <1>10, <1>11 DEF IInv

\* A call that goes on to submit or to post.
LEMMA AdvanceStep ==
  ASSUME IInv, NEW p \in Dispatcher, NEW pc \in {"submit", "post"},
         proc[p].pc \in {"query", "submit"}, proc[p].claim <= MaxAttempts,
         Call(p, [proc[p] EXCEPT !.pc = pc]),
         UNCHANGED <<request, late, row, posted, accepted, listed>>
  PROVE  IInv'
<1> DEFINE next == [proc[p] EXCEPT !.pc = pc]
<1>1. next \in CallType /\ next.pc = pc /\ next.claim = proc[p].claim
  BY DEF IInv, TypeOK, CallType
<1>2. proc' = [proc EXCEPT ![p] = next]
  BY DEF Call
<1> HIDE DEF next
<1>3. proc'[p] = next /\ \A q \in Dispatcher \ {p} : proc'[q] = proc[q]
  BY <1>2 DEF IInv, TypeOK
<1>4. TypeOK'
  BY <1>1, <1>2 DEF IInv, TypeOK
<1>5. ClaimsAreNumbered' /\ PostersWithinLimit' /\ SuccessWasAccepted'
  BY <1>1, <1>3 DEF IInv, ClaimsAreNumbered, PostersWithinLimit, SuccessWasAccepted
<1>6. \A q \in Dispatcher : /\ proc'[q].claim = proc[q].claim
                            /\ proc'[q].pc # "idle" => proc[q].pc # "idle"
                            /\ proc'[q].pc \in {"query", "submit", "post"}
                                 => proc[q].pc \in {"query", "submit", "post"}
  BY <1>1, <1>3
<1>7. AttemptPostsOnce'
  BY <1>6 DEF IInv, AttemptPostsOnce
<1>8. SubmissionsWithinLimit' /\ SentWasAccepted'
  BY DEF IInv, SubmissionsWithinLimit, SentWasAccepted
<1> QED  BY <1>4, <1>5, <1>7, <1>8 DEF IInv

\* A call that is over, whatever it leaves in the row.
LEMMA OverStep ==
  ASSUME IInv, NEW p \in Dispatcher, Call(p, Idle),
         request' \in RequestStatus, late' = late, row' \in RowType,
         row'.attempts = row.attempts,
         row'.status = "SENT" => row.status = "SENT" \/ accepted # {},
         UNCHANGED <<posted, accepted, listed>>
  PROVE  IInv'
<1>1. Idle \in CallType /\ Idle.pc = "idle"
  BY DEF Idle, CallType, Outcome
<1>2. proc'[p] = Idle /\ \A q \in Dispatcher \ {p} : proc'[q] = proc[q]
  BY DEF Call, IInv, TypeOK
<1>3. TypeOK'
  BY <1>1 DEF Call, IInv, TypeOK
<1>4. \A q \in Dispatcher : proc'[q].pc # "idle" => proc'[q] = proc[q]
  BY <1>1, <1>2
<1>5. ClaimsAreNumbered' /\ PostersWithinLimit' /\ SuccessWasAccepted'
  BY <1>4 DEF IInv, ClaimsAreNumbered, PostersWithinLimit, SuccessWasAccepted
<1>6. AttemptPostsOnce'
  BY <1>4 DEF IInv, AttemptPostsOnce
<1>7. SubmissionsWithinLimit' /\ SentWasAccepted'
  BY DEF IInv, SubmissionsWithinLimit, SentWasAccepted
<1> QED  BY <1>3, <1>5, <1>6, <1>7 DEF IInv

\* A claim gets a number that no call works under and nothing was posted under.
LEMMA ClaimStep ==
  ASSUME IInv, NEW p \in Dispatcher, Claim(p)
  PROVE  IInv'
<1> DEFINE next == [pc |-> "query", claim |-> NextAttempt, unsure |-> Unsure,
                    misses |-> row.misses, outcome |-> "SENT"]
<1>1. row \in RowType /\ row.attempts \in Nat /\ NextAttempt = row.attempts + 1
  BY DEF IInv, TypeOK, RowType, NextAttempt
<1>2. /\ row' \in RowType
      /\ row'.attempts = row.attempts + 1
      /\ row'.status = "LEASED"
  <2>1. row' = [row EXCEPT !.status = "LEASED", !.attempts = row.attempts + 1, !.due = FALSE]
    BY DEF Claim, NextAttempt
  <2>2. row.attempts + 1 \in Nat
    BY <1>1
  <2>3. row' \in RowType
    BY <1>1, <2>1, <2>2 DEF RowType, RowStatus
  <2>4. row'.attempts = row.attempts + 1 /\ row'.status = "LEASED"
    BY <1>1, <2>1 DEF RowType
  <2> QED  BY <2>3, <2>4
<1>3. next \in CallType /\ next.pc = "query" /\ next.claim = row.attempts + 1
  BY <1>1 DEF CallType, Outcome, RowType, Unsure
<1>4. proc' = [proc EXCEPT ![p] = next]
  BY DEF Claim, Call
<1> HIDE DEF next
<1>5. proc'[p] = next /\ \A q \in Dispatcher \ {p} : proc'[q] = proc[q]
  BY <1>4 DEF IInv, TypeOK
<1>6. TypeOK'
  BY <1>2, <1>3, <1>4 DEF IInv, TypeOK, Claim
<1>7. ClaimsAreNumbered'
  <2>1. next.claim \in 1..row'.attempts
    BY <1>1, <1>2, <1>3
  <2>2. 1..row.attempts \subseteq 1..row'.attempts
    BY <1>1, <1>2
  <2> QED  BY <1>5, <2>1, <2>2 DEF IInv, ClaimsAreNumbered, Claim
<1>8. PostersWithinLimit' /\ SuccessWasAccepted'
  BY <1>3, <1>5 DEF IInv, PostersWithinLimit, SuccessWasAccepted, Claim
<1>9. AttemptPostsOnce'
  <2>1. next.claim \notin posted
    BY <1>1, <1>3 DEF IInv, ClaimsAreNumbered
  <2>2. \A q \in Dispatcher \ {p} : proc[q].pc # "idle" => proc[q].claim # next.claim
    BY <1>1, <1>3 DEF IInv, ClaimsAreNumbered
  <2> QED  BY <1>3, <1>5, <2>1, <2>2 DEF IInv, AttemptPostsOnce, Claim
<1>10. SubmissionsWithinLimit' /\ SentWasAccepted'
  BY <1>2 DEF IInv, SubmissionsWithinLimit, SentWasAccepted, Claim
<1> QED  BY <1>6, <1>7, <1>8, <1>9, <1>10 DEF IInv

\* Every step keeps the invariant: one step per action.
LEMMA NextIInv == IInv /\ [Next]_vars => IInv'
<1> SUFFICES ASSUME IInv, [Next]_vars PROVE IInv'
  OBVIOUS
<1> USE DeliveryAssumption
<1>1. row \in RowType /\ late \in BOOLEAN /\ request \in RequestStatus
  BY DEF IInv, TypeOK
<1>2. CASE ClaimClosed
  BY <1>1, <1>2, RowStep DEF ClaimClosed, RowType, RowStatus
<1>3. CASE ClaimLate
  BY <1>1, <1>3, RowStep, Cancelled DEF ClaimLate, RequestStatus
<1>4. ASSUME NEW p \in Dispatcher, Claim(p) PROVE IInv'
  BY <1>4, ClaimStep
<1>5. ASSUME NEW p \in Dispatcher, Query(p) PROVE IInv'
  <2>1. /\ proc[p].pc = "query" /\ proc[p].pc # "idle"
        /\ UNCHANGED <<request, late, row, posted, accepted, listed>>
    BY <1>5 DEF Query
  <2>2. posted \in SUBSET Nat /\ accepted \in SUBSET posted /\ listed \in SUBSET accepted
    BY DEF IInv, TypeOK
  <2>3. ASSUME NEW outcome \in Outcome, Ends(p, outcome),
               outcome = "SENT" => accepted # {}
        PROVE  IInv'
    BY <2>1, <2>2, <2>3, EndStep
  <2>4. ASSUME Call(p, [proc[p] EXCEPT !.pc = "submit"]), ~SubmissionsUsedUp(p) PROVE IInv'
    <3>1. proc[p].claim \in Nat
      BY DEF IInv, TypeOK, CallType
    <3>2. proc[p].claim <= MaxAttempts
      BY <2>4, <3>1 DEF SubmissionsUsedUp
    <3> QED  BY <2>1, <2>4, <3>2, AdvanceStep
  <2>5. \/ \E outcome \in Outcome \ {"SENT"} : Ends(p, outcome)
        \/ listed # {} /\ Ends(p, "SENT")
        \/ Call(p, [proc[p] EXCEPT !.pc = "submit"]) /\ ~SubmissionsUsedUp(p)
    BY <1>5 DEF Query, Retryable, Ambiguous, Outcome
  <2> QED  BY <2>2, <2>3, <2>4, <2>5 DEF Outcome
<1>6. ASSUME NEW p \in Dispatcher, Submit(p) PROVE IInv'
  <2>1. /\ proc[p].pc = "submit" /\ proc[p].pc # "idle"
        /\ UNCHANGED <<request, late, row, posted, accepted, listed>>
        /\ \/ Call(p, [proc[p] EXCEPT !.pc = "post"])
           \/ Ends(p, "FAILED")
    BY <1>6 DEF Submit
  <2>2. posted \in SUBSET Nat /\ accepted \in SUBSET posted /\ listed \in SUBSET accepted
    BY DEF IInv, TypeOK
  <2>3. CASE Ends(p, "FAILED")
    BY <2>1, <2>2, <2>3, EndStep DEF Outcome
  <2>4. CASE Call(p, [proc[p] EXCEPT !.pc = "post"])
    <3>1. proc[p].claim <= MaxAttempts
      BY <2>1 DEF IInv, PostersWithinLimit
    <3> QED  BY <2>1, <2>4, <3>1, AdvanceStep
  <2> QED  BY <2>1, <2>3, <2>4
<1>7. ASSUME NEW p \in Dispatcher, Post(p) PROVE IInv'
  <2>1. posted \in SUBSET Nat /\ accepted \in SUBSET posted /\ listed \in SUBSET accepted
    BY DEF IInv, TypeOK
  <2>2. /\ proc[p].pc = "post" /\ proc[p].pc # "idle"
        /\ UNCHANGED <<request, late, row>>
        /\ posted' = posted \cup {proc[p].claim}
    BY <1>7 DEF Post
  <2>3. \/ accepted' = accepted /\ listed' = listed
        \/ /\ accepted' = accepted \cup {proc[p].claim}
           /\ listed' = listed \/ listed' = listed \cup {proc[p].claim}
    BY <1>7 DEF Post
  <2>4. \E outcome \in Outcome : /\ Ends(p, outcome)
                                 /\ outcome = "SENT" => accepted' # {}
    BY <1>7 DEF Post, LostAnswer, Ambiguous, Outcome
  <2>5. /\ posted' \in SUBSET (posted \cup {proc[p].claim}) /\ posted \subseteq posted'
        /\ accepted \subseteq accepted' /\ accepted' \in SUBSET posted'
        /\ listed' \in SUBSET accepted'
    BY <2>1, <2>2, <2>3
  <2> QED  BY <2>2, <2>4, <2>5, EndStep
<1>8. ASSUME NEW p \in Dispatcher, Settle(p) PROVE IInv'
  <2>1. Call(p, Idle) /\ late' = late /\ UNCHANGED <<posted, accepted, listed>>
    BY <1>8 DEF Settle
  <2>2. request' \in RequestStatus
    BY <1>1, <1>8 DEF Settle, RequestStatus
  <2>3. /\ row' \in RowType /\ row'.attempts = row.attempts
        /\ row'.status = "SENT" => row.status = "SENT" \/ accepted # {}
    <3>1. CASE row' = row
      BY <1>1, <3>1
    <3>2. CASE row' = [row EXCEPT !.status = "CANCELLED"]
      BY <1>1, <3>2 DEF RowType, RowStatus
    <3>3. CASE row' = SettledRow(p) /\ proc[p].outcome # "FAILED"
      <4>1. proc[p].outcome \in Outcome
        BY DEF IInv, TypeOK, CallType
      <4>2. proc[p].outcome = "SENT" => accepted # {}
        BY <1>8 DEF Settle, IInv, SuccessWasAccepted
      <4>3. PICK status \in RowStatus, misses \in Nat :
              /\ row' = [row EXCEPT !.status = status, !.misses = misses]
              /\ status = "SENT" => proc[p].outcome = "SENT"
        <5>1. row.misses \in Nat /\ row.misses + 1 \in Nat
          BY <1>1 DEF RowType
        <5>2. CASE proc[p].outcome = "RECONCILE"
          BY <3>3, <5>1, <5>2 DEF SettledRow, RowStatus
        <5>3. CASE proc[p].outcome = "SENT"
          BY <3>3, <5>1, <5>3 DEF SettledRow, RowStatus
        <5>4. CASE proc[p].outcome \in {"RETRY", "UNKNOWN"}
          BY <3>3, <5>1, <5>4 DEF SettledRow, RowStatus
        <5> QED  BY <3>3, <4>1, <5>2, <5>3, <5>4 DEF Outcome
      <4> QED  BY <1>1, <4>2, <4>3 DEF RowType
    <3>4. CASE row' = CancelUnsent(row)
      BY <1>1, <3>4, Cancelled
    <3> QED  BY <1>8, <3>1, <3>2, <3>3, <3>4 DEF Settle
  <2> QED  BY <2>1, <2>2, <2>3, OverStep
<1>9. ASSUME NEW p \in Dispatcher, Crash(p) PROVE IInv'
  BY <1>1, <1>9, OverStep DEF Crash
<1>10. CASE ReviewCompletes
  BY <1>1, <1>10, RowStep DEF ReviewCompletes, RequestStatus
<1>11. CASE RequestStopped
  BY <1>1, <1>11, RowStep, Cancelled DEF RequestStopped, RequestStatus
<1>12. CASE SweepTimeout
  BY <1>1, <1>12, RowStep, Cancelled DEF SweepTimeout, RequestStatus
<1>13. CASE Due
  BY <1>1, <1>13, RowStep DEF Due, RowType
<1>14. CASE Deadline
  BY <1>1, <1>14, RowStep DEF Deadline
<1>15. CASE List
  <2>1. listed' \in SUBSET accepted /\ UNCHANGED <<request, late, row, proc, posted, accepted>>
    BY <1>15 DEF List, IInv, TypeOK
  <2> QED  BY <2>1 DEF IInv, TypeOK, ClaimsAreNumbered, PostersWithinLimit, SuccessWasAccepted,
                       AttemptPostsOnce, SubmissionsWithinLimit, SentWasAccepted
<1>16. CASE UNCHANGED vars
  BY <1>16 DEF vars, IInv, TypeOK, ClaimsAreNumbered, PostersWithinLimit, SuccessWasAccepted,
               AttemptPostsOnce, SubmissionsWithinLimit, SentWasAccepted
<1> QED  BY <1>2, <1>3, <1>4, <1>5, <1>6, <1>7, <1>8, <1>9, <1>10, <1>11, <1>12, <1>13, <1>14,
            <1>15, <1>16 DEF Next, Dispatch

\* The invariant holds in every reachable state.
LEMMA Inductive == Spec => []IInv
BY InitIInv, NextIInv, PTL DEF Spec

(***************************************************************************)
(* However many Dispatchers run and whatever answers are lost, the row is  *)
(* SENT only after the carrier has accepted the request.                   *)
(***************************************************************************)
THEOREM SentIsAccepted == Spec => []SentWasAccepted
<1>1. IInv => SentWasAccepted
  BY DEF IInv
<1> QED  BY <1>1, Inductive, PTL

(***************************************************************************)
(* The Reviewer is woken at most MaxAttempts times, each attempt once.     *)
(***************************************************************************)
THEOREM WakesAreCapped == Spec => [](SubmissionsWithinLimit /\ AttemptPostsOnce)
<1>1. IInv => SubmissionsWithinLimit /\ AttemptPostsOnce
  BY DEF IInv
<1> QED  BY <1>1, Inductive, PTL

-----------------------------------------------------------------------------
(***************************************************************************)
(* What was settled stays settled: only the holder of the lease of a row   *)
(* that is still leased can settle it or fail the request.                 *)
(***************************************************************************)
THEOREM SettledRowStays == Spec => SettledStays
<1>1. [Next]_vars => [row.status \in Settled
                        => row' = row /\ (request' = "FAILED" => request = "FAILED")]_vars
  <2> SUFFICES ASSUME Next, row.status \in Settled
               PROVE  row' = row /\ (request' = "FAILED" => request = "FAILED")
    BY DEF vars
  <2>1. ~Ready /\ row.status # "LEASED" /\ CancelUnsent(row) = row
    BY DEF Ready, Settled, CancelUnsent
  <2>2. CASE ClaimClosed \/ ClaimLate \/ SweepTimeout \/ RequestStopped \/ ReviewCompletes
    BY <2>1, <2>2 DEF ClaimClosed, ClaimLate, SweepTimeout, RequestStopped, ReviewCompletes
  <2>3. ASSUME NEW p \in Dispatcher, Dispatch(p) \/ Crash(p)
        PROVE  UNCHANGED <<row, request>>
    BY <2>1, <2>3 DEF Dispatch, Claim, Query, Submit, Post, Settle, HoldsLease, Crash
  <2>4. CASE Due \/ Deadline \/ List
    BY <2>4 DEF Due, Deadline, List, Settled
  <2> QED  BY <2>2, <2>3, <2>4 DEF Next
<1> QED  BY <1>1, PTL DEF Spec, SettledStays

(***************************************************************************)
(* OutboxDelivery implements DeliveryPromise: only a POST adds a copy, and *)
(* only of a claim within the limit, and whatever else a step does to the  *)
(* row confirms an accepted delivery, gives an open one up, or stutters.   *)
(***************************************************************************)
THEOREM PromiseIsKept == Spec => KeepsPromise
<1> DEFINE state == IF row.status = "SENT" THEN "sent"
                    ELSE IF row.status = "CANCELLED" THEN "given up" ELSE "open"
<1>1. Init => Promise!Init
  BY DEF Init, Promise!Init
<1>2. IInv /\ [Next]_vars => [Promise!Next]_(Promise!vars)
  <2> SUFFICES ASSUME IInv, [Next]_vars PROVE Promise!Next \/ UNCHANGED <<state, accepted>>
    BY DEF Promise!vars
  <2>1. row \in RowType
    BY DEF IInv, TypeOK
  <2>2. CASE UNCHANGED <<row, accepted>>
    BY <2>2
  <2>3. ASSUME UNCHANGED accepted, row'.status \in RowStatus, row.status \notin Settled,
               row'.status = "SENT" => accepted # {}
        PROVE  Promise!Next \/ UNCHANGED <<state, accepted>>
    BY <2>3 DEF Promise!Next, Promise!Confirm, Promise!GiveUp, Settled
  <2>4. CASE UNCHANGED <<accepted, row.status>>
    BY <2>4
  <2>5. CASE Ready /\ (ClaimClosed \/ ClaimLate \/ \E p \in Dispatcher : Claim(p))
    <3>1. row.status \notin Settled /\ UNCHANGED accepted
      BY <2>5 DEF Ready, Settled, ClaimClosed, ClaimLate, Claim
    <3>2. row'.status \in {"CANCELLED", "LEASED"}
      BY <2>1, <2>5, <3>1 DEF ClaimClosed, ClaimLate, Claim, CancelUnsent, RowType
    <3> QED  BY <2>3, <3>1, <3>2 DEF RowStatus
  <2>6. CASE RequestStopped \/ SweepTimeout
    <3>1. UNCHANGED accepted /\ row' = CancelUnsent(row)
      BY <2>6 DEF RequestStopped, SweepTimeout
    <3>2. CASE row.status \in Settled
      BY <2>2, <3>1, <3>2 DEF CancelUnsent
    <3>3. CASE row.status \notin Settled
      BY <2>1, <2>3, <3>1, <3>3 DEF CancelUnsent, RowType, RowStatus
    <3> QED  BY <3>2, <3>3
  <2>7. ASSUME NEW p \in Dispatcher, Settle(p)
        PROVE  Promise!Next \/ UNCHANGED <<state, accepted>>
    <3>1. CASE ~HoldsLease(p)
      BY <2>2, <2>7, <3>1 DEF Settle
    <3>2. CASE HoldsLease(p)
      <4>1. row.status \notin Settled /\ UNCHANGED accepted
        BY <2>7, <3>2 DEF Settle, HoldsLease, Settled
      <4>2. proc[p].outcome \in Outcome /\ (proc[p].outcome = "SENT" => accepted # {})
        BY <2>7 DEF Settle, IInv, TypeOK, CallType, SuccessWasAccepted
      <4>3. row'.status = "CANCELLED" \/ (row' = SettledRow(p) /\ proc[p].outcome # "FAILED")
        BY <2>1, <2>7, <3>2, <4>1 DEF Settle, CancelUnsent, RowType
      <4>4. row' = SettledRow(p) => row'.status = IF proc[p].outcome = "RECONCILE" THEN "UNKNOWN"
                                                  ELSE proc[p].outcome
        BY <2>1 DEF SettledRow, RowType
      <4>5. row'.status \in RowStatus /\ (row'.status = "SENT" => accepted # {})
        BY <4>2, <4>3, <4>4 DEF Outcome, RowStatus
      <4> QED  BY <2>3, <4>1, <4>5
    <3> QED  BY <3>1, <3>2
  <2>8. ASSUME NEW p \in Dispatcher, Post(p)
        PROVE  Promise!Next \/ UNCHANGED <<state, accepted>>
    <3>1. proc[p].claim \in 1..MaxAttempts
      BY <2>8, DeliveryAssumption
         DEF Post, IInv, ClaimsAreNumbered, PostersWithinLimit, TypeOK, RowType
    <3>2. row' = row /\ (accepted' = accepted \/ accepted' = accepted \cup {proc[p].claim})
      BY <2>8 DEF Post
    <3> QED  BY <3>1, <3>2 DEF Promise!Next, Promise!Accept
  <2>9. ASSUME NEW p \in Dispatcher, Query(p) \/ Submit(p) \/ Crash(p)
        PROVE  UNCHANGED <<row, accepted>>
    BY <2>9 DEF Query, Submit, Crash
  <2>10. CASE ReviewCompletes \/ Deadline \/ List \/ UNCHANGED vars
    BY <2>2, <2>10 DEF ReviewCompletes, Deadline, List, vars
  <2>11. CASE Due
    BY <2>1, <2>4, <2>11 DEF Due, RowType
  <2> QED  BY <2>2, <2>5, <2>6, <2>7, <2>8, <2>9, <2>10, <2>11
           DEF Next, Dispatch, ClaimClosed, ClaimLate, Claim
<1> QED  BY <1>1, <1>2, Inductive, PTL DEF Spec, KeepsPromise, Promise!Spec

\* The call that ends is replaced by one that settles.
LEMMA Ending ==
  ASSUME NEW p \in Dispatcher, NEW outcome \in Outcome, Ends(p, outcome),
         proc \in [Dispatcher -> CallType]
  PROVE  \E next \in CallType : proc' = [proc EXCEPT ![p] = next] /\ next.pc = "settle"
<1> DEFINE next == [proc[p] EXCEPT !.pc = "settle", !.outcome = outcome]
<1>1. next \in CallType /\ next.pc = "settle"
  BY DEF CallType
<1>2. proc' = [proc EXCEPT ![p] = next]
  BY DEF Ends, Call
<1> HIDE DEF next
<1> QED  BY <1>1, <1>2

(***************************************************************************)
(* A closed request is neither claimed again nor are new POSTs prepared    *)
(* for it: the adapter looks at the request after the claim as well.       *)
(***************************************************************************)
THEOREM ClosedIsQuiet == Spec => ClosedRequestIsQuiet
<1>1. IInv /\ [Next]_vars
        => [request # "OPEN" =>
              /\ row'.attempts = row.attempts
              /\ \A p \in Dispatcher : proc'[p].pc = "post" => proc[p].pc = "post"]_vars
  <2> SUFFICES ASSUME IInv, Next, request # "OPEN"
               PROVE  /\ row'.attempts = row.attempts
                      /\ \A p \in Dispatcher : proc'[p].pc = "post" => proc[p].pc = "post"
    BY DEF vars
  <2>1. row \in RowType /\ proc \in [Dispatcher -> CallType]
    BY DEF IInv, TypeOK
  <2>2. CASE ClaimClosed \/ Due
    BY <2>1, <2>2 DEF ClaimClosed, Due, RowType
  <2>3. CASE ClaimLate \/ SweepTimeout \/ RequestStopped \/ ReviewCompletes
    BY <2>3 DEF ClaimLate, SweepTimeout, RequestStopped, ReviewCompletes
  <2>4. CASE Deadline \/ List
    BY <2>4 DEF Deadline, List
  <2>5. ASSUME NEW p \in Dispatcher, Dispatch(p) \/ Crash(p)
        PROVE  /\ row'.attempts = row.attempts
               /\ \A q \in Dispatcher : proc'[q].pc = "post" => proc[q].pc = "post"
    <3>1. row'.attempts = row.attempts
      BY <2>1, <2>5 DEF Dispatch, Claim, Query, Submit, Post, Settle, SettledRow, Crash, RowType
    <3>2. PICK next \in CallType : proc' = [proc EXCEPT ![p] = next] /\ next.pc # "post"
      <4>1. Idle \in CallType /\ Idle.pc # "post"
        BY DEF Idle, CallType, Outcome
      <4>2. CASE Settle(p) \/ Crash(p)
        BY <4>1, <4>2 DEF Settle, Crash, Call
      <4>3. CASE Query(p) /\ Ends(p, "FAILED")
        BY <2>1, <4>3, Ending DEF Outcome
      <4>4. CASE Submit(p) /\ Ends(p, "FAILED")
        BY <2>1, <4>4, Ending DEF Outcome
      <4>5. CASE Post(p)
        <5>1. PICK outcome \in Outcome : Ends(p, outcome)
          BY <4>5 DEF Post, LostAnswer, Ambiguous, Outcome
        <5> QED  BY <2>1, <5>1, Ending
      <4>6. ~Claim(p) /\ ~Routed /\ ~RoutedAtSubmit
        BY DEF Claim, Routed, RoutedAtSubmit
      <4> QED  BY <2>5, <4>2, <4>3, <4>4, <4>5, <4>6 DEF Dispatch, Query, Submit
    <3> QED  BY <2>1, <3>1, <3>2
  <2> QED  BY <2>2, <2>3, <2>4, <2>5 DEF Next
<1> QED  BY <1>1, Inductive, PTL DEF Spec, ClosedRequestIsQuiet

-----------------------------------------------------------------------------
(***************************************************************************)
(* One Dispatcher and a prompt carrier.  What was accepted is listed, so   *)
(* whoever goes on to submit knows that nothing was accepted before, and   *)
(* nobody else posts in between.                                           *)
(***************************************************************************)
OneCopyInv ==
  /\ listed = accepted
  /\ \A p \in Dispatcher : proc[p].pc \in {"submit", "post"} => accepted = {}
  /\ \E attempt \in Nat : accepted \subseteq {attempt}

\* At most one accepted comment, as a fact about its size.
LEMMA SmallSet == ASSUME OneCopyInv PROVE AtMostOneCopy
<1>1. PICK attempt \in Nat : accepted \subseteq {attempt}
  BY DEF OneCopyInv
<1>2. accepted = {} \/ accepted = {attempt}
  BY <1>1
<1>3. Cardinality({}) = 0 /\ Cardinality({attempt}) = 1
  BY FS_EmptySet, FS_Singleton
<1>4. Cardinality(accepted) \in {0, 1}
  BY <1>2, <1>3
<1> QED  BY <1>4 DEF AtMostOneCopy

(***************************************************************************)
(* With one Dispatcher, which may crash anywhere and lose any answer, and  *)
(* a prompt carrier, the Reviewer never finds the request twice.           *)
(***************************************************************************)
THEOREM OneDispatcherOneCopy ==
  ASSUME NEW d, Dispatcher = {d}, Prompt
  PROVE  Spec => []AtMostOneCopy
<1>1. Init => OneCopyInv
  BY DEF Init, OneCopyInv, Idle
<1>2. IInv /\ OneCopyInv /\ [Next]_vars => OneCopyInv'
  <2> SUFFICES ASSUME IInv, OneCopyInv, [Next]_vars PROVE OneCopyInv'
    OBVIOUS
  <2>1. proc \in [Dispatcher -> CallType] /\ d \in Dispatcher
    BY DEF IInv, TypeOK
  <2>2. CASE ClaimClosed \/ ClaimLate \/ SweepTimeout \/ RequestStopped \/ ReviewCompletes
    BY <2>2 DEF ClaimClosed, ClaimLate, SweepTimeout, RequestStopped, ReviewCompletes, OneCopyInv
  <2>3. CASE Due \/ Deadline \/ List \/ UNCHANGED vars
    BY <2>3 DEF Due, Deadline, List, vars, OneCopyInv
  <2>4. ASSUME UNCHANGED <<accepted, listed>>,
               proc'[d].pc \in {"submit", "post"} => accepted = {}
        PROVE  OneCopyInv'
    BY <2>4 DEF OneCopyInv
  <2>5. CASE Claim(d) \/ Settle(d) \/ Crash(d)
    <3>1. proc'[d].pc \notin {"submit", "post"} /\ UNCHANGED <<accepted, listed>>
      BY <2>1, <2>5 DEF Claim, Settle, Crash, Call, Idle
    <3> QED  BY <2>4, <3>1
  <2>6. CASE Query(d)
    <3>1. UNCHANGED <<accepted, listed>>
      BY <2>6 DEF Query
    <3>2. \/ \E outcome \in Outcome : Ends(d, outcome)
          \/ listed = {}
      BY <2>6 DEF Query, Retryable, Ambiguous, Outcome, NothingFound
    <3>3. proc'[d].pc \in {"submit", "post"} => accepted = {}
      BY <2>1, <3>1, <3>2 DEF Ends, Call, CallType, OneCopyInv
    <3> QED  BY <2>4, <3>1, <3>3
  <2>7. CASE Submit(d)
    <3>1. proc[d].pc = "submit" /\ UNCHANGED <<accepted, listed>>
      BY <2>7 DEF Submit
    <3>2. accepted = {}
      BY <2>1, <3>1 DEF OneCopyInv
    <3> QED  BY <2>4, <3>1, <3>2
  <2>8. CASE Post(d)
    <3>1. accepted = {} /\ listed = {} /\ proc[d].claim \in Nat
      BY <2>1, <2>8 DEF Post, OneCopyInv, CallType
    <3>2. \/ accepted' = {} /\ listed' = {}
          \/ accepted' = {proc[d].claim} /\ listed' = {proc[d].claim}
      BY <2>8, <3>1 DEF Post
    <3>3. PICK outcome \in Outcome : Ends(d, outcome)
      BY <2>8 DEF Post, LostAnswer, Ambiguous, Outcome
    <3>4. proc'[d].pc = "settle"
      BY <2>1, <3>3 DEF Ends, Call, CallType
    <3> QED  BY <3>1, <3>2, <3>4 DEF OneCopyInv
  <2> QED  BY <2>2, <2>3, <2>5, <2>6, <2>7, <2>8 DEF Next, Dispatch
<1>3. OneCopyInv => AtMostOneCopy
  BY SmallSet
<1> QED  BY <1>1, <1>2, <1>3, Inductive, PTL DEF Spec

-----------------------------------------------------------------------------
(***************************************************************************)
(* The request of this module is one that lives as RequestLife says: what  *)
(* a Dispatcher does to it is a time-out or a stop, at a moment when it    *)
(* may come.                                                               *)
(***************************************************************************)
LifeStatus == CASE request = "OPEN" -> "PENDING"
                [] request \in {"FAILED", "STOPPED"} -> "STOPPED"
                [] OTHER -> request

Life == INSTANCE RequestLife WITH
  Request <- {1}, status <- [r \in {1} |-> LifeStatus], late <- request = "OPEN" /\ late

\* Every step is one of that life, or leaves the request alone.
LEMMA LifeStep == ASSUME IInv, [Next]_vars PROVE [Life!Next]_(Life!vars)
<1> USE DEF IInv, TypeOK, RequestStatus, LifeStatus, Life!Open, Life!Active, Life!Becomes
<1> SUFFICES ASSUME ~UNCHANGED Life!vars PROVE Life!Next
  OBVIOUS
<1>1. ASSUME request = "OPEN", ~late, request' = "COMPLETED" PROVE Life!Complete(1)
  BY <1>1 DEF Life!Complete
<1>2. ASSUME request = "OPEN", late, request' = "TIMED_OUT" PROVE Life!TimeOut(1)
  BY <1>2 DEF Life!TimeOut
<1>3. ASSUME request = "OPEN", request' \in {"FAILED", "STOPPED"} PROVE Life!Stop(1)
  BY <1>3 DEF Life!Stop
<1>4. ASSUME request = "OPEN", UNCHANGED request, ~late, late' PROVE Life!Deadline
  BY <1>4 DEF Life!Deadline
<1>5. ~UNCHANGED <<request, late>>
  BY DEF Life!vars
<1>6. CASE ClaimLate \/ SweepTimeout
  BY <1>2, <1>6 DEF ClaimLate, SweepTimeout, Life!Next
<1>7. CASE RequestStopped \/ \E p \in Dispatcher : Settle(p)
  BY <1>3, <1>5, <1>7 DEF RequestStopped, Settle, Life!Next
<1>8. CASE ReviewCompletes
  BY <1>1, <1>8 DEF ReviewCompletes, Life!Next
<1>9. CASE Deadline
  BY <1>4, <1>9 DEF Deadline, Life!Next, Life!vars
<1> QED
  BY <1>5, <1>6, <1>7, <1>8, <1>9 DEF vars, Next, Dispatch, Claim, ClaimClosed, Query, Submit, Post,
       Crash, Due, List

(***************************************************************************)
(* For any Dispatchers, limit and carrier: however the delivery ends the   *)
(* request, it ends it once, and as timed out only past its deadline.      *)
(***************************************************************************)
THEOREM RequestLives == Spec => Life!Spec
<1>1. Init => Life!Init
  BY DEF Init, Life!Init, LifeStatus
<1> QED
  BY <1>1, LifeStep, Inductive, PTL DEF Spec, Life!Spec

(***************************************************************************)
(* And whatever else may happen to such a request happens here: the        *)
(* Dispatchers are checked against every step that RequestLife leaves to   *)
(* the Reviewer, the sweep, the Human and the clock, at every moment.  A   *)
(* request that is started goes on being OPEN here, and one that ends      *)
(* without an answer takes what was not sent of its row with it.           *)
(***************************************************************************)
THEOREM AnyLifeIsMet ==
  /\ TypeOK /\ Life!Next
  /\ request' \in RequestStatus \ {"FAILED"} /\ late' \in BOOLEAN
  /\ request' = request \/ late' = late
  /\ row' = IF request' \in {"TIMED_OUT", "STOPPED"} THEN CancelUnsent(row) ELSE row
  /\ UNCHANGED <<proc, posted, accepted, listed>>
  => ReviewCompletes \/ RequestStopped \/ SweepTimeout \/ Deadline
<1> SUFFICES ASSUME TypeOK, Life!Next,
                    request' \in RequestStatus \ {"FAILED"}, late' \in BOOLEAN,
                    request' = request \/ late' = late,
                    row' = IF request' \in {"TIMED_OUT", "STOPPED"} THEN CancelUnsent(row) ELSE row,
                    UNCHANGED <<proc, posted, accepted, listed>>
             PROVE  ReviewCompletes \/ RequestStopped \/ SweepTimeout \/ Deadline
  OBVIOUS
<1> USE DEF TypeOK, RequestStatus, LifeStatus, Life!Open, Life!Active, Life!Becomes
<1>1. CASE Life!Complete(1)
  BY <1>1 DEF Life!Complete, ReviewCompletes
<1>2. CASE Life!TimeOut(1)
  BY <1>2 DEF Life!TimeOut, SweepTimeout
<1>3. CASE Life!Stop(1)
  BY <1>3 DEF Life!Stop, RequestStopped
<1>4. CASE Life!Deadline
  BY <1>4 DEF Life!Deadline, Deadline
<1>5. ~Life!Ask(1) /\ ~Life!Start(1)
  BY DEF Life!Ask, Life!Start
<1> QED
  BY <1>1, <1>2, <1>3, <1>4, <1>5 DEF Life!Next
=============================================================================
