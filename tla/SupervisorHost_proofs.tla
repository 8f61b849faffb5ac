------------------------ MODULE SupervisorHost_proofs ------------------------
(***************************************************************************)
(* Proofs about SupervisorHost, for any sequence of workers, any interval  *)
(* and any number of callers of /ready: types, and that a loop that hangs  *)
(* is never called ready.  And about one of the workers its loop calls,    *)
(* the one that wakes Reviewers (ReviewerWake), for any number of          *)
(* processes and any limit: what limits and ends the waking, and that the  *)
(* request lives as RequestLife says.                                      *)
(***************************************************************************)
EXTENDS SupervisorHost, ReviewerWake, TLAPS

(***************************************************************************)
(* The age of the last cycle counts at least as far as the time the loop   *)
(* has been in one call: the cycle was recorded before the call began.     *)
(***************************************************************************)
CycleIsOlderThanCall == loop.pc = "call" => loop.time <= service.age

\* What a probe read as healthy was not a hanging loop.
HealthyWasMoving ==
  \A p \in Prober : probes[p].pc = "read" /\ probes[p].healthy => probes[p].stuck <= MaxAge

IInv == TypeOK /\ CycleIsOlderThanCall /\ HealthyWasMoving /\ HungIsNotReady

-----------------------------------------------------------------------------
\* The clock stops one above its largest use, and later is not sooner.
LEMMA LaterInClock ==
  ASSUME NEW t \in Clock
  PROVE  /\ Later(t) \in Clock
         /\ \A u \in Clock : t <= u => Later(t) <= Later(u)
BY HostConstants DEF Clock, Later, MaxAge

LEMMA InitIInv == Init => IInv
<1> SUFFICES ASSUME Init PROVE IInv
  OBVIOUS
<1> USE DEF Init
<1>1. loop.at \in DOMAIN Workers
  BY HostConstants
<1>2. 0 \in Clock /\ 0 \in 0..JoinTimeout
  BY HostConstants DEF Clock, MaxAge, JoinTimeout
<1>3. TypeOK
  BY <1>1, <1>2 DEF TypeOK, Idle
<1> QED
  BY <1>3 DEF IInv, CycleIsOlderThanCall, HealthyWasMoving, HungIsNotReady, Idle

\* After a worker's call the loop is at the next worker, or records the cycle.
LEMMA AfterACall ==
  ASSUME TypeOK, NEW failed \in SUBSET Worker, loop.pc = "call"
  PROVE  /\ After(failed) \in [pc : {"none", "check", "call", "record", "wait", "failing",
                                     "closing", "ended"},
                               at : DOMAIN Workers, failed : SUBSET Worker, time : Clock]
         /\ After(failed).time = 0
<1>1. loop.at < Len(Workers) => loop.at + 1 \in DOMAIN Workers
  BY HostConstants DEF TypeOK
<1>2. 0 \in Clock
  BY HostConstants DEF Clock, MaxAge
<1> QED
  BY <1>1, <1>2 DEF After, TypeOK

(***************************************************************************)
(* A step of the loop that leaves service, main and probes alone keeps the *)
(* invariant if the loop has just come to where it is.                     *)
(***************************************************************************)
LEMMA LoopMoves ==
  ASSUME IInv, TypeOK', UNCHANGED <<service, stop, main, probes>>,
         loop'.pc = "call" => loop'.time = 0
  PROVE  IInv'
<1>1. service.age \in Nat
  BY HostConstants DEF IInv, TypeOK, Clock, MaxAge
<1>2. CycleIsOlderThanCall'
  BY <1>1 DEF CycleIsOlderThanCall
<1>3. HealthyWasMoving' /\ HungIsNotReady'
  BY DEF IInv, HealthyWasMoving, HungIsNotReady
<1> QED
  BY <1>2, <1>3 DEF IInv

LEMMA ReturnKeeps == IInv /\ Return => IInv'
<1> SUFFICES ASSUME IInv, Return PROVE IInv'
  OBVIOUS
<1> USE DEF IInv, Return
<1>1. Workers[loop.at] \in Worker
  BY DEF TypeOK, Worker
<1>2. CASE loop' = After(loop.failed)
  <2>1. loop.failed \in SUBSET Worker
    BY DEF TypeOK
  <2>2. TypeOK' /\ loop'.time = 0
    BY <1>2, <2>1, AfterACall DEF TypeOK
  <2> QED
    BY <2>2, LoopMoves
<1>3. CASE loop' = After(loop.failed \cup {Workers[loop.at]})
  <2>1. loop.failed \cup {Workers[loop.at]} \in SUBSET Worker
    BY <1>1 DEF TypeOK
  <2>2. TypeOK' /\ loop'.time = 0
    BY <1>3, <2>1, AfterACall DEF TypeOK
  <2> QED
    BY <2>2, LoopMoves
<1>4. CASE loop' = [loop EXCEPT !.pc = "failing"]
  <2>1. TypeOK' /\ loop'.pc = "failing"
    BY <1>4 DEF TypeOK
  <2> QED
    BY <2>1, LoopMoves
<1> QED
  BY <1>2, <1>3, <1>4

LEMMA SuperviseKeeps == IInv /\ Supervise => IInv'
<1> SUFFICES ASSUME IInv, Supervise PROVE IInv'
  OBVIOUS
<1>0. 0 \in Clock /\ 1 \in DOMAIN Workers
  BY HostConstants DEF Clock, MaxAge
<1>1. CASE Check
  <2>1. TypeOK' /\ (loop'.pc = "call" => loop'.time = 0)
    BY <1>0, <1>1 DEF IInv, TypeOK, Check
  <2> QED
    BY <1>1, <2>1, LoopMoves DEF Check
<1>2. CASE Record
  <2>1. TypeOK' /\ loop'.pc = "wait"
    BY <1>0, <1>2 DEF IInv, TypeOK, Record
  <2> QED
    BY <1>2, <2>1 DEF IInv, Record, CycleIsOlderThanCall, HealthyWasMoving, HungIsNotReady
<1>3. CASE Wake
  <2>1. TypeOK' /\ loop'.pc = "check"
    BY <1>3 DEF IInv, TypeOK, Wake
  <2> QED
    BY <1>3, <2>1, LoopMoves DEF Wake
<1>4. CASE Fail
  <2>1. TypeOK' /\ loop'.pc # "call" /\ UNCHANGED probes
    BY <1>4 DEF IInv, TypeOK, Fail
  <2> QED
    BY <2>1 DEF IInv, CycleIsOlderThanCall, HealthyWasMoving, HungIsNotReady
<1> QED
  BY <1>1, <1>2, <1>3, <1>4 DEF Supervise

LEMMA MainKeeps == IInv /\ (Start \/ Shutdown \/ Join \/ Exit) => IInv'
<1> SUFFICES ASSUME IInv, Start \/ Shutdown \/ Join \/ Exit PROVE IInv'
  OBVIOUS
<1>1. TypeOK'
  BY DEF IInv, TypeOK, Start, Shutdown, Join, Exit
<1>2. CycleIsOlderThanCall'
  BY DEF IInv, TypeOK, CycleIsOlderThanCall, Start, Shutdown, Join, Exit
<1>3. UNCHANGED probes
  BY DEF Start, Shutdown, Join, Exit
<1> QED
  BY <1>1, <1>2, <1>3 DEF IInv, HealthyWasMoving, HungIsNotReady

LEMMA ProbeKeeps ==
  ASSUME IInv, NEW p \in Prober, Ask(p) \/ Read(p) \/ Answer(p)
  PROVE  IInv'
<1> USE DEF IInv
<1>0. UNCHANGED <<loop, service, stop, main>>
  BY DEF Ask, Read, Answer
<1>1. /\ probes' \in [Prober -> [pc : {"idle", "asked", "read", "ready", "not_ready"},
                                 database : BOOLEAN, healthy : BOOLEAN, stuck : Clock]]
      /\ probes'[p].pc \in {"read", "ready"} /\ probes'[p].healthy => probes'[p].stuck <= MaxAge
      /\ probes'[p].pc = "ready" => probes'[p].healthy
      /\ \A q \in Prober \ {p} : probes'[q] = probes[q]
  <2>1. CASE Ask(p)
    <3>1. 0 \in Clock
      BY HostConstants DEF Clock, MaxAge
    <3> QED
      BY <2>1, <3>1 DEF Ask, TypeOK
  <2>2. CASE Read(p)
    <3>1. 0 \in Clock /\ Healthy \in BOOLEAN
      BY HostConstants DEF Clock, MaxAge, Healthy
    <3>2. Healthy => (IF loop.pc = "call" THEN loop.time ELSE 0) <= MaxAge
      BY HostConstants DEF Healthy, CycleIsOlderThanCall, TypeOK, Clock, MaxAge
    <3> QED
      BY <2>2, <3>1, <3>2 DEF Read, TypeOK
  <2>3. CASE Answer(p)
    BY <2>3 DEF Answer, TypeOK, HealthyWasMoving
  <2> QED
    BY <2>1, <2>2, <2>3
<1>2. TypeOK' /\ CycleIsOlderThanCall'
  BY <1>0, <1>1 DEF TypeOK, CycleIsOlderThanCall
<1> QED
  BY <1>0, <1>1, <1>2 DEF HealthyWasMoving, HungIsNotReady

LEMMA PassKeeps == IInv /\ Pass => IInv'
<1> SUFFICES ASSUME IInv, Pass PROVE IInv'
  OBVIOUS
<1> USE DEF IInv, Pass
<1>1. loop.time \in Clock /\ service.age \in Clock
  BY DEF TypeOK
<1>2. Later(loop.time) \in Clock /\ Later(service.age) \in Clock
  BY <1>1, LaterInClock
<1>3. main' \in [pc : {"starting", "serving", "joining", "overdue", "returned", "gone"},
                 time : 0..JoinTimeout]
  BY HostConstants DEF TypeOK, JoinTimeout
<1>4. TypeOK'
  BY <1>2, <1>3 DEF TypeOK
<1>5. CycleIsOlderThanCall'
  BY <1>1, LaterInClock DEF CycleIsOlderThanCall, TypeOK
<1> QED
  BY <1>4, <1>5 DEF HealthyWasMoving, HungIsNotReady

\* The invariant is inductive.
LEMMA NextIInv == IInv /\ [Next]_vars => IInv'
<1> SUFFICES ASSUME IInv, [Next]_vars PROVE IInv'
  OBVIOUS
<1>1. CASE Return
  BY <1>1, ReturnKeeps
<1>2. CASE Supervise
  BY <1>2, SuperviseKeeps
<1>3. CASE Start \/ Shutdown \/ Join \/ Exit
  BY <1>3, MainKeeps
<1>4. CASE \E p \in Prober : Ask(p) \/ Read(p) \/ Answer(p)
  BY <1>4, ProbeKeeps
<1>5. CASE Pass
  BY <1>5, PassKeeps
<1>6. CASE UNCHANGED vars
  BY <1>6 DEF vars, IInv, TypeOK, CycleIsOlderThanCall, HealthyWasMoving, HungIsNotReady
<1> QED
  BY <1>1, <1>2, <1>3, <1>4, <1>5, <1>6 DEF Next

(***************************************************************************)
(* For every interval and any workers: /ready never vouches for a loop     *)
(* that has been in one call for more than three intervals.                *)
(***************************************************************************)
THEOREM HungIsTold == Spec => []HungIsNotReady
<1>1. IInv => HungIsNotReady
  BY DEF IInv
<1> QED
  BY <1>1, InitIInv, NextIInv, PTL DEF Spec

-----------------------------------------------------------------------------
(***************************************************************************)
(* The wake worker of the loop, for any number of processes that run it    *)
(* and any limit of attempts.                                              *)
(***************************************************************************)
(***************************************************************************)
(* An attempt is counted when the receipt is leased, before the webhook is *)
(* called; the lease names it, and so does the worker that claimed it.     *)
(***************************************************************************)
AttemptsCounted ==
  /\ wake.attempts <= MaxWakes
  /\ woken \subseteq 1..wake.attempts
  /\ \A w \in Waker : call[w].pc # "idle" => call[w].claim \in 1..wake.attempts

\* No two workers have the same attempt, and one that has yet to call has not called.
OneCallAnAttempt ==
  /\ \A w \in Waker : call[w].pc \in {"check", "send"} => call[w].claim \notin woken
  /\ \A w \in Waker : call[w].pc = "settle" => call[w].claim \in woken
  /\ \A v, w \in Waker :
       v # w /\ call[v].pc # "idle" /\ call[w].pc # "idle" => call[v].claim # call[w].claim

\* Only a request that is delivered over HTTP is ever leased.
WakedOverHTTP == wake.status # "NONE" => channel = "REVIEWER_HTTP"

LateWhenTimedOut == request = "TIMED_OUT" => late

\* A reason ends the lease.
LeaseHasNoReason == wake.token # 0 => wake.reason = "NONE"

ReasonStands == wake.reason # "NONE" => ReasonHolds

WakeInv == /\ WakeTypeOK
           /\ AttemptsCounted /\ OneCallAnAttempt
           /\ WakedOverHTTP /\ LateWhenTimedOut /\ LeaseHasNoReason /\ ReasonStands

LEMMA WakeInitInv ==
  ASSUME WakeInit
  PROVE  WakeInv
<1> USE DEF WakeInit, NoCall
<1>1. WakeTypeOK
  BY DEF WakeTypeOK, Channel, RequestStatus, Receipt,
         EventStatus, WakeRow, WakeStatus, Reason, CallType
<1>2. AttemptsCounted
  BY WakeAssumption DEF AttemptsCounted
<1> QED
  BY <1>1, <1>2 DEF WakeInv, OneCallAnAttempt, WakedOverHTTP, LateWhenTimedOut,
                    LeaseHasNoReason, ReasonStands

(***************************************************************************)
(* What the Dispatcher, the Reviewer, the Hub and the clock do leaves the  *)
(* wake alone and makes no reason false: an end, a read and an applied     *)
(* event stay, and no request becomes pending again.                       *)
(***************************************************************************)
Elsewhere == \/ Publish \/ Sent \/ Discover \/ Expire
             \/ Acknowledge \/ ReviewerEvent \/ ApplyEvent
             \/ Complete \/ Deadline
             \/ \E status \in {"TIMED_OUT", "CLOSED"} : Close(status)

LEMMA ElsewhereStays ==
  ASSUME WakeTypeOK, LateWhenTimedOut, Elsewhere
  PROVE  /\ WakeTypeOK' /\ LateWhenTimedOut'
         /\ UNCHANGED <<channel, wake, call, woken>>
         /\ late => late'
         /\ request = "COMPLETED" => request' = "COMPLETED"
         /\ request # "PENDING" => request' # "PENDING"
         /\ request \notin ActiveRequest => request' = request
         /\ intake = "ACKED" => intake' = "ACKED"
         /\ event = "APPLIED" => event' = "APPLIED"
<1> USE DEF WakeTypeOK, LateWhenTimedOut, RequestStatus, ActiveRequest,
            Receipt, EventStatus, Quiet
<1>1. CASE Publish \/ Sent \/ Discover \/ Expire
  BY <1>1 DEF Publish, Sent, Discover, Expire
<1>2. CASE Acknowledge \/ ReviewerEvent \/ Complete \/ Deadline
  BY <1>2 DEF Acknowledge, ReviewerEvent, Complete, Deadline
<1>3. CASE ApplyEvent
  BY <1>3 DEF ApplyEvent, Current
<1>4. ASSUME NEW status \in {"TIMED_OUT", "CLOSED"}, Close(status)
      PROVE  /\ WakeTypeOK' /\ LateWhenTimedOut'
             /\ request \in ActiveRequest /\ request' = status
             /\ UNCHANGED <<channel, late, intake, event, wake, call, woken>>
  BY <1>4 DEF Close
<1> QED
  BY <1>1, <1>2, <1>3, <1>4 DEF Elsewhere

LEMMA ElsewhereKeeps == WakeInv /\ Elsewhere => WakeInv'
<1> SUFFICES ASSUME WakeInv, Elsewhere PROVE WakeInv'
  OBVIOUS
<1> USE ElsewhereStays DEF WakeInv
<1>1. AttemptsCounted' /\ OneCallAnAttempt'
  BY DEF AttemptsCounted, OneCallAnAttempt
<1>2. WakedOverHTTP' /\ LeaseHasNoReason'
  BY DEF WakedOverHTTP, LeaseHasNoReason
<1>3. ReasonStands'
  BY DEF ReasonStands, ReasonHolds
<1> QED
  BY <1>1, <1>2, <1>3

(***************************************************************************)
(* A reason that a worker finds is true when it stores it.                 *)
(***************************************************************************)
LEMMA StopReasonType == StopReason \in Reason
BY DEF StopReason, Reason

LEMMA FoundReasonHolds ==
  ASSUME WakeInv, wake.status # "NONE", wake'.reason = StopReason,
         wake'.reason # "NONE", UNCHANGED surroundings
  PROVE  ReasonHolds'
BY DEF WakeInv, WakedOverHTTP, LateWhenTimedOut, StopReason, ReasonHolds,
       surroundings

\* The first reason stays, and a new one comes without a lease.
LEMMA StoppedRow ==
  ASSUME WakeTypeOK, NEW reason \in Reason, wake' = Stopped(reason)
  PROVE  /\ wake' \in WakeRow
         /\ wake'.attempts = wake.attempts /\ wake'.status = wake.status
         /\ wake.reason # "NONE" => wake' = wake
         /\ wake.reason = "NONE" => wake'.reason = reason /\ wake'.token = 0
BY DEF WakeTypeOK, WakeRow, Stopped

(***************************************************************************)
(* A step that changes the receipt or moves one worker keeps the invariant *)
(* if no attempt is taken twice and the reason stands.                     *)
(***************************************************************************)
LEMMA ReceiptMoves ==
  ASSUME WakeInv, wake' \in WakeRow, wake'.attempts = wake.attempts,
         wake'.status = "NONE" <=> wake.status = "NONE",
         LeaseHasNoReason', ReasonStands',
         UNCHANGED <<woken, surroundings>>,
         \/ UNCHANGED call
         \/ \E w \in Waker : Call(w, NoCall)
         \/ \E w \in Waker : /\ call[w].pc = "check"
                             /\ Call(w, [call[w] EXCEPT !.pc = "send"])
  PROVE  WakeInv'
<1> USE DEF WakeInv, surroundings
<1>1. /\ call' \in [Waker -> CallType]
      /\ \A w \in Waker :
           \/ call'[w].pc = "idle"
           \/ call'[w] = call[w]
           \/ /\ call[w].pc = "check" /\ call'[w].pc = "send"
              /\ call'[w].claim = call[w].claim
  BY DEF WakeTypeOK, CallType, Call, NoCall
<1>2. WakeTypeOK' /\ WakedOverHTTP' /\ LateWhenTimedOut'
  BY <1>1 DEF WakeTypeOK, WakedOverHTTP, LateWhenTimedOut
<1>3. AttemptsCounted'
  BY <1>1 DEF AttemptsCounted
<1>4. OneCallAnAttempt'
  BY <1>1 DEF OneCallAnAttempt
<1> QED
  BY <1>2, <1>3, <1>4

LEMMA ClaimKeeps ==
  ASSUME WakeInv, NEW w \in Waker,
         ClaimStops(w) \/ ClaimExhausted(w) \/ Claim(w)
  PROVE  WakeInv'
<1> USE DEF WakeInv
<1>1. CASE ClaimStops(w)
  <2> USE <1>1 DEF ClaimStops, Stoppable
  <2>1. wake' = Stopped(StopReason)
    OBVIOUS
  <2>2. ReasonStands'
    BY <2>1, StoppedRow, StopReasonType, FoundReasonHolds
       DEF ReasonStands, ReasonHolds, surroundings
  <2>3. LeaseHasNoReason'
    BY <2>1, StoppedRow, StopReasonType DEF LeaseHasNoReason
  <2> QED
    BY <2>1, <2>2, <2>3, StoppedRow, StopReasonType, ReceiptMoves
<1>2. CASE ClaimExhausted(w)
  <2> USE <1>2 DEF ClaimExhausted, Wakeable, UsedUp
  <2>1. "WAKE_ATTEMPTS_EXHAUSTED" \in Reason
    BY DEF Reason
  <2>2. ReasonStands' /\ LeaseHasNoReason'
    BY <2>1, StoppedRow DEF ReasonStands, ReasonHolds, LeaseHasNoReason
  <2> QED
    BY <2>1, <2>2, StoppedRow, ReceiptMoves
<1>3. CASE Claim(w)
  <2> USE <1>3 DEF Claim, Wakeable, UsedUp, surroundings
  <2>1. /\ wake.attempts \in Nat /\ wake.attempts < MaxWakes /\ MaxWakes \in Nat
        /\ channel = "REVIEWER_HTTP"
    BY WakeAssumption DEF WakeTypeOK, WakeRow, StopReason
  <2>2. /\ wake' \in WakeRow
        /\ wake'.attempts = wake.attempts + 1 /\ wake'.reason = "NONE"
    <3>1. wake \in WakeRow /\ "LEASED" \in WakeStatus
      BY DEF WakeTypeOK, WakeStatus
    <3>2. wake.attempts + 1 \in Nat
      BY <2>1
    <3> HIDE DEF Wakeable
    <3>3. wake.reason = "NONE"
      BY DEF Wakeable
    <3> QED
      BY <3>1, <3>2, <3>3 DEF WakeRow
  <2>3. /\ call' \in [Waker -> CallType]
        /\ call'[w].pc = "check" /\ call'[w].claim = wake.attempts + 1
        /\ \A v \in Waker \ {w} : call'[v] = call[v]
    BY <2>1 DEF WakeTypeOK, CallType, Call
  <2>4. WakeTypeOK' /\ WakedOverHTTP' /\ LateWhenTimedOut' /\ LeaseHasNoReason'
    BY <2>1, <2>2, <2>3 DEF WakeTypeOK, WakedOverHTTP, LateWhenTimedOut, LeaseHasNoReason
  <2>5. AttemptsCounted'
    <3>1. woken' \subseteq 1..wake'.attempts
      BY <2>1, <2>2 DEF AttemptsCounted
    <3>2. \A v \in Waker : call'[v].pc # "idle" => call'[v].claim \in 1..wake'.attempts
      BY <2>1, <2>2, <2>3 DEF AttemptsCounted
    <3> QED
      BY <2>1, <2>2, <3>1, <3>2 DEF AttemptsCounted
  <2>6. OneCallAnAttempt'
    <3>1. wake.attempts + 1 \notin woken
      BY <2>1 DEF AttemptsCounted
    <3>2. \A v \in Waker : call[v].pc # "idle" => call[v].claim # wake.attempts + 1
      BY <2>1 DEF AttemptsCounted
    <3> QED
      BY <2>3, <3>1, <3>2 DEF OneCallAnAttempt
  <2> QED
    BY <2>2, <2>4, <2>5, <2>6 DEF ReasonStands
<1> QED
  BY <1>1, <1>2, <1>3

LEMMA CheckKeeps ==
  ASSUME WakeInv, NEW w \in Waker, SecondLook(w)
  PROVE  WakeInv'
<1> USE DEF WakeInv
<1>1. call[w].pc = "check" /\ UNCHANGED <<woken, surroundings>>
  BY DEF SecondLook
<1>2. CASE UNCHANGED wake /\ Call(w, NoCall)
  BY <1>1, <1>2, ReceiptMoves
     DEF LeaseHasNoReason, ReasonStands, ReasonHolds, surroundings, WakeTypeOK
<1>3. CASE /\ HoldsLease(w)
           /\ wake' = Stopped(StopReason) /\ Call(w, NoCall)
  <2>1. ReasonStands'
    BY <1>1, <1>3, StoppedRow, StopReasonType, FoundReasonHolds
       DEF HoldsLease, ReasonStands, ReasonHolds, surroundings
  <2>2. LeaseHasNoReason'
    BY <1>3, StoppedRow, StopReasonType DEF LeaseHasNoReason
  <2> QED
    BY <1>1, <1>3, <2>1, <2>2, StoppedRow, StopReasonType, ReceiptMoves
<1>4. CASE /\ HoldsLease(w) /\ Call(w, NoCall)
           /\ wake' = [wake EXCEPT !.status = "UNKNOWN", !.token = 0, !.due = FALSE]
  <2>1. wake' \in WakeRow /\ wake'.attempts = wake.attempts /\ wake'.reason = wake.reason
        /\ wake'.token = 0 /\ wake'.status = "UNKNOWN" /\ wake.status = "LEASED"
    BY <1>4 DEF WakeTypeOK, WakeRow, WakeStatus, HoldsLease
  <2>2. ReasonStands' /\ LeaseHasNoReason'
    BY <1>1, <2>1 DEF ReasonStands, LeaseHasNoReason, ReasonHolds, surroundings
  <2> QED
    BY <1>1, <1>4, <2>1, <2>2, ReceiptMoves
<1>5. CASE Call(w, [call[w] EXCEPT !.pc = "send"]) /\ UNCHANGED wake
  BY <1>1, <1>5, ReceiptMoves
     DEF LeaseHasNoReason, ReasonStands, ReasonHolds, surroundings, WakeTypeOK
<1> QED
  BY <1>2, <1>3, <1>4, <1>5 DEF SecondLook

LEMMA SendKeeps ==
  ASSUME WakeInv, NEW w \in Waker, Send(w)
  PROVE  WakeInv'
<1> USE DEF WakeInv, Send, surroundings
<1>1. /\ call' \in [Waker -> CallType]
      /\ call'[w].pc = "settle" /\ call'[w].claim = call[w].claim
      /\ \A v \in Waker \ {w} : call'[v] = call[v]
  BY DEF WakeTypeOK, CallType, Call
<1>2. call[w].claim \in 1..wake.attempts /\ wake.attempts \in Nat
  BY DEF AttemptsCounted, WakeTypeOK, WakeRow
<1>3. WakeTypeOK'
  BY <1>1, <1>2 DEF WakeTypeOK
<1>4. AttemptsCounted'
  BY <1>1, <1>2 DEF AttemptsCounted
<1>5. OneCallAnAttempt'
  BY <1>1 DEF OneCallAnAttempt
<1>6. WakedOverHTTP' /\ LateWhenTimedOut' /\ LeaseHasNoReason' /\ ReasonStands'
  BY DEF WakedOverHTTP, LateWhenTimedOut, LeaseHasNoReason, ReasonStands, ReasonHolds
<1> QED
  BY <1>3, <1>4, <1>5, <1>6

LEMMA SettleKeeps ==
  ASSUME WakeInv, NEW w \in Waker, Settle(w)
  PROVE  WakeInv'
<1> USE DEF WakeInv
<1>1. call[w].pc = "settle" /\ Call(w, NoCall) /\ UNCHANGED <<woken, surroundings>>
  BY DEF Settle
<1>2. CASE HoldsLease(w)
  <2>1. SettledReason(w) \in Reason
    BY StopReasonType DEF SettledReason, Reason
  <2>2. /\ wake' \in WakeRow /\ wake'.attempts = wake.attempts /\ wake'.token = 0
        /\ wake'.reason = SettledReason(w)
        /\ wake'.status # "NONE" /\ wake.status = "LEASED"
    BY <1>2, <2>1 DEF Settle, HoldsLease, WakeTypeOK, WakeRow,
                      WakeStatus, Receipt, CallType
  <2>3. LeaseHasNoReason'
    BY <2>2 DEF LeaseHasNoReason
  <2>4. woken # {}
    BY <1>1 DEF OneCallAnAttempt
  <2>5. ReasonStands'
    <3>1. CASE StopReason # "NONE"
      BY <1>1, <2>2, <3>1, FoundReasonHolds DEF SettledReason, ReasonStands
    <3>2. CASE StopReason = "NONE"
      BY <1>1, <2>2, <2>4, <3>2
         DEF SettledReason, ReasonStands, ReasonHolds, UsedUp
    <3> QED
      BY <3>1, <3>2
  <2> QED
    BY <1>1, <2>2, <2>3, <2>5, ReceiptMoves
<1>3. CASE ~HoldsLease(w)
  <2>1. UNCHANGED wake
    BY <1>3 DEF Settle
  <2> QED
    BY <1>1, <2>1, ReceiptMoves
       DEF LeaseHasNoReason, ReasonStands, ReasonHolds, surroundings, WakeTypeOK
<1> QED
  BY <1>2, <1>3

LEMMA CrashOrDueKeeps ==
  ASSUME WakeInv, (\E w \in Waker : Crash(w)) \/ Due
  PROVE  WakeInv'
<1> USE DEF WakeInv
<1>1. ASSUME NEW w \in Waker, Crash(w) PROVE WakeInv'
  BY <1>1, ReceiptMoves
     DEF Crash, LeaseHasNoReason, ReasonStands, ReasonHolds,
         surroundings, WakeTypeOK
<1>2. CASE Due
  <2>1. /\ wake' \in WakeRow /\ wake'.attempts = wake.attempts
        /\ wake'.reason = wake.reason /\ wake'.token = wake.token /\ wake'.status = wake.status
    BY <1>2 DEF Due, WakeTypeOK, WakeRow
  <2> QED
    BY <1>2, <2>1, ReceiptMoves
       DEF Due, LeaseHasNoReason, ReasonStands, ReasonHolds, surroundings
<1> QED
  BY <1>1, <1>2

LEMMA WakeNextInv ==
  ASSUME WakeInv, [WakeNext]_wakeVars
  PROVE  WakeInv'
<1>1. CASE Elsewhere
  BY <1>1, ElsewhereKeeps
<1>2. ASSUME NEW w \in Waker, RunOne(w) PROVE WakeInv'
  BY <1>2, ClaimKeeps, CheckKeeps, SendKeeps, SettleKeeps DEF RunOne
<1>3. CASE (\E w \in Waker : Crash(w)) \/ Due
  BY <1>3, CrashOrDueKeeps
<1>4. CASE UNCHANGED wakeVars
  BY <1>4 DEF wakeVars, WakeInv, WakeTypeOK, AttemptsCounted, OneCallAnAttempt,
              WakedOverHTTP, LateWhenTimedOut, LeaseHasNoReason, ReasonStands,
              ReasonHolds
<1> QED
  BY <1>1, <1>2, <1>3, <1>4 DEF WakeNext, Elsewhere

LEMMA WakeHolds == WakeSpec => []WakeInv
<1>1. WakeInit => WakeInv
  BY WakeInitInv
<1>2. WakeInv /\ [WakeNext]_wakeVars => WakeInv'
  BY WakeNextInv
<1> QED
  BY <1>1, <1>2, PTL DEF WakeSpec

(***************************************************************************)
(* For every limit and any number of processes, each of which may crash    *)
(* anywhere: the webhook is called for no more than MaxWakes attempts.     *)
(***************************************************************************)
THEOREM WakesAreLimited == WakeSpec => []WakesWithinLimit
<1>1. WakeInv => WakesWithinLimit
  BY WakeAssumption DEF WakeInv, AttemptsCounted, WakesWithinLimit, WakeTypeOK, WakeRow
<1> QED
  BY <1>1, WakeHolds, PTL

(***************************************************************************)
(* And once for each: a worker never calls for an attempt that was called  *)
(* for before, by it or by another, so the calls are as few as the         *)
(* attempts.                                                               *)
(***************************************************************************)
THEOREM AttemptCallsOnce ==
  WakeSpec => [][\A w \in Waker : Send(w) => call[w].claim \notin woken]_wakeVars
<1>1. WakeInv => \A w \in Waker : Send(w) => call[w].claim \notin woken
  BY DEF WakeInv, OneCallAnAttempt, Send
<1> QED
  BY <1>1, WakeHolds, PTL DEF WakeSpec

\* A step after the answer: no worker gets to a claim or past its last check.
LEMMA AnsweredStep ==
  ASSUME WakeInv, [WakeNext]_wakeVars,
         intake = "ACKED" \/ event = "APPLIED" \/ request \notin ActiveRequest
  PROVE  /\ wake'.attempts = wake.attempts
         /\ \A w \in Waker : call'[w].pc = "send" => call[w].pc = "send"
<1> USE DEF WakeInv
<1>0. StopReason # "NONE"
  BY DEF StopReason, ActiveRequest
<1>1. CASE Elsewhere
  BY <1>1, ElsewhereStays
<1>2. ASSUME NEW v \in Waker, RunOne(v)
      PROVE  /\ wake'.attempts = wake.attempts
             /\ \A w \in Waker : call'[w].pc = "send" => call[w].pc = "send"
  <2>1. CASE ClaimStops(v) \/ ClaimExhausted(v)
    <3>1. \E reason \in Reason : wake' = Stopped(reason)
      BY <2>1, StopReasonType DEF ClaimStops, ClaimExhausted, Reason
    <3> QED
      BY <2>1, <3>1, StoppedRow DEF ClaimStops, ClaimExhausted
  <2>2. ~Claim(v)
    BY <1>0 DEF Claim, Wakeable
  <2>3. CASE SecondLook(v)
    <3>1. wake'.attempts = wake.attempts
      BY <2>3, StoppedRow, StopReasonType DEF SecondLook, WakeTypeOK, WakeRow
    <3>2. Call(v, NoCall)
      BY <1>0, <2>3 DEF SecondLook
    <3> QED
      BY <3>1, <3>2 DEF Call, NoCall, WakeTypeOK
  <2>4. CASE Send(v)
    BY <2>4 DEF Send, Call, WakeTypeOK, CallType
  <2>5. CASE Settle(v)
    BY <2>5 DEF Settle, Call, NoCall, WakeTypeOK, WakeRow
  <2> QED
    BY <1>2, <2>1, <2>2, <2>3, <2>4, <2>5 DEF RunOne
<1>3. ASSUME NEW v \in Waker, Crash(v)
      PROVE  /\ wake'.attempts = wake.attempts
             /\ \A w \in Waker : call'[w].pc = "send" => call[w].pc = "send"
  BY <1>3 DEF Crash, Call, NoCall, WakeTypeOK
<1>4. CASE Due
  BY <1>4 DEF Due, WakeTypeOK, WakeRow
<1>5. CASE UNCHANGED wakeVars
  BY <1>5 DEF wakeVars
<1> QED
  BY <1>1, <1>2, <1>3, <1>4, <1>5 DEF WakeNext, Elsewhere

(***************************************************************************)
(* For any processes: once the request was read, an event of it applied or *)
(* the request ended, no attempt is taken and no call begins.              *)
(***************************************************************************)
THEOREM AnsweredIsLeftAlone == WakeSpec => AnsweredIsNotWoken
BY AnsweredStep, WakeHolds, PTL DEF WakeSpec, AnsweredIsNotWoken

(***************************************************************************)
(* For any processes, answers and order of events: a reason that is stored *)
(* is true, and neither a worker nor a later stop writes over it.          *)
(***************************************************************************)
THEOREM ReasonsAreTrue == WakeSpec => [](wake.reason # "NONE" => ReasonHolds)
<1>1. WakeInv => (wake.reason # "NONE" => ReasonHolds)
  BY DEF WakeInv, ReasonStands
<1> QED
  BY <1>1, WakeHolds, PTL

LEMMA ReasonStep ==
  ASSUME WakeInv, [WakeNext]_wakeVars, wake.reason # "NONE"
  PROVE  wake'.reason = wake.reason
<1> USE DEF WakeInv
<1>0. \A w \in Waker : call[w].pc # "idle" => ~HoldsLease(w)
  BY DEF LeaseHasNoReason, AttemptsCounted, HoldsLease, WakeTypeOK, WakeRow
<1>1. CASE Elsewhere
  BY <1>1, ElsewhereStays
<1>2. ASSUME NEW w \in Waker, RunOne(w) \/ Crash(w)
      PROVE  wake'.reason = wake.reason
  <2>1. CASE ClaimStops(w)
    BY <2>1, StoppedRow, StopReasonType DEF ClaimStops
  <2>2. CASE ClaimExhausted(w) \/ Claim(w)
    BY <2>2 DEF ClaimExhausted, Claim, Wakeable
  <2>3. CASE SecondLook(w) \/ Settle(w)
    BY <1>0, <2>3 DEF SecondLook, Settle
  <2> QED
    BY <1>2, <2>1, <2>2, <2>3 DEF RunOne, Send, Crash
<1>3. CASE Due
  BY <1>3 DEF Due, WakeTypeOK, WakeRow
<1>4. CASE UNCHANGED wakeVars
  BY <1>4 DEF wakeVars
<1> QED
  BY <1>1, <1>2, <1>3, <1>4 DEF WakeNext, Elsewhere

(***************************************************************************)
(* The first reason is the last.                                           *)
(***************************************************************************)
THEOREM FirstReasonStays ==
  WakeSpec => [][wake.reason # "NONE" => wake'.reason = wake.reason]_wakeVars
BY ReasonStep, WakeHolds, PTL DEF WakeSpec

(***************************************************************************)
(* All of WakingEnds but its progress: if every receipt comes to a reason  *)
(* at all, it comes to a true one that is true ever after.                 *)
(***************************************************************************)
THEOREM AnyReasonEndsWaking ==
  WakeSpec /\ (wake.status # "NONE" ~> wake.reason # "NONE") => WakingEnds
<1>1. WakeInv => (wake.reason # "NONE" => ReasonHolds)
  BY DEF WakeInv, ReasonStands
<1>2. WakeInv /\ [WakeNext]_wakeVars /\ wake.reason # "NONE" => (wake.reason # "NONE")'
  BY ReasonStep
<1> QED
  BY <1>1, <1>2, WakeHolds, PTL DEF WakeSpec, WakingEnds

-----------------------------------------------------------------------------
(***************************************************************************)
(* The request that is waked for lives as RequestLife says.                *)
(***************************************************************************)
LifeStatus == IF request = "CLOSED" THEN "STOPPED" ELSE request

Life == INSTANCE RequestLife WITH
  Request <- {1}, status <- [r \in {1} |-> LifeStatus],
  late <- request \in ActiveRequest /\ late

\* Every step is one of that life, or leaves the request alone.
LEMMA LifeStep == ASSUME WakeInv, [WakeNext]_wakeVars PROVE [Life!Next]_(Life!vars)
<1> USE DEF WakeInv, WakeTypeOK, RequestStatus, ActiveRequest, LifeStatus, Life!Open, Life!Active,
            Life!Becomes
<1>0. UNCHANGED <<request, late>> => UNCHANGED Life!vars
  BY DEF Life!vars
<1>1. ASSUME request = "PENDING", ~late, request' = "IN_PROGRESS", ~late' PROVE Life!Start(1)
  BY <1>1 DEF Life!Start
<1>2. ASSUME request \in ActiveRequest, ~late, request' = "COMPLETED" PROVE Life!Complete(1)
  BY <1>2 DEF Life!Complete
<1>3. ASSUME request \in ActiveRequest, late, request' = "TIMED_OUT" PROVE Life!TimeOut(1)
  BY <1>3 DEF Life!TimeOut
<1>4. ASSUME request \in ActiveRequest, request' = "CLOSED" PROVE Life!Stop(1)
  BY <1>4 DEF Life!Stop
<1>5. CASE Deadline
  <2>1. request \in ActiveRequest => Life!Deadline
    BY <1>5 DEF Deadline, Life!Deadline
  <2>2. request \notin ActiveRequest => UNCHANGED Life!vars
    BY <1>5 DEF Deadline, Life!vars
  <2> QED
    BY <2>1, <2>2 DEF Life!Next
<1>6. CASE ApplyEvent
  BY <1>0, <1>1, <1>2, <1>3, <1>6 DEF ApplyEvent, Current, Life!Next
<1>7. CASE Complete
  BY <1>2, <1>7 DEF Complete, Life!Next
<1>8. ASSUME NEW status \in {"TIMED_OUT", "CLOSED"}, Close(status) PROVE Life!Next
  BY <1>3, <1>4, <1>8 DEF Close, Life!Next
<1>9. CASE \/ Publish \/ Sent \/ Discover \/ Expire \/ Acknowledge \/ ReviewerEvent \/ Due
           \/ \E w \in Waker : RunOne(w) \/ Crash(w)
  BY <1>0, <1>9 DEF Publish, Sent, Discover, Expire, Acknowledge, ReviewerEvent, Due, RunOne,
       ClaimStops, ClaimExhausted, Claim, SecondLook, Send, Settle, Crash, surroundings
<1> QED
  BY <1>0, <1>5, <1>6, <1>7, <1>8, <1>9 DEF WakeNext, wakeVars

(***************************************************************************)
(* For any processes: what the Reviewer, the inbox and the clock do to the *)
(* request here is what they may do to a request at all.                   *)
(***************************************************************************)
THEOREM WakedRequestLives == WakeSpec => Life!Spec
<1>1. WakeInit => Life!Init
  BY DEF WakeInit, Life!Init, LifeStatus
<1> QED
  BY <1>1, LifeStep, WakeHolds, PTL DEF WakeSpec, Life!Spec
=============================================================================
