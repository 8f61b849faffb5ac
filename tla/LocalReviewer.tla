---------------------------- MODULE LocalReviewer ----------------------------
(***************************************************************************)
(* Requests that a Reviewer of this Hub evaluates, down to the inbox: the  *)
(* Dispatcher enqueues a job and marks the request SENT; an intake worker  *)
(* claims it with a lease of its own, asks whether the job is done, takes  *)
(* the job with another lease, evaluates it, records its event together    *)
(* with the end of the job, and settles its claim, each in a transaction.  *)
(* Leases run out under a slow worker, workers crash, the Human aborts.    *)
(*                                                                         *)
(* lease_generation and attempts of a receipt are counted together; the    *)
(* count stands for the lease token too.  That a lease runs out is an      *)
(* event of its own.  A job's scenario shows in what its evaluation posts. *)
(***************************************************************************)
EXTENDS ReviewInbox

CONSTANTS Worker,       \* threads and processes that run ReviewerIntakeWorker
          MaxAttempts,  \* settings.delivery_max_attempts
          MaxClaims     \* bound on the claims of an intake whose lease runs out

\* Receipts are kept by source, so that the key of a local evaluation is its own.
ASSUME LocalAssumption ==
  MaxAttempts \in Nat /\ MaxClaims \in Nat /\ PostKey \cap Request = {}

VARIABLES jobs,    \* mock_jobs, and whether the outbox row of the request is SENT
          intake,  \* intake_receipts
          worker   \* the calls of ReviewerIntakeWorker.run_one

localVars == <<jobs, intake, worker>>
allVars == <<vars, localVars>>

-----------------------------------------------------------------------------
\* "due": the lease, or the pause after an UNKNOWN, is over.
JobType == [status : {"NONE", "READY", "LEASED", "DONE", "CANCELLED"}, lease : Nat,
            due : BOOLEAN, sent : BOOLEAN]

IntakeType == [status : {"NONE", "LEASED", "UNKNOWN", "ACKED", "FAILED"}, attempts : Nat,
               due : BOOLEAN]

WorkerType == [pc : {"idle", "reconcile", "take", "evaluate", "settle"}, request : Nat,
               attempt : Nat, lease : Nat, outcome : {"none", "ACKED", "UNKNOWN", "FAILED"}]

Resting == [pc |-> "idle", request |-> 0, attempt |-> 0, lease |-> 0, outcome |-> "none"]

LocalTypeOK ==
  /\ TypeOK
  /\ jobs \in [Request -> JobType]
  /\ intake \in [Request -> IntakeType]
  /\ worker \in [Worker -> WorkerType]
  /\ \A w \in Worker : worker[w].pc # "idle" => worker[w].request \in Request

LocalInit ==
  /\ Init
  /\ jobs = [r \in Request |-> [status |-> "NONE", lease |-> 0, due |-> FALSE, sent |-> FALSE]]
  /\ intake = [r \in Request |-> [status |-> "NONE", attempts |-> 0, due |-> FALSE]]
  /\ worker = [w \in Worker |-> Resting]

-----------------------------------------------------------------------------
(***************************************************************************)
(* The Dispatcher's call of submit_review_request, which may come when the *)
(* request has already ended, and its own settlement, which may not.       *)
(***************************************************************************)
Enqueue ==
  /\ \E r \in Request :
       /\ requests[r].channel = "LOCAL_ADAPTER" /\ jobs[r].status = "NONE"
       /\ jobs' = [jobs EXCEPT ![r].status = "READY"]
  /\ UNCHANGED <<vars, intake, worker>>

Sent ==
  /\ \E r \in Request :
       /\ jobs[r].status # "NONE" /\ ~jobs[r].sent
       /\ requests[r].status \in ActiveRequest
       /\ jobs' = [jobs EXCEPT ![r].sent = TRUE]
  /\ UNCHANGED <<vars, intake, worker>>

CancelledJobs ==
  [r \in Request |-> IF jobs[r].status \in {"READY", "LEASED"}
                     THEN [jobs[r] EXCEPT !.status = "CANCELLED"] ELSE jobs[r]]

\* _stop_task_automation
AbortAll ==
  /\ Abort
  /\ jobs' = CancelledJobs
  /\ UNCHANGED <<intake, worker>>

-----------------------------------------------------------------------------
(***************************************************************************)
(* ReviewerIntakeWorker._claim: the rows of requests that are no longer    *)
(* current are failed on the way to the one that can be claimed.           *)
(***************************************************************************)
Claimable(r) ==
  /\ jobs[r].sent /\ Current(r)
  /\ \/ intake[r].status = "NONE"
     \/ intake[r].status \in {"LEASED", "UNKNOWN"} /\ intake[r].due

Lapsed(r) ==
  jobs[r].sent /\ ~Current(r) /\ intake[r].status \in {"LEASED", "UNKNOWN"}

\* Only the last request of the Task can be current, so what lapsed comes before it.
Swept(r) == IF Lapsed(r) THEN [intake[r] EXCEPT !.status = "FAILED", !.due = FALSE]
                         ELSE intake[r]

Claim(w) ==
  /\ worker[w].pc = "idle"
  /\ \/ \E r \in Request :
          /\ Claimable(r)
          /\ intake' = [q \in Request |->
                          IF q = r THEN [status |-> "LEASED", attempts |-> intake[r].attempts + 1,
                                         due |-> FALSE]
                                   ELSE Swept(q)]
          /\ worker' = [worker EXCEPT ![w] = [Resting EXCEPT !.pc = "reconcile", !.request = r,
                                                             !.attempt = intake[r].attempts + 1]]
     \/ /\ \A r \in Request : ~Claimable(r)
        /\ \E r \in Request : Lapsed(r)
        /\ intake' = [q \in Request |-> Swept(q)]
        /\ UNCHANGED worker
  /\ UNCHANGED <<vars, jobs>>

RequestOf(w) == worker[w].request

Concludes(w, outcome) ==
  worker' = [worker EXCEPT ![w].pc = "settle", ![w].outcome = outcome]

\* completed: is the job done already?
Reconcile(w) ==
  /\ worker[w].pc = "reconcile"
  /\ IF jobs[RequestOf(w)].status = "DONE"
     THEN Concludes(w, "ACKED")
     ELSE worker' = [worker EXCEPT ![w].pc = "take"]
  /\ UNCHANGED <<vars, jobs, intake>>

\* Mutant: only False leaves a claim in doubt, None does not.
NoneIsAnAnswer == "ACKED"

\* What becomes of a claim whose job somebody else holds.
WithoutJob == "UNKNOWN"

Available(job) ==
  \/ job.status = "READY"
  \/ job.status = "LEASED" /\ job.due

\* take
TakeJob(w) ==
  /\ worker[w].pc = "take"
  /\ LET job == jobs[RequestOf(w)] IN
       IF Available(job)
       THEN /\ jobs' = [jobs EXCEPT ![RequestOf(w)] =
                          [job EXCEPT !.status = "LEASED", !.lease = @ + 1, !.due = FALSE]]
            /\ worker' = [worker EXCEPT ![w].pc = "evaluate", ![w].lease = job.lease + 1]
       ELSE Concludes(w, WithoutJob) /\ UNCHANGED jobs
  /\ UNCHANGED <<vars, intake>>

Holds(w) == jobs[RequestOf(w)].status = "LEASED" /\ jobs[RequestOf(w)].lease = worker[w].lease

\* complete: the event and the end of the job are one transaction.
Evaluate(w) ==
  /\ worker[w].pc = "evaluate"
  /\ LET r == RequestOf(w) IN
       IF Holds(w)
       THEN /\ \/ Persist(r, "ReviewFailed", r, NoResult)
               \/ \E answer \in Answer :
                    Persist(r, "ReviewCompleted", r,
                            [answer |-> answer, version |-> requests[r].version])
               \/ UNCHANGED <<inbox, received>>  \* scenario TIMEOUT
            /\ jobs' = [jobs EXCEPT ![r].status = "DONE", ![r].due = FALSE]
            /\ Concludes(w, "ACKED")
       ELSE Concludes(w, "FAILED") /\ UNCHANGED <<inbox, received, jobs>>
  /\ UNCHANGED <<task, routing, requests, seen, proc, faults, intake>>

StillClaims(w) ==
  /\ intake[RequestOf(w)].status = "LEASED"
  /\ intake[RequestOf(w)].attempts = worker[w].attempt

Outcome(w) ==
  IF task.phase # "open" THEN "FAILED"
  ELSE IF worker[w].outcome = "UNKNOWN" /\ intake[RequestOf(w)].attempts >= MaxAttempts
       THEN "FAILED"
       ELSE worker[w].outcome

SettleClaim(w) ==
  /\ worker[w].pc = "settle"
  /\ IF StillClaims(w)
     THEN intake' = [intake EXCEPT ![RequestOf(w)].status = Outcome(w),
                                   ![RequestOf(w)].due = FALSE]
     ELSE UNCHANGED intake
  /\ worker' = [worker EXCEPT ![w] = Resting]
  /\ UNCHANGED <<vars, jobs>>

\* The worker dies; what it holds runs out.
WorkerCrash(w) ==
  /\ worker[w].pc # "idle" /\ faults < MaxFaults
  /\ worker' = [worker EXCEPT ![w] = Resting]
  /\ faults' = faults + 1
  /\ UNCHANGED <<task, routing, requests, seen, inbox, received, proc, jobs, intake>>

TimePasses ==
  /\ \/ \E r \in Request :
          /\ intake[r].status \in {"LEASED", "UNKNOWN"} /\ ~intake[r].due
          /\ intake[r].attempts < MaxClaims
          /\ intake' = [intake EXCEPT ![r].due = TRUE]
          /\ UNCHANGED jobs
     \/ \E r \in Request :
          /\ jobs[r].status = "LEASED" /\ ~jobs[r].due
          /\ jobs' = [jobs EXCEPT ![r].due = TRUE]
          /\ UNCHANGED intake
  /\ UNCHANGED <<vars, worker>>

-----------------------------------------------------------------------------
Work(w) == Claim(w) \/ Reconcile(w) \/ TakeJob(w) \/ Evaluate(w) \/ SettleClaim(w)

Here ==
  \/ Elsewhere \/ Read
  \/ \E k \in PostKey : Post(k)
  \/ \E h \in Handler : Handle(h) \/ Crash(h)

LocalNext ==
  \/ Here /\ UNCHANGED localVars
  \/ AbortAll \/ Enqueue \/ Sent \/ TimePasses
  \/ \E w \in Worker : Work(w) \/ WorkerCrash(w)

LocalSpec ==
  /\ LocalInit /\ [][LocalNext]_allVars
  /\ \A h \in Handler : WF_vars(Handle(h))
  /\ \A w \in Worker : WF_allVars(Work(w))

-----------------------------------------------------------------------------
(***************************************************************************)
(* A job speaks once: an event under its key is in the inbox only if the   *)
(* job is DONE, and an intake is ACKED only if the work behind it was      *)
(* done, however many workers held the claim and the job in turn.          *)
(***************************************************************************)
AckedWasEvaluated ==
  \A r \in Request :
    /\ inbox[r].status # "NONE" => jobs[r].status = "DONE"
    /\ intake[r].status = "ACKED" => jobs[r].status = "DONE"
=============================================================================
