--------------------------- MODULE SupervisorHost ---------------------------
(***************************************************************************)
(* The thread that drives the workers of the Hub process: the Supervisor's *)
(* loop (application/workers.py), the service that owns its thread         *)
(* (infrastructure/supervisor_service.py), the main thread that starts and *)
(* stops it (scripts/grokbuddy_composite.py), and the /ready probe that    *)
(* asks whether it is at work (interfaces/composite.py).                   *)
(*   loop     the supervisor thread: where it is, in which worker's call,  *)
(*            who failed in this cycle, and for how long it is there       *)
(*   service  what _lock protects: a cycle was recorded, how long ago, its *)
(*            errors, the fatal error code                                 *)
(*   stop     the _stop event                                              *)
(*   main     the main thread, and how long it has been joining            *)
(*   probes   calls of /ready, each in a thread of the server's pool       *)
(* Time is counted in seconds, and it only passes while a worker is being  *)
(* called or the loop waits: the steps of the threads themselves take      *)
(* none.  A clock stops one above its largest use.                         *)
(***************************************************************************)
EXTENDS Integers, Sequences

CONSTANTS Workers,    \* the workers of a cycle, in their order
          Prober,
          Interval    \* interval_seconds

Worker == {Workers[n] : n \in DOMAIN Workers}

ASSUME HostConstants ==
  /\ Workers \in Seq(Worker) /\ Workers # <<>>
  /\ Interval \in Nat \ {0}

VARIABLES loop, service, stop, main, probes

vars == <<loop, service, stop, main, probes>>

MaxAge == 3 * Interval

JoinTimeout == Interval + 2

Clock == 0..MaxAge + 1

Later(t) == IF t > MaxAge THEN t ELSE t + 1

Idle == [pc |-> "idle", database |-> FALSE, healthy |-> FALSE, stuck |-> 0]

\* "stuck" is how long the loop had been in one call when the probe read (history).
TypeOK ==
  /\ loop \in [pc : {"none", "check", "call", "record", "wait", "failing", "closing", "ended"},
               at : DOMAIN Workers, failed : SUBSET Worker, time : Clock]
  /\ service \in [cycled : BOOLEAN, age : Clock, errors : SUBSET Worker,
                  fatal : {"none", "failure", "timeout"}]
  /\ stop \in BOOLEAN
  /\ main \in [pc : {"starting", "serving", "joining", "overdue", "returned", "gone"},
               time : 0..JoinTimeout]
  /\ probes \in [Prober -> [pc : {"idle", "asked", "read", "ready", "not_ready"},
                            database : BOOLEAN, healthy : BOOLEAN, stuck : Clock]]

Init ==
  /\ loop = [pc |-> "none", at |-> 1, failed |-> {}, time |-> 0]
  /\ service = [cycled |-> FALSE, age |-> 0, errors |-> {}, fatal |-> "none"]
  /\ stop = FALSE
  /\ main = [pc |-> "starting", time |-> 0]
  /\ probes = [p \in Prober |-> Idle]

Alive == loop.pc \notin {"none", "ended"}

-----------------------------------------------------------------------------
\* run_forever: the next cycle, or the end of the thread.
Check ==
  /\ loop.pc = "check"
  /\ loop' = IF stop THEN [loop EXCEPT !.pc = "ended"]
             ELSE [loop EXCEPT !.pc = "call", !.at = 1, !.failed = {}, !.time = 0]
  /\ UNCHANGED <<service, stop, main, probes>>

\* Mutant: the cycle is over with the first worker that fails.
AfterOrGiveUp(failed) ==
  IF failed = {} /\ loop.at < Len(Workers)
  THEN [loop EXCEPT !.at = @ + 1, !.time = 0]
  ELSE [loop EXCEPT !.pc = "record", !.failed = failed, !.time = 0]

\* What comes after the call of a worker.
After(failed) ==
  IF loop.at < Len(Workers)
  THEN [loop EXCEPT !.at = @ + 1, !.failed = failed, !.time = 0]
  ELSE [loop EXCEPT !.pc = "record", !.failed = failed, !.time = 0]

\* tick: the worker returns, raises an Exception, or something worse.
Return ==
  /\ loop.pc = "call"
  /\ \/ loop' = After(loop.failed)
     \/ loop' = After(loop.failed \cup {Workers[loop.at]})
     \/ loop' = [loop EXCEPT !.pc = "failing"]
  /\ UNCHANGED <<service, stop, main, probes>>

\* _on_cycle
Record ==
  /\ loop.pc = "record"
  /\ service' = [service EXCEPT !.cycled = TRUE, !.age = 0, !.errors = loop.failed]
  /\ loop' = [loop EXCEPT !.pc = "wait", !.time = 0]
  /\ UNCHANGED <<stop, main, probes>>

\* stop.wait(interval_seconds)
Wake ==
  /\ loop.pc = "wait"
  /\ stop \/ loop.time >= Interval
  /\ loop' = [loop EXCEPT !.pc = "check"]
  /\ UNCHANGED <<service, stop, main, probes>>

\* _run: the failure is noted, and the thread ends a little later.
Fail ==
  \/ /\ loop.pc = "failing"
     /\ service' = [service EXCEPT !.fatal = "failure"]
     /\ loop' = [loop EXCEPT !.pc = "closing"]
     /\ UNCHANGED <<stop, main, probes>>
  \/ /\ loop.pc = "closing"
     /\ loop' = [loop EXCEPT !.pc = "ended"]
     /\ UNCHANGED <<service, stop, main, probes>>

Supervise == Check \/ Record \/ Wake \/ Fail

-----------------------------------------------------------------------------
Start ==
  /\ main.pc = "starting"
  /\ main' = [main EXCEPT !.pc = "serving"]
  /\ loop' = [loop EXCEPT !.pc = "check"]
  /\ UNCHANGED <<service, stop, probes>>

\* uvicorn.run returns.
Shutdown ==
  /\ main.pc = "serving"
  /\ main' = [main EXCEPT !.pc = "joining"]
  /\ stop' = TRUE
  /\ UNCHANGED <<loop, service, probes>>

\* join(timeout), and what is_alive says after it.
Join ==
  /\ \/ /\ main.pc = "joining"
        /\ ~Alive \/ main.time >= JoinTimeout
        /\ main' = [main EXCEPT !.pc = IF Alive THEN "overdue" ELSE "returned"]
        /\ UNCHANGED service
     \/ /\ main.pc = "overdue"
        /\ main' = [main EXCEPT !.pc = "returned"]
        /\ service' = IF Alive THEN [service EXCEPT !.fatal = "timeout"] ELSE service
  /\ UNCHANGED <<loop, stop, probes>>

\* The thread is no daemon: the process ends when it does.
Exit ==
  /\ main.pc = "returned" /\ ~Alive
  /\ main' = [main EXCEPT !.pc = "gone"]
  /\ UNCHANGED <<loop, service, stop, probes>>

-----------------------------------------------------------------------------
\* GET /ready: the database is asked first.
Ask(p) ==
  /\ probes[p].pc \notin {"asked", "read"} /\ main.pc = "serving"
  /\ \E database \in BOOLEAN :
       probes' = [probes EXCEPT ![p] =
         [pc |-> "asked", database |-> database, healthy |-> FALSE, stuck |-> 0]]
  /\ UNCHANGED <<loop, service, stop, main>>

\* Mutant: a cycle without errors counts however long ago it was.
HealthyOnce == service.cycled /\ service.errors = {} /\ service.fatal = "none"

\* is_ready, what it reads under the lock
Healthy ==
  /\ service.cycled /\ service.age <= MaxAge
  /\ service.errors = {}
  /\ service.fatal = "none"

Read(p) ==
  /\ probes[p].pc = "asked"
  /\ probes' = [probes EXCEPT ![p] =
       [@ EXCEPT !.pc = "read", !.healthy = Healthy,
                 !.stuck = IF loop.pc = "call" THEN loop.time ELSE 0]]
  /\ UNCHANGED <<loop, service, stop, main>>

\* The thread is looked at after the lock is released.
Answer(p) ==
  /\ probes[p].pc = "read"
  /\ probes' = [probes EXCEPT ![p].pc =
       IF probes[p].database /\ probes[p].healthy /\ Alive THEN "ready" ELSE "not_ready"]
  /\ UNCHANGED <<loop, service, stop, main>>

\* Time does not pass while a thread has a step to make.
Pass ==
  /\ \/ loop.pc \in {"call", "ended"}
     \/ loop.pc = "wait" /\ ~stop /\ loop.time < Interval
  /\ \/ main.pc = "serving"
     \/ main.pc = "joining" /\ Alive /\ main.time < JoinTimeout
     \/ main.pc = "returned" /\ Alive
  /\ loop' = [loop EXCEPT !.time = Later(@)]
  /\ service' = [service EXCEPT !.age = Later(@)]
  /\ main' = IF main.pc = "joining" THEN [main EXCEPT !.time = @ + 1] ELSE main
  /\ UNCHANGED <<stop, probes>>

Next ==
  \/ Return \/ Supervise
  \/ Start \/ Shutdown \/ Join \/ Exit
  \/ \E p \in Prober : Ask(p) \/ Read(p) \/ Answer(p)
  \/ Pass

Spec == Init /\ [][Next]_vars

(***************************************************************************)
(* The threads run, time goes on, and every call of a worker comes back:   *)
(* the transports give up after their time-outs.  Nobody has to stop the   *)
(* process or ask whether it is ready.                                     *)
(***************************************************************************)
Fairness ==
  /\ WF_vars(Return) /\ WF_vars(Supervise) /\ WF_vars(Pass)
  /\ WF_vars(Start) /\ WF_vars(Join) /\ WF_vars(Exit)

FairSpec == Spec /\ Fairness

-----------------------------------------------------------------------------
(***************************************************************************)
(* /ready never vouches for a Supervisor that hangs: when it says so, no   *)
(* worker had been holding the loop for more than three intervals.         *)
(***************************************************************************)
HungIsNotReady == \A p \in Prober : probes[p].pc = "ready" => probes[p].stuck <= MaxAge

(***************************************************************************)
(* A worker that fails, even on every call, keeps no other from its turn:  *)
(* each is called again and again until the process is told to stop or the *)
(* thread is lost.  And a process that is told to stop does: the thread    *)
(* notices the event wherever it is, and the join neither waits for ever   *)
(* nor misses its end.                                                     *)
(***************************************************************************)
AtWorkUntilStopped ==
  /\ \/ <>(stop \/ loop.pc = "failing")
     \/ \A n \in DOMAIN Workers : []<>(loop.pc = "call" /\ loop.at = n)
  /\ stop ~> main.pc = "gone"
=============================================================================
