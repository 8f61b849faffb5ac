------------------------- MODULE ReviewInbox_proofs -------------------------
(***************************************************************************)
(* What the inbox promises, for any number of workers, requests and events *)
(* in any order.  A step does two things that hardly touch: it moves the   *)
(* Task on with its requests (Forward), and it changes the rows of the     *)
(* inbox.  The theorems hold of ReviewInbox and, as a local evaluation     *)
(* only adds another way to record an event, of LocalReviewer too.  The    *)
(* requests live, in both, as RequestLife says.                            *)
(***************************************************************************)
EXTENDS LocalReviewer, TLAPS, WellFoundedInduction

-----------------------------------------------------------------------------
(***************************************************************************)
(* The inductive invariant.                                                *)
(***************************************************************************)
(***************************************************************************)
(* The request rows and the Task agree, a result is there exactly with     *)
(* COMPLETED, and a request that Grok answers on a pull request was made   *)
(* when its comments were routed.                                          *)
(***************************************************************************)
Ended == {"COMPLETED", "ENDED"}

RequestsAgree ==
  /\ task.active \in Request \cup {0} /\ task.asked \in 0..MaxRequests
  /\ \A r \in Request :
       /\ requests[r].status \in ActiveRequest <=> task.active = r
       /\ r > task.asked => requests[r].status = "NONE"
       /\ requests[r].status = "COMPLETED" <=> requests[r].result # NoResult
       /\ requests[r].channel = "GITHUB_COMMENT" => routing = "routed"
       /\ requests[r].status \in ActiveRequest => requests[r].channel # "none"

(***************************************************************************)
(* No result names a version of the future, and the version moved when the *)
(* request it is about ended: what comes after that is older than the Task.*)
(***************************************************************************)
OfItsTime(r, version) ==
  /\ version <= task.version
  /\ requests[r].status \in Ended => version < task.version

Versions ==
  /\ \A r \in Request : OfItsTime(r, seen[r]) /\ OfItsTime(r, requests[r].version)
  /\ \A k \in Key : inbox[k].type = "ReviewCompleted" =>
                      OfItsTime(inbox[k].request, inbox[k].result.version)

\* The one row that was applied, and those that say the same.
Applied(k) == inbox[k].type = "ReviewCompleted" /\ inbox[k].status = "APPLIED"

AppliedOnce ==
  /\ \A k \in Key : Applied(k) => requests[inbox[k].request].status = "COMPLETED"
  /\ \A r \in Request : requests[r].status = "COMPLETED" =>
                          \E k \in Key : Applied(k) /\ inbox[k].request = r
  /\ \A j, k \in Key : Applied(j) /\ Applied(k) /\ inbox[j].request = inbox[k].request => j = k
  /\ \A k \in Key :
       /\ inbox[k].type = "ReviewCompleted" /\ inbox[k].status \in {"APPLIED", "DUPLICATE"}
       => /\ requests[inbox[k].request].status = "COMPLETED"
          /\ inbox[k].result = requests[inbox[k].request].result

\* There is cause to refuse the row under k.
Cause(k) ==
  /\ inbox[k].type = "ReviewCompleted"
  /\ inbox[k].result.answer \in Acceptable => inbox[k].result.version < task.version

Refusals ==
  /\ \A h \in Handler : proc[h].pc = "reject" => Cause(proc[h].key)
  /\ \A k \in Key : inbox[k].status = "REJECTED" => Cause(k)

\* Every row has a place in the order of receipt; a key without one has no event.
Places ==
  \A k \in Key : /\ Recorded(k) => inbox[k].at \in 1..received /\ inbox[k].type # "none"
                 /\ ~Recorded(k) => inbox[k] = NoRow

IInv == /\ TypeOK /\ Places /\ RequestsAgree /\ Versions /\ AppliedOnce /\ Refusals

\* What a local evaluation has said, it has said with its job done.
JobsSpeakOnce ==
  /\ \A w \in Worker : worker[w].pc = "settle" =>
       /\ worker[w].outcome # "none"
       /\ worker[w].outcome = "ACKED" => jobs[worker[w].request].status = "DONE"
  /\ AckedWasEvaluated

-----------------------------------------------------------------------------
(***************************************************************************)
(* Recording an event.                                                     *)
(***************************************************************************)
\* Rows are numbered, so there is a first of those that say the same.
LEMMA Least ==
  ASSUME NEW S \in SUBSET Nat, S # {}
  PROVE  \E n \in S : \A m \in S : n <= m
<1> DEFINE R == {p \in Nat \X Nat : p[1] < p[2]}
<1>1. IsWellFoundedOn(R, Nat)
  BY NatLessThanWellFounded DEF OpToRel
<1>2. \A m, n \in Nat : <<m, n>> \in R <=> m < n
  OBVIOUS
<1> HIDE DEF R
<1>3. PICK n \in S : \A m \in S : ~(<<m, n>> \in R)
  BY <1>1, WFMin
<1>4. \A m \in S : ~(m < n)
  BY <1>2, <1>3
<1> QED
  BY <1>4

LEMMA OriginalIsARow ==
  ASSUME TypeOK, Places, NEW type, NEW r, NEW result, type # "none"
  PROVE  Original(type, r, result) \in Nat
<1>1. CASE ~\E k \in Key : SameEvent(k, type, r, result)
  BY <1>1 DEF Original
<1>2. CASE \E k \in Key : SameEvent(k, type, r, result)
  <2> DEFINE T == {inbox[k].at : k \in {j \in Key : SameEvent(j, type, r, result)}}
             First(n) == /\ \E k \in Key : inbox[k].at = n /\ SameEvent(k, type, r, result)
                         /\ \A k \in Key : SameEvent(k, type, r, result) => n <= inbox[k].at
  <2>1. \A k \in Key : SameEvent(k, type, r, result) => inbox[k].at \in 1..received
    BY DEF Places, SameEvent, NoRow
  <2>2. received \in Nat /\ T \in SUBSET Nat /\ T # {}
    BY <1>2, <2>1 DEF TypeOK
  <2>3. \E n \in T : \A m \in T : n <= m
    <3> HIDE DEF T
    <3> QED BY <2>2, Least
  <2>4. \E n \in 1..received : First(n)
    BY <2>1, <2>3
  <2>5. (CHOOSE n \in 1..received : First(n)) \in 1..received
    <3> HIDE DEF First
    <3> QED BY <2>4
  <2> QED
    BY <1>2, <2>5 DEF Original
<1> QED
  BY <1>1, <1>2

-----------------------------------------------------------------------------
(***************************************************************************)
(* The Task and its requests go forward: the row of a COMPLETED request is *)
(* final, and the Task version moves when a request ends.                  *)
(***************************************************************************)
Forward ==
  /\ task' \in TaskType /\ requests' \in [Request -> RequestType]
  /\ RequestsAgree'
  /\ task.version <= task'.version
  /\ \A r \in Request :
       /\ requests[r].status = "COMPLETED" => requests'[r] = requests[r]
       /\ requests'[r].status \in Ended /\ requests[r].status \notin Ended
            => task.version < task'.version
       /\ OfItsTime(r, requests[r].version)'

NoReview ==
  \A r \in Request : requests'[r].status = "COMPLETED" => requests[r].status = "COMPLETED"

\* What was of its time stays so.
LEMMA Ages ==
  ASSUME TypeOK, Forward, NEW r \in Request, NEW v \in Nat, OfItsTime(r, v)
  PROVE  OfItsTime(r, v)'
BY DEF Forward, OfItsTime, TypeOK, TaskType, RequestType, Ended, ActiveRequest

LEMMA Stands ==
  ASSUME IInv, UNCHANGED taskVars, UNCHANGED routing
  PROVE  Forward /\ NoReview
BY DEF IInv, TypeOK, Forward, NoReview, taskVars, RequestsAgree, Versions, OfItsTime, TaskType

\* The fields of a Task, apart and together.
LEMMA TaskFields ==
  ASSUME NEW row \in TaskType
  PROVE  /\ row.version \in Nat /\ row.active \in Nat /\ row.asked \in Nat
         /\ row.phase \in {"open", "gate", "over"} /\ row.overdue \in BOOLEAN
         /\ row = [version |-> row.version, phase |-> row.phase, active |-> row.active,
                   asked |-> row.asked, overdue |-> row.overdue]
BY DEF TaskType

LEMMA TaskRow ==
  ASSUME NEW v \in Nat, NEW phase \in {"open", "gate", "over"}, NEW a \in Nat, NEW n \in Nat,
         NEW overdue \in BOOLEAN
  PROVE  [version |-> v, phase |-> phase, active |-> a, asked |-> n, overdue |-> overdue]
           \in TaskType
BY DEF TaskType

LEMMA StopsForward ==
  ASSUME IInv, NEW phase \in {"gate", "over"}, Stops(phase), UNCHANGED routing
  PROVE  Forward /\ NoReview
<1>1. task \in TaskType /\ requests \in [Request -> RequestType]
  BY DEF IInv, TypeOK
<1>2. RequestsAgree /\ Versions
  BY DEF IInv
<1>3. /\ task' = [version |-> task.version + 1, phase |-> phase, active |-> 0,
                  asked |-> task.asked, overdue |-> FALSE]
      /\ task' \in TaskType
  <2>1. task' = [version |-> task.version + 1, phase |-> phase, active |-> 0,
                 asked |-> task.asked, overdue |-> FALSE]
    BY <1>1 DEF Stops, TaskType
  <2>2. [version |-> task.version + 1, phase |-> phase, active |-> 0,
         asked |-> task.asked, overdue |-> FALSE] \in TaskType
    <3>1. task.version + 1 \in Nat /\ task.asked \in Nat
      BY <1>1 DEF TaskType
    <3>2. FALSE \in BOOLEAN /\ 0 \in Nat /\ phase \in {"open", "gate", "over"}
      OBVIOUS
    <3> QED BY ONLY <3>1, <3>2, TaskRow
  <2> QED BY <2>1, <2>2
<1>4. \A r \in Request :
        requests'[r] = IF r = task.active THEN [requests[r] EXCEPT !.status = "ENDED"]
                                          ELSE requests[r]
  BY <1>1 DEF Stops, Request
<1>5. requests' \in [Request -> RequestType]
  <2>1. \A r \in Request : [requests[r] EXCEPT !.status = "ENDED"] \in RequestType
    BY <1>1 DEF RequestType
  <2> QED
    BY <1>1, <2>1 DEF Stops
<1>6. \A r \in Request : /\ requests'[r].version = requests[r].version
                         /\ requests'[r].channel = requests[r].channel
                         /\ requests'[r].result = requests[r].result
                         /\ requests'[r].status = (IF r = task.active THEN "ENDED"
                                                   ELSE requests[r].status)
  BY <1>1, <1>4 DEF RequestType
<1>7. \A r \in Request : requests[r].status \in ActiveRequest => r = task.active
  BY <1>2 DEF RequestsAgree
<1>8. RequestsAgree'
  <2>1. 0 \notin Request
    BY DEF Request
  <2> QED
    BY <1>2, <1>3, <1>6, <2>1 DEF RequestsAgree, ActiveRequest
<1>9. \A r \in Request : OfItsTime(r, requests[r].version)'
  BY <1>1, <1>2, <1>3, <1>6 DEF Versions, OfItsTime, TaskType, RequestType, Ended
<1>10. \A r \in Request : requests[r].status = "COMPLETED" => requests'[r] = requests[r]
  BY <1>4, <1>7, <1>2 DEF RequestsAgree, ActiveRequest
<1> QED
  BY <1>1, <1>3, <1>5, <1>6, <1>8, <1>9, <1>10 DEF Forward, NoReview, TaskType

LEMMA AskForward ==
  ASSUME IInv, Ask
  PROVE  Forward /\ NoReview
<1>1. task \in TaskType /\ requests \in [Request -> RequestType]
  BY DEF IInv, TypeOK
<1>2. RequestsAgree /\ Versions
  BY DEF IInv
<1> DEFINE q == task.asked + 1
<1>3. PICK channel \in Channels :
        requests' = [requests EXCEPT ![q] =
                       [status |-> "PENDING", channel |-> channel,
                        version |-> task.version + 1, result |-> NoResult]]
  BY DEF Ask
<1>4. /\ channel \in {"LOCAL_ADAPTER", "REVIEWER_HTTP", "GITHUB_COMMENT"}
      /\ channel = "GITHUB_COMMENT" => routing = "routed"
  BY DEF Channels
<1>5. q \in Request /\ q > task.asked /\ q \in Nat
  BY <1>1, InboxAssumption DEF Ask, Request, TaskType
<1>6. requests[q].status = "NONE"
  BY <1>2, <1>5 DEF RequestsAgree
<1> HIDE DEF q
<1>7. /\ task' = [version |-> task.version + 1, phase |-> task.phase, active |-> q,
                  asked |-> q, overdue |-> task.overdue]
      /\ task' \in TaskType
  <2>1. task' = [version |-> task.version + 1, phase |-> task.phase, active |-> q,
                 asked |-> q, overdue |-> task.overdue]
    BY <1>1, <1>5 DEF Ask, TaskType, q
  <2>2. /\ task.version + 1 \in Nat /\ task.phase \in {"open", "gate", "over"}
        /\ task.overdue \in BOOLEAN
    BY <1>1, TaskFields
  <2> QED
    BY ONLY <1>5, <2>1, <2>2, TaskRow
<1>8. /\ requests'[q] = [status |-> "PENDING", channel |-> channel,
                         version |-> task.version + 1, result |-> NoResult]
      /\ \A r \in Request : r # q => requests'[r] = requests[r]
  BY <1>1, <1>3, <1>5
<1>9. requests' \in [Request -> RequestType]
  <2>1. task.version + 1 \in Nat
    BY <1>1 DEF TaskType
  <2>2. NoResult \in ResultType
    BY DEF NoResult, ResultType
  <2>3. [status |-> "PENDING", channel |-> channel, version |-> task.version + 1,
         result |-> NoResult] \in RequestType
    BY <1>4, <2>1, <2>2 DEF RequestType, ActiveRequest
  <2> QED
    BY <1>1, <1>3, <2>3
<1>10. RequestsAgree'
  <2>1. routing' = routing /\ q \in 0..MaxRequests
    BY <1>1, InboxAssumption DEF Ask, TaskType, q
  <2>2. task.active = 0 /\ 0 \notin Request
    BY DEF Ask, Request
  <2>3. \A r \in Request : r > q => r > task.asked
    BY <1>1 DEF TaskType, Request, q
  <2> QED
    BY <1>2, <1>4, <1>5, <1>7, <1>8, <2>1, <2>2, <2>3 DEF RequestsAgree, ActiveRequest
<1>11. \A r \in Request : OfItsTime(r, requests[r].version)'
  BY <1>1, <1>2, <1>7, <1>8 DEF Versions, OfItsTime, TaskType, RequestType, Ended
<1> QED
  BY <1>1, <1>6, <1>7, <1>8, <1>9, <1>10, <1>11 DEF Forward, NoReview, TaskType, Ended

LEMMA ElsewhereForward ==
  ASSUME IInv, Expire \/ Sweep \/ Halt \/ Abort \/ Resume \/ Touch \/ Route
  PROVE  Forward /\ NoReview
<1>1. task \in TaskType /\ requests \in [Request -> RequestType]
  BY DEF IInv, TypeOK
<1>2. RequestsAgree /\ Versions
  BY DEF IInv
<1>3. CASE Sweep \/ Halt \/ Abort
  BY <1>3, StopsForward DEF Sweep, Halt, Abort
<1>4. CASE Expire \/ Resume \/ Touch
  <2>1. /\ task.version \in Nat /\ task.active \in Nat /\ task.asked \in Nat
        /\ task.phase \in {"open", "gate", "over"} /\ task.overdue \in BOOLEAN
    BY <1>1, TaskFields
  <2>2. /\ task' \in TaskType /\ task'.active = task.active /\ task'.asked = task.asked
        /\ task.version <= task'.version
    <3>1. CASE Expire
      <4>1. task' = [version |-> task.version, phase |-> task.phase, active |-> task.active,
                     asked |-> task.asked, overdue |-> TRUE]
        BY <1>1, <3>1 DEF Expire, TaskType
      <4>2. task' \in TaskType
        <5>1. TRUE \in BOOLEAN
          OBVIOUS
        <5> QED
          BY ONLY <2>1, <4>1, <5>1, TaskRow
      <4> QED
        BY <2>1, <4>1, <4>2
    <3>2. CASE Resume
      <4>1. task' = [version |-> task.version + 1, phase |-> "open", active |-> task.active,
                     asked |-> task.asked, overdue |-> task.overdue]
        BY <1>1, <3>2 DEF Resume, TaskType
      <4>2. "open" \in {"open", "gate", "over"} /\ task.version + 1 \in Nat
        BY <2>1
      <4> QED
        BY ONLY <2>1, <4>1, <4>2, TaskRow
    <3>3. CASE Touch
      <4>1. task' = [version |-> task.version + 1, phase |-> task.phase,
                     active |-> task.active, asked |-> task.asked, overdue |-> task.overdue]
        BY <1>1, <3>3 DEF Touch, TaskType
      <4>2. task.version + 1 \in Nat
        BY <2>1
      <4> QED
        BY ONLY <2>1, <4>1, <4>2, TaskRow
    <3> QED
      BY <1>4, <3>1, <3>2, <3>3
  <2>3. requests' = requests /\ routing' = routing
    BY <1>4 DEF Expire, Resume, Touch
  <2> QED
    BY <1>1, <1>2, <2>1, <2>2, <2>3
       DEF Forward, NoReview, RequestsAgree, Versions, OfItsTime, TaskType, RequestType
<1>5. CASE Route
  BY <1>1, <1>2, <1>5 DEF Route, Forward, NoReview, RequestsAgree, Versions, OfItsTime, TaskType
<1> QED
  BY <1>3, <1>4, <1>5

-----------------------------------------------------------------------------
(***************************************************************************)
(* Steps that leave the inbox alone.                                       *)
(***************************************************************************)
\* What is known of a row of the inbox.
LEMMA RowFacts ==
  ASSUME IInv, NEW k \in Key
  PROVE  /\ inbox[k] \in RowType
         /\ inbox[k].type # "none" => Recorded(k) /\ inbox[k].request \in Request
         /\ inbox[k].status # "NONE" => inbox[k].request \in Request
         /\ inbox[k].result.version \in Nat
BY DEF IInv, TypeOK, Places, Recorded, NoRow, RowType, ResultType

LEMMA VersionsAge ==
  ASSUME IInv, Forward, seen' = seen,
         \A k \in Key : inbox'[k].type = inbox[k].type /\ inbox'[k].request = inbox[k].request
                          /\ inbox'[k].result = inbox[k].result
  PROVE  Versions'
<1>1. \A r \in Request : OfItsTime(r, seen[r])'
  <2>1. ASSUME NEW r \in Request PROVE OfItsTime(r, seen[r])'
    <3>1. seen[r] \in Nat /\ OfItsTime(r, seen[r]) /\ TypeOK
      BY DEF IInv, TypeOK, Versions
    <3>2. ASSUME NEW v \in Nat, OfItsTime(r, v) PROVE OfItsTime(r, v)'
      BY <3>1, <3>2, Ages
    <3> QED
      BY <3>1, <3>2 DEF OfItsTime
  <2> QED
    BY <2>1
<1>2. \A k \in Key : inbox[k].type = "ReviewCompleted" =>
                       OfItsTime(inbox[k].request, inbox[k].result.version)'
  <2>1. ASSUME NEW k \in Key, inbox[k].type = "ReviewCompleted"
        PROVE  OfItsTime(inbox[k].request, inbox[k].result.version)'
    <3>1. /\ inbox[k].request \in Request /\ inbox[k].result.version \in Nat /\ TypeOK
          /\ OfItsTime(inbox[k].request, inbox[k].result.version)
      BY <2>1, RowFacts DEF IInv, Versions
    <3>2. ASSUME NEW r \in Request, NEW v \in Nat, OfItsTime(r, v) PROVE OfItsTime(r, v)'
      BY <3>1, <3>2, Ages
    <3> QED
      BY <3>1, <3>2 DEF OfItsTime
  <2> QED
    BY <2>1
<1> QED
  BY <1>1, <1>2 DEF Versions, Forward, OfItsTime

\* There was cause to refuse, so there is.
LEMMA CauseStays ==
  ASSUME IInv, Forward, NEW k \in Key, Cause(k),
         inbox'[k].type = inbox[k].type /\ inbox'[k].result = inbox[k].result
  PROVE  Cause(k)'
BY RowFacts DEF Cause, Forward, TaskType, IInv, TypeOK

LEMMA NothingApplied ==
  ASSUME IInv, Forward, NoReview, UNCHANGED inbox
  PROVE  AppliedOnce'
<1>1. AppliedOnce /\ \A k \in Key : Applied(k)' <=> Applied(k)
  BY DEF IInv, Applied
<1>2. \A r \in Request : /\ requests'[r].status = "COMPLETED" <=> requests[r].status = "COMPLETED"
                         /\ requests[r].status = "COMPLETED" => requests'[r] = requests[r]
  BY DEF Forward, NoReview
<1>3. \A k \in Key : inbox[k].type = "ReviewCompleted" => inbox[k].request \in Request
  BY RowFacts
<1> QED
  BY <1>1, <1>2, <1>3 DEF AppliedOnce, Applied

\* A step elsewhere, of which only the Task and what is read of it tell.
LEMMA StillInbox ==
  ASSUME IInv, Forward, NoReview, UNCHANGED <<inbox, received, proc, faults>>,
         routing' \in {"none", "bound", "routed"}, seen' \in [Request -> Nat], Versions'
  PROVE  IInv'
<1>1. TypeOK'
  BY DEF IInv, TypeOK, Forward
<1>2. Places'
  BY DEF IInv, Places, Recorded
<1>3. Refusals'
  <2>1. \A k \in Key : Cause(k) => Cause(k)'
    BY CauseStays
  <2>2. \A h \in Handler : proc[h].pc = "reject" => proc[h].key \in Key
    BY DEF IInv, TypeOK
  <2> QED
    BY <2>1, <2>2 DEF IInv, Refusals, Cause
<1> QED
  BY <1>1, <1>2, <1>3, NothingApplied DEF IInv, Forward

LEMMA ElsewhereStep == ASSUME IInv, Elsewhere \/ Abort PROVE IInv'
<1>1. Forward /\ NoReview
  BY AskForward, ElsewhereForward DEF Elsewhere
<1>2. /\ UNCHANGED <<inbox, received, proc, faults, seen>>
      /\ routing' \in {"none", "bound", "routed"}
  BY DEF IInv, TypeOK, Elsewhere, Ask, Route, Expire, Sweep, Halt, Abort, Resume, Touch
<1>3. Versions'
  BY <1>1, <1>2, VersionsAge
<1> QED
  BY <1>1, <1>2, <1>3, StillInbox DEF IInv, TypeOK

LEMMA ReadStep == ASSUME IInv, Read PROVE IInv'
<1>1. Forward /\ NoReview
  BY Stands DEF Read, taskVars
<1>2. PICK r \in Request : Current(r) /\ seen' = [seen EXCEPT ![r] = task.version]
  BY DEF Read
<1>3. seen' \in [Request -> Nat]
  BY <1>2 DEF IInv, TypeOK, TaskType
<1>4. OfItsTime(r, task.version)
  BY <1>2 DEF Current, OfItsTime, ActiveRequest, Ended, IInv, TypeOK, TaskType
<1>5. Versions'
  BY <1>2, <1>4 DEF IInv, TypeOK, Versions, OfItsTime, Read
<1> QED
  BY <1>1, <1>3, <1>5, StillInbox DEF Read, IInv, TypeOK

LEMMA CallsStep ==
  ASSUME IInv, NEW h \in Handler, Take(h) \/ Crash(h)
  PROVE  IInv'
<1>1. UNCHANGED <<task, routing, requests, seen, inbox, received>>
  BY DEF Take, Crash
<1>2. /\ proc' \in [Handler -> CallType] /\ faults' \in Nat
      /\ \A g \in Handler : /\ proc'[g].pc # "idle"
                                 => proc'[g].key \in Key /\ inbox[proc'[g].key].status # "NONE"
                            /\ proc'[g].pc = "reject" => proc'[g] = proc[g]
  <2>1. CASE Take(h)
    <3>1. PICK k \in Key : Oldest(k) /\ proc' = [proc EXCEPT ![h] = [pc |-> "judge", key |-> k]]
      BY <2>1 DEF Take
    <3>2. inbox[k].status # "NONE" /\ [pc |-> "judge", key |-> k] \in CallType
      BY <3>1 DEF Oldest, CallType
    <3> QED
      BY <2>1, <3>1, <3>2 DEF Take, IInv, TypeOK
  <2>2. CASE Crash(h)
    <3>1. Idle \in CallType /\ Idle.pc = "idle"
      BY DEF Idle, CallType
    <3>2. proc' = [proc EXCEPT ![h] = Idle] /\ faults' \in Nat
      BY <2>2 DEF Crash, Leaves, IInv, TypeOK
    <3> QED
      BY <3>1, <3>2 DEF IInv, TypeOK
  <2> QED
    BY <2>1, <2>2
<1>3. TypeOK'
  BY <1>1, <1>2 DEF IInv, TypeOK
<1>4. Places' /\ RequestsAgree' /\ Versions' /\ AppliedOnce'
  BY <1>1 DEF IInv, Places, Recorded, RequestsAgree, Versions, OfItsTime, AppliedOnce, Applied
<1>5. Refusals'
  BY <1>1, <1>2 DEF IInv, Refusals, Cause
<1> QED
  BY <1>3, <1>4, <1>5 DEF IInv

-----------------------------------------------------------------------------
(***************************************************************************)
(* A new row, which is READY and says what it was given.                   *)
(***************************************************************************)
LEMMA PersistStep ==
  ASSUME IInv, NEW k \in Key, NEW type \in EventType \ {"none"}, NEW r \in Request,
         NEW result \in ResultType, type = "ReviewCompleted" => OfItsTime(r, result.version),
         Persist(k, type, r, result),
         UNCHANGED <<task, routing, requests, seen, proc, faults>>
  PROVE  IInv'
<1>1. CASE Recorded(k)
  BY <1>1 DEF Persist, IInv, TypeOK, Places, Recorded, RequestsAgree, Versions, OfItsTime,
              AppliedOnce, Applied, Refusals, Cause
<1>2. CASE ~Recorded(k)
  <2> DEFINE row == [status |-> "READY", at |-> received + 1, type |-> type, request |-> r,
                     result |-> result, original |-> Original(type, r, result)]
  <2>1. inbox' = [inbox EXCEPT ![k] = row] /\ received' = received + 1
    BY <1>2 DEF Persist
  <2>2. row \in RowType
    <3>1. Original(type, r, result) \in Nat
      BY OriginalIsARow DEF IInv
    <3>2. received + 1 \in Nat /\ r \in Nat
      BY InboxAssumption DEF IInv, TypeOK, Request
    <3> QED
      BY <3>1, <3>2 DEF RowType, Settled
  <2>3. /\ row.status = "READY" /\ row.at = received + 1 /\ row.type = type
        /\ row.request = r /\ row.result = result
    OBVIOUS
  <2> HIDE DEF row
  <2>4. inbox[k] = NoRow /\ inbox \in [Key -> RowType]
    BY <1>2 DEF IInv, TypeOK, Places
  <2>5. inbox'[k] = row /\ \A j \in Key : j # k => inbox'[j] = inbox[j]
    BY <2>1, <2>4
  <2>6. TypeOK'
    BY <2>1, <2>2, <2>3, <2>4, <2>5 DEF IInv, TypeOK
  <2>7. Places'
    <3>1. received \in Nat
      BY DEF IInv, TypeOK
    <3> QED
      BY <2>1, <2>3, <2>5, <3>1 DEF IInv, Places, Recorded
  <2>8. Versions'
    BY <2>3, <2>5 DEF IInv, Versions, OfItsTime
  <2>9. AppliedOnce'
    <3>1. /\ ~Applied(k)' /\ ~Applied(k)
          /\ \A j \in Key : j # k => (Applied(j)' <=> Applied(j))
      BY <2>3, <2>4, <2>5 DEF Applied, NoRow
    <3> QED
      BY <2>3, <2>5, <3>1 DEF IInv, AppliedOnce, Applied
  <2>10. Refusals'
    <3>1. \A h \in Handler : proc[h].pc = "reject" =>
            proc[h].key \in Key /\ inbox[proc[h].key].status # "NONE"
      BY DEF IInv, TypeOK
    <3> QED
      BY <2>3, <2>4, <2>5, <3>1 DEF IInv, Refusals, Cause, NoRow
  <2> QED
    BY <2>6, <2>7, <2>8, <2>9, <2>10 DEF IInv, RequestsAgree
<1> QED
  BY <1>1, <1>2

LEMMA PostStep == ASSUME IInv, NEW k \in PostKey, Post(k) PROVE IInv'
<1>1. PICK r \in Request :
        /\ \/ \E type \in {"ReviewStarted", "ReviewFailed"} : Persist(k, type, r, NoResult)
           \/ \E answer \in Answer :
                Persist(k, "ReviewCompleted", r, [answer |-> answer, version |-> seen[r]])
  BY DEF Post
<1>2. k \in Key /\ UNCHANGED <<task, routing, requests, seen, proc, faults>>
  BY DEF Key, Post
<1>3. ASSUME NEW type \in {"ReviewStarted", "ReviewFailed"}, Persist(k, type, r, NoResult)
      PROVE  IInv'
  <2>1. type \in EventType \ {"none"} /\ NoResult \in ResultType /\ type # "ReviewCompleted"
    BY DEF EventType, NoResult, ResultType
  <2> QED
    BY <1>2, <1>3, <2>1, PersistStep
<1>4. ASSUME NEW answer \in Answer,
             Persist(k, "ReviewCompleted", r, [answer |-> answer, version |-> seen[r]])
      PROVE  IInv'
  <2>1. /\ [answer |-> answer, version |-> seen[r]] \in ResultType
        /\ OfItsTime(r, [answer |-> answer, version |-> seen[r]].version)
        /\ "ReviewCompleted" \in EventType \ {"none"}
    BY DEF IInv, TypeOK, Versions, ResultType, EventType
  <2> QED
    BY <1>2, <1>4, <2>1, PersistStep
<1> QED
  BY <1>1, <1>3, <1>4

-----------------------------------------------------------------------------
(***************************************************************************)
(* A row is judged.                                                        *)
(***************************************************************************)
\* Everything but which rows were applied.
SettledInv == TypeOK' /\ Places' /\ RequestsAgree' /\ Versions' /\ Refusals'

LEMMA Finishing ==
  ASSUME IInv, Forward, NEW h \in Handler, proc[h].pc # "idle", NEW outcome \in Settled,
         Finishes(h, outcome), UNCHANGED <<routing, seen, received, faults>>,
         outcome = "REJECTED" => Cause(proc[h].key)
  PROVE  /\ SettledInv
         /\ inbox' = [inbox EXCEPT ![proc[h].key].status = outcome]
         /\ \A j \in Key :
              /\ inbox'[j].type = inbox[j].type /\ inbox'[j].request = inbox[j].request
              /\ inbox'[j].result = inbox[j].result
              /\ inbox'[j].status = (IF j = proc[h].key THEN outcome ELSE inbox[j].status)
<1> DEFINE k == proc[h].key
<1>1. k \in Key /\ inbox[k].status # "NONE" /\ inbox \in [Key -> RowType]
  BY DEF IInv, TypeOK
<1>2. /\ inbox' = [inbox EXCEPT ![k].status = outcome] /\ proc' = [proc EXCEPT ![h] = Idle]
  BY DEF Finishes, Leaves
<1>3. outcome # "NONE" /\ outcome \in Settled \cup {"NONE", "READY"}
  BY DEF Settled
<1> HIDE DEF k
<1>4. inbox' \in [Key -> RowType]
  <2>1. [inbox[k] EXCEPT !.status = outcome] \in RowType
    BY <1>1, <1>3 DEF RowType
  <2> QED
    BY <1>1, <1>2, <2>1
<1>5. \A j \in Key :
        /\ inbox'[j].type = inbox[j].type /\ inbox'[j].request = inbox[j].request
        /\ inbox'[j].result = inbox[j].result /\ inbox'[j].at = inbox[j].at
        /\ inbox'[j].status = (IF j = k THEN outcome ELSE inbox[j].status)
        /\ j # k => inbox'[j] = inbox[j]
  BY <1>1, <1>2 DEF RowType
<1>6. /\ proc' \in [Handler -> CallType] /\ proc'[h].pc = "idle"
      /\ \A g \in Handler : g # h => proc'[g] = proc[g]
  <2>1. Idle \in CallType /\ Idle.pc = "idle" /\ proc \in [Handler -> CallType]
    BY DEF Idle, CallType, IInv, TypeOK
  <2> QED
    BY <1>2, <2>1
<1>7. TypeOK'
  BY <1>1, <1>3, <1>4, <1>5, <1>6 DEF IInv, TypeOK, Forward
<1>8. Places'
  BY <1>1, <1>3, <1>5 DEF IInv, Places, Recorded
<1>9. Versions'
  BY <1>5, VersionsAge
<1>10. Refusals'
  <2>1. \A j \in Key : Cause(j) => Cause(j)'
    BY <1>5, CauseStays
  <2>2. \A g \in Handler : proc[g].pc = "reject" => proc[g].key \in Key
    BY DEF IInv, TypeOK
  <2>3. Refusals /\ (outcome = "REJECTED" => Cause(k))
    BY DEF IInv, k
  <2>4. \A j \in Key : inbox'[j].status = "REJECTED" => Cause(j)'
    BY <1>1, <1>5, <2>1, <2>3 DEF Refusals
  <2>5. \A g \in Handler : proc'[g].pc = "reject" => Cause(proc[g].key)' /\ proc'[g] = proc[g]
    BY <1>6, <2>1, <2>2, <2>3 DEF Refusals, Cause
  <2> QED
    BY <2>4, <2>5 DEF Refusals, Cause
<1> QED
  BY <1>1, <1>2, <1>5, <1>7, <1>8, <1>9, <1>10 DEF SettledInv, Forward, k

\* Settled without a new review: as a repetition of one there is, or unapplied.
LEMMA FinishesWithoutReview ==
  ASSUME IInv, Forward, NoReview, NEW h \in Handler, proc[h].pc # "idle",
         NEW outcome \in Settled, Finishes(h, outcome),
         UNCHANGED <<routing, seen, received, faults>>,
         outcome = "REJECTED" => Cause(proc[h].key),
         inbox[proc[h].key].status = "READY",
         outcome = "APPLIED" => inbox[proc[h].key].type # "ReviewCompleted",
         outcome = "DUPLICATE" =>
           /\ requests[inbox[proc[h].key].request].status = "COMPLETED"
           /\ inbox[proc[h].key].result = requests[inbox[proc[h].key].request].result
  PROVE  IInv'
<1> DEFINE k == proc[h].key
<1>1. /\ SettledInv
      /\ \A j \in Key :
           /\ inbox'[j].type = inbox[j].type /\ inbox'[j].request = inbox[j].request
           /\ inbox'[j].result = inbox[j].result
           /\ inbox'[j].status = (IF j = k THEN outcome ELSE inbox[j].status)
  BY Finishing
<1>2. k \in Key /\ AppliedOnce
  BY DEF IInv, TypeOK
<1> HIDE DEF k
<1>3. \A j \in Key : Applied(j)' <=> Applied(j)
  BY <1>1, <1>2 DEF Applied, k
<1>4. \A r \in Request : /\ requests'[r].status = "COMPLETED" <=> requests[r].status = "COMPLETED"
                         /\ requests[r].status = "COMPLETED" => requests'[r] = requests[r]
  BY DEF Forward, NoReview
<1>5. \A j \in Key : inbox[j].type = "ReviewCompleted" => inbox[j].request \in Request
  BY RowFacts
<1>6. \A j \in Key : Applied(j)' => requests'[inbox'[j].request].status = "COMPLETED"
  BY <1>1, <1>2, <1>3, <1>4, <1>5 DEF AppliedOnce, Applied
<1>7. \A r \in Request : requests'[r].status = "COMPLETED" =>
                           \E j \in Key : Applied(j)' /\ inbox'[j].request = r
  BY <1>1, <1>2, <1>3, <1>4 DEF AppliedOnce
<1>8. \A i, j \in Key : Applied(i)' /\ Applied(j)' /\ inbox'[i].request = inbox'[j].request
                          => i = j
  BY <1>1, <1>2, <1>3 DEF AppliedOnce
<1>9. \A j \in Key :
        /\ inbox'[j].type = "ReviewCompleted" /\ inbox'[j].status \in {"APPLIED", "DUPLICATE"}
        => /\ requests'[inbox'[j].request].status = "COMPLETED"
           /\ inbox'[j].result = requests'[inbox'[j].request].result
  <2>1. ASSUME NEW j \in Key, inbox'[j].type = "ReviewCompleted",
               inbox'[j].status \in {"APPLIED", "DUPLICATE"}
        PROVE  /\ requests[inbox[j].request].status = "COMPLETED"
               /\ inbox[j].result = requests[inbox[j].request].result
    <3>1. CASE j = k
      BY <1>1, <2>1, <3>1 DEF k
    <3>2. CASE j # k
      BY <1>1, <1>2, <2>1, <3>2 DEF AppliedOnce
    <3> QED
      BY <3>1, <3>2
  <2> QED
    BY <1>1, <1>4, <1>5, <2>1
<1> QED
  BY <1>1, <1>6, <1>7, <1>8, <1>9 DEF IInv, SettledInv, AppliedOnce

\* Told to refuse, with cause.
LEMMA RefusedStep ==
  ASSUME IInv, NEW h \in Handler, proc[h].pc = "judge", Refused(h), Cause(proc[h].key),
         UNCHANGED <<taskVars, inbox, routing, seen, received, faults>>
  PROVE  IInv'
<1>1. /\ proc' \in [Handler -> CallType]
      /\ \A g \in Handler : /\ proc'[g].key = proc[g].key
                            /\ proc'[g].pc = (IF g = h THEN "reject" ELSE proc[g].pc)
  <2>1. proc' = [proc EXCEPT ![h].pc = "reject"] /\ proc \in [Handler -> CallType]
    BY DEF Refused, IInv, TypeOK
  <2>2. [proc[h] EXCEPT !.pc = "reject"] \in CallType
    BY <2>1 DEF CallType
  <2> QED
    BY <2>1, <2>2 DEF CallType
<1>2. TypeOK'
  BY <1>1 DEF IInv, TypeOK, taskVars
<1>3. Places' /\ RequestsAgree' /\ Versions' /\ AppliedOnce'
  BY DEF IInv, Places, Recorded, RequestsAgree, Versions, OfItsTime, AppliedOnce, Applied, taskVars
<1>4. Refusals'
  BY <1>1 DEF IInv, Refusals, Cause, taskVars
<1> QED
  BY <1>2, <1>3, <1>4 DEF IInv

\* The row that is judged is about the request under review.
LEMMA UnderReview ==
  ASSUME IInv, NEW row \in RowType, row.request \in Request, ~Late(row)
  PROVE  /\ task.active = row.request /\ task.phase = "open"
         /\ requests[row.request].status \in ActiveRequest
BY DEF IInv, RequestsAgree, Late

LEMMA BeginForward ==
  ASSUME IInv, NEW r \in Request, requests[r].status = "PENDING", UNCHANGED routing,
         requests' = [requests EXCEPT ![r].status = "IN_PROGRESS"],
         task' = [task EXCEPT !.version = @ + 1]
  PROVE  Forward /\ NoReview
<1>1. task \in TaskType /\ requests \in [Request -> RequestType] /\ RequestsAgree /\ Versions
  BY DEF IInv, TypeOK
<1>2. /\ task.version \in Nat /\ task.active \in Nat /\ task.asked \in Nat
      /\ task.phase \in {"open", "gate", "over"} /\ task.overdue \in BOOLEAN
  BY <1>1, TaskFields
<1>3. task' = [version |-> task.version + 1, phase |-> task.phase, active |-> task.active,
               asked |-> task.asked, overdue |-> task.overdue]
  BY <1>1 DEF TaskType
<1>4. task' \in TaskType
  <2>1. task.version + 1 \in Nat
    BY <1>2
  <2> QED
    BY ONLY <1>2, <1>3, <2>1, TaskRow
<1>5. requests' \in [Request -> RequestType]
  <2>1. [requests[r] EXCEPT !.status = "IN_PROGRESS"] \in RequestType
    BY <1>1 DEF RequestType, ActiveRequest
  <2> QED
    BY <1>1, <2>1
<1>6. \A q \in Request :
        /\ requests'[q].version = requests[q].version
        /\ requests'[q].channel = requests[q].channel
        /\ requests'[q].result = requests[q].result
        /\ requests'[q].status = (IF q = r THEN "IN_PROGRESS" ELSE requests[q].status)
        /\ q # r => requests'[q] = requests[q]
  BY <1>1 DEF RequestType
<1>7. RequestsAgree'
  BY <1>1, <1>3, <1>6 DEF RequestsAgree, ActiveRequest
<1>8. \A q \in Request : OfItsTime(q, requests[q].version)'
  BY <1>1, <1>2, <1>3, <1>6 DEF Versions, OfItsTime, Ended, RequestType
<1> QED
  BY <1>2, <1>3, <1>4, <1>5, <1>6, <1>7, <1>8 DEF Forward, NoReview, Ended

LEMMA CompleteForward ==
  ASSUME IInv, NEW r \in Request, requests[r].status \in ActiveRequest, task.active = r,
         NEW result \in ResultType, result # NoResult, UNCHANGED routing,
         requests' = [requests EXCEPT ![r].status = "COMPLETED", ![r].result = result],
         NEW phase \in {"open", "gate", "over"},
         task' = [task EXCEPT !.version = @ + 1, !.active = 0, !.phase = phase,
                               !.overdue = FALSE]
  PROVE  /\ Forward
         /\ requests'[r].status = "COMPLETED" /\ requests'[r].result = result
         /\ \A q \in Request : q # r => requests'[q] = requests[q]
<1>1. task \in TaskType /\ requests \in [Request -> RequestType] /\ RequestsAgree /\ Versions
  BY DEF IInv, TypeOK
<1>2. /\ task.version \in Nat /\ task.active \in Nat /\ task.asked \in Nat
  BY <1>1, TaskFields
<1>3. task' = [version |-> task.version + 1, phase |-> phase, active |-> 0,
               asked |-> task.asked, overdue |-> FALSE]
  BY <1>1 DEF TaskType
<1>4. task' \in TaskType
  <2>1. task.version + 1 \in Nat /\ task.asked \in Nat /\ 0 \in Nat
    BY <1>2
  <2>2. FALSE \in BOOLEAN /\ phase \in {"open", "gate", "over"}
    OBVIOUS
  <2>3. [version |-> task.version + 1, phase |-> phase, active |-> 0,
         asked |-> task.asked, overdue |-> FALSE] \in TaskType
    BY ONLY <2>1, <2>2, TaskRow
  <2> QED
    BY <1>3, <2>3
<1>5. requests' \in [Request -> RequestType]
  <2>1. [requests[r] EXCEPT !.status = "COMPLETED", !.result = result] \in RequestType
    BY <1>1 DEF RequestType
  <2> QED
    BY <1>1, <2>1
<1>6. \A q \in Request :
        /\ requests'[q].version = requests[q].version
        /\ requests'[q].channel = requests[q].channel
        /\ requests'[q].result = (IF q = r THEN result ELSE requests[q].result)
        /\ requests'[q].status = (IF q = r THEN "COMPLETED" ELSE requests[q].status)
        /\ q # r => requests'[q] = requests[q]
  BY <1>1 DEF RequestType
<1>7. RequestsAgree'
  <2>1. 0 \notin Request
    BY DEF Request
  <2> QED
    BY <1>1, <1>3, <1>6, <2>1 DEF RequestsAgree, ActiveRequest
<1>8. \A q \in Request : OfItsTime(q, requests[q].version)'
  BY <1>1, <1>2, <1>3, <1>6 DEF Versions, OfItsTime, Ended, RequestType
<1> QED
  BY <1>2, <1>3, <1>4, <1>5, <1>6, <1>7, <1>8 DEF Forward, Ended, ActiveRequest

LEMMA CompleteStep ==
  ASSUME IInv, NEW h \in Handler, proc[h].pc = "judge",
         inbox[proc[h].key].status = "READY", Complete(h, inbox[proc[h].key]),
         UNCHANGED <<routing, seen, received, faults>>
  PROVE  IInv'
<1>0. PICK k \in Key, r \in Request : k = proc[h].key /\ r = inbox[k].request
  BY RowFacts DEF IInv, TypeOK
<1>1. /\ inbox[k] \in RowType /\ inbox[k].request = r /\ inbox[k].status = "READY"
      /\ inbox[k].type = "ReviewCompleted" /\ InTime(inbox[k])
      /\ inbox[k].result.answer \in Acceptable
  BY <1>0, RowFacts DEF Complete
<1>2. /\ requests' = [requests EXCEPT ![r].status = "COMPLETED", ![r].result = inbox[k].result]
      /\ Finishes(h, "APPLIED")
  BY <1>0 DEF Complete
<1>3. PICK phase \in {"open", "gate", "over"} :
        task' = [task EXCEPT !.version = @ + 1, !.active = 0, !.phase = phase,
                              !.overdue = FALSE]
  BY DEF Complete
<1>4. /\ task.active = r /\ requests[r].status \in ActiveRequest
  BY <1>1, UnderReview DEF InTime
<1>5. inbox[k].result \in ResultType /\ inbox[k].result # NoResult
  BY <1>1, InboxAssumption DEF RowType, NoResult
<1>6. /\ Forward
      /\ requests'[r].status = "COMPLETED" /\ requests'[r].result = inbox[k].result
      /\ \A q \in Request : q # r => requests'[q] = requests[q]
  BY <1>1, <1>2, <1>3, <1>4, <1>5, CompleteForward
<1>7. /\ SettledInv
      /\ \A j \in Key :
           /\ inbox'[j].type = inbox[j].type /\ inbox'[j].request = inbox[j].request
           /\ inbox'[j].result = inbox[j].result
           /\ inbox'[j].status = (IF j = k THEN "APPLIED" ELSE inbox[j].status)
  <2>1. "APPLIED" \in Settled /\ "APPLIED" # "REJECTED" /\ proc[h].pc # "idle"
    BY DEF Settled
  <2> QED
    BY <1>0, <1>2, <1>6, <2>1, Finishing
<1>8. AppliedOnce /\ \A j \in Key : inbox[j].type = "ReviewCompleted" => inbox[j].request \in Request
  BY RowFacts DEF IInv
<1>9. /\ Applied(k)' /\ inbox'[k].request = r
      /\ \A j \in Key : j # k => (Applied(j)' <=> Applied(j))
  <2>1. inbox'[k].type = "ReviewCompleted" /\ inbox'[k].status = "APPLIED" /\ inbox'[k].request = r
    BY <1>1, <1>7
  <2>2. \A j \in Key : j # k => (Applied(j)' <=> Applied(j))
    BY <1>7 DEF Applied
  <2> QED
    BY <2>1, <2>2 DEF Applied
<1>10. \A j \in Key : inbox[j].type = "ReviewCompleted" /\ inbox[j].status \in {"APPLIED", "DUPLICATE"}
                        => inbox[j].request # r
  BY <1>4, <1>8 DEF AppliedOnce, ActiveRequest
<1>11. AppliedOnce'
  <2>1. \A j \in Key : Applied(j)' => requests'[inbox'[j].request].status = "COMPLETED"
    BY <1>1, <1>6, <1>7, <1>8, <1>9 DEF AppliedOnce, Applied
  <2>2. \A q \in Request : requests'[q].status = "COMPLETED" =>
                             \E j \in Key : Applied(j)' /\ inbox'[j].request = q
    <3>1. ASSUME NEW q \in Request, q # r, requests'[q].status = "COMPLETED"
          PROVE  \E j \in Key : Applied(j)' /\ inbox'[j].request = q
      <4>1. PICK j \in Key : Applied(j) /\ inbox[j].request = q
        BY <1>6, <1>8, <3>1 DEF AppliedOnce
      <4>2. j # k
        BY <1>1, <3>1, <4>1
      <4> QED
        BY <1>7, <1>9, <4>1, <4>2
    <3>2. Applied(k)' /\ inbox'[k].request = r /\ k \in Key
      BY <1>1, <1>9
    <3> QED
      BY <3>1, <3>2
  <2>3. \A i, j \in Key : Applied(i)' /\ Applied(j)' /\ inbox'[i].request = inbox'[j].request
                            => i = j
    BY <1>7, <1>8, <1>9, <1>10 DEF AppliedOnce, Applied
  <2>4. \A j \in Key :
          /\ inbox'[j].type = "ReviewCompleted" /\ inbox'[j].status \in {"APPLIED", "DUPLICATE"}
          => /\ requests'[inbox'[j].request].status = "COMPLETED"
             /\ inbox'[j].result = requests'[inbox'[j].request].result
    <3>1. ASSUME NEW j \in Key, j # k, inbox[j].type = "ReviewCompleted",
                 inbox[j].status \in {"APPLIED", "DUPLICATE"}
          PROVE  /\ requests'[inbox[j].request].status = "COMPLETED"
                 /\ inbox[j].result = requests'[inbox[j].request].result
      BY <1>6, <1>8, <1>10, <3>1 DEF AppliedOnce
    <3> QED
      BY <1>6, <1>7, <1>9, <3>1
  <2> QED
    BY <2>1, <2>2, <2>3, <2>4 DEF AppliedOnce
<1> QED
  BY <1>7, <1>11 DEF IInv, SettledInv

LEMMA JudgeStep == ASSUME IInv, NEW h \in Handler, Judge(h) PROVE IInv'
<1> DEFINE k == proc[h].key
           row == inbox[k]
<1>1. /\ proc[h].pc = "judge" /\ proc[h].pc # "idle" /\ UNCHANGED <<routing, seen, received, faults>>
      /\ k \in Key /\ row.status # "NONE" /\ row \in RowType /\ row.request \in Request
  BY RowFacts DEF Judge, IInv, TypeOK
<1>2. CASE AlreadySettled(h) /\ Leaves(h) /\ UNCHANGED <<taskVars, inbox>>
  <2>1. Idle \in CallType /\ Idle.pc = "idle"
    BY DEF Idle, CallType
  <2>2. proc' = [proc EXCEPT ![h] = Idle] /\ proc \in [Handler -> CallType]
    BY <1>2 DEF Leaves, IInv, TypeOK
  <2>3. TypeOK' /\ Refusals'
    BY <1>1, <1>2, <2>1, <2>2 DEF IInv, TypeOK, Refusals, Cause, taskVars
  <2> QED
    BY <1>1, <1>2, <2>3 DEF IInv, Places, Recorded, RequestsAgree, Versions, OfItsTime,
                           AppliedOnce, Applied, taskVars
<1>3. CASE ~AlreadySettled(h)
  <2>1. row.status = "READY"
    BY <1>3 DEF AlreadySettled
  <2>2. \/ JudgeRepeated(h, row) \/ JudgeLate(h, row) \/ JudgeUnbound(h, row)
        \/ JudgeExpired(h, row) \/ Begin(h, row) \/ Fail(h, row)
        \/ Complete(h, row) \/ JudgeUnacceptable(h, row)
    BY <1>3 DEF Judge
  <2>3. /\ {"APPLIED", "DUPLICATE", "LATE_EVENT"} \subseteq Settled
    BY DEF Settled
  <2>4. /\ task.version \in Nat /\ row.result.version \in Nat
        /\ row.type = "ReviewCompleted" => OfItsTime(row.request, row.result.version)
    BY <1>1, RowFacts, TaskFields DEF IInv, TypeOK, Versions
  <2>5. CASE JudgeRepeated(h, row)
    <3>1. /\ row.type = "ReviewCompleted" /\ requests[row.request].status = "COMPLETED"
          /\ UNCHANGED taskVars
      BY <1>1, <2>5 DEF JudgeRepeated, Answered, IInv, RequestsAgree
    <3>2. Forward /\ NoReview
      BY <1>1, <3>1, Stands
    <3>3. CASE row.result = requests[row.request].result
      <4>1. Finishes(h, "DUPLICATE")
        BY <2>5, <3>3 DEF JudgeRepeated
      <4> QED
        BY <1>1, <2>1, <2>3, <3>1, <3>2, <3>3, <4>1, FinishesWithoutReview
    <3>4. CASE row.result # requests[row.request].result
      <4>1. Refused(h) /\ UNCHANGED inbox
        BY <2>5, <3>4 DEF JudgeRepeated
      <4>2. Cause(k)
        BY <2>4, <3>1 DEF OfItsTime, Cause, Ended
      <4> QED
        BY <1>1, <3>1, <4>1, <4>2, RefusedStep
    <3> QED
      BY <3>3, <3>4
  <2>6. CASE JudgeLate(h, row)
    <3>1. Finishes(h, "LATE_EVENT") /\ UNCHANGED taskVars
      BY <2>6 DEF JudgeLate
    <3>2. Forward /\ NoReview
      BY <1>1, <3>1, Stands
    <3> QED
      BY <1>1, <2>1, <2>3, <3>1, <3>2, FinishesWithoutReview
  <2>7. CASE JudgeUnbound(h, row)
    <3>1. Refused(h) /\ UNCHANGED <<taskVars, inbox>> /\ BindingError(row)
      BY <2>7 DEF JudgeUnbound
    <3>2. Cause(k)
      BY <2>4, <3>1, InboxAssumption DEF BindingError, OfItsTime, Cause
    <3> QED
      BY <1>1, <3>1, <3>2, RefusedStep
  <2>8. CASE JudgeExpired(h, row)
    <3>1. Finishes(h, "LATE_EVENT") /\ Stops("gate")
      BY <2>8 DEF JudgeExpired
    <3>2. Forward /\ NoReview
      BY <1>1, <3>1, StopsForward
    <3> QED
      BY <1>1, <2>1, <2>3, <3>1, <3>2, FinishesWithoutReview
  <2>9. CASE Begin(h, row)
    <3>1. Finishes(h, "APPLIED") /\ row.type = "ReviewStarted"
      BY <2>9 DEF Begin
    <3>2. Forward /\ NoReview
      <4>1. CASE requests[row.request].status = "PENDING"
        BY <1>1, <2>9, <4>1, BeginForward DEF Begin
      <4>2. CASE requests[row.request].status # "PENDING"
        BY <1>1, <2>9, <4>2, Stands DEF Begin
      <4> QED
        BY <4>1, <4>2
    <3> QED
      BY <1>1, <2>1, <2>3, <3>1, <3>2, FinishesWithoutReview
  <2>10. CASE Fail(h, row)
    <3>1. Finishes(h, "APPLIED") /\ Stops("gate") /\ row.type = "ReviewFailed"
      BY <2>10 DEF Fail
    <3>2. Forward /\ NoReview
      BY <1>1, <3>1, StopsForward
    <3> QED
      BY <1>1, <2>1, <2>3, <3>1, <3>2, FinishesWithoutReview
  <2>11. CASE Complete(h, row)
    BY <1>1, <2>1, <2>11, CompleteStep
  <2>12. CASE JudgeUnacceptable(h, row)
    <3>1. /\ Refused(h) /\ UNCHANGED <<taskVars, inbox>>
          /\ row.type = "ReviewCompleted" /\ row.result.answer \notin Acceptable
      BY <2>12 DEF JudgeUnacceptable
    <3> QED
      BY <1>1, <3>1, RefusedStep DEF Cause
  <2> QED
    BY <2>2, <2>5, <2>6, <2>7, <2>8, <2>9, <2>10, <2>11, <2>12
<1> QED
  BY <1>2, <1>3 DEF Judge

LEMMA RejectStep == ASSUME IInv, NEW h \in Handler, Reject(h) PROVE IInv'
<1> DEFINE k == proc[h].key
<1>1. /\ proc[h].pc = "reject" /\ proc[h].pc # "idle" /\ k \in Key /\ Cause(k)
      /\ UNCHANGED <<task, routing, requests, seen, received, faults>>
  BY DEF Reject, IInv, TypeOK, Refusals
<1>2. Forward /\ NoReview
  BY <1>1, Stands DEF taskVars
<1>3. CASE inbox[k].status = "READY"
  <2>1. Finishes(h, "REJECTED") /\ "REJECTED" \in Settled
    BY <1>3 DEF Reject, Refuses, Settled
  <2> QED
    BY <1>1, <1>2, <1>3, <2>1, FinishesWithoutReview
<1>4. CASE inbox[k].status # "READY"
  <2>1. Leaves(h) /\ UNCHANGED inbox
    BY <1>4 DEF Reject, Refuses
  <2>2. Idle \in CallType /\ Idle.pc = "idle"
    BY DEF Idle, CallType
  <2>3. proc' = [proc EXCEPT ![h] = Idle] /\ proc \in [Handler -> CallType]
    BY <2>1 DEF Leaves, IInv, TypeOK
  <2>4. TypeOK' /\ Refusals'
    BY <1>1, <2>1, <2>2, <2>3 DEF IInv, TypeOK, Refusals, Cause
  <2> QED
    BY <1>1, <2>1, <2>4 DEF IInv, Places, Recorded, RequestsAgree, Versions, OfItsTime,
                           AppliedOnce, Applied
<1> QED
  BY <1>3, <1>4

-----------------------------------------------------------------------------
(***************************************************************************)
(* The theorems about the inbox.                                           *)
(***************************************************************************)
LEMMA InboxInit == Init => IInv
<1> SUFFICES ASSUME Init PROVE IInv
  OBVIOUS
<1>1. TypeOK
  BY DEF Init, TypeOK, TaskType, RequestType, ResultType, NoResult, RowType, NoRow, EventType,
         CallType, Idle
<1>2. Places /\ AppliedOnce /\ Refusals
  BY DEF Init, Places, Recorded, NoRow, AppliedOnce, Applied, Refusals, Cause, Idle
<1>3. RequestsAgree
  <2>1. 0 \notin Request /\ 0 \in 0..MaxRequests
    BY InboxAssumption DEF Request
  <2> QED
    BY <2>1 DEF Init, RequestsAgree, ActiveRequest, NoResult
<1>4. Versions
  BY DEF Init, Versions, OfItsTime, Ended, NoRow
<1> QED
  BY <1>1, <1>2, <1>3, <1>4 DEF IInv

LEMMA HereStep == ASSUME IInv, Here PROVE IInv'
BY ElsewhereStep, ReadStep, PostStep, CallsStep, JudgeStep, RejectStep DEF Here, Handle

LEMMA InboxStutters == IInv /\ UNCHANGED vars => IInv'
BY DEF vars, IInv, TypeOK, Places, Recorded, RequestsAgree, Versions, OfItsTime,
       AppliedOnce, Applied, Refusals, Cause

LEMMA InboxStep == IInv /\ [Next]_vars => IInv'
<1>1. Next <=> Here \/ Abort
  BY DEF Next, Here
<1> QED
  BY <1>1, HereStep, ElsewhereStep, InboxStutters

LEMMA Answers == IInv => OneReviewAsAnswered
<1> SUFFICES ASSUME IInv, NEW r \in Request
             PROVE  LET Results(statuses) == {k \in Key : /\ inbox[k].type = "ReviewCompleted"
                                                          /\ inbox[k].request = r
                                                          /\ inbox[k].status \in statuses}
                    IN /\ requests[r].status = "COMPLETED" <=> requests[r].result # NoResult
                       /\ requests[r].status = "COMPLETED" <=> Results({"APPLIED"}) # {}
                       /\ \A j, k \in Results({"APPLIED"}) : j = k
                       /\ \A k \in Results({"APPLIED", "DUPLICATE"}) :
                            inbox[k].result = requests[r].result
  BY DEF OneReviewAsAnswered
<1>1. requests[r].status = "COMPLETED" <=> requests[r].result # NoResult
  BY DEF IInv, RequestsAgree
<1> QED
  BY <1>1 DEF IInv, AppliedOnce, Applied

LEMMA Opens == IInv => OpenToItsReviewer
BY DEF IInv, TypeOK, RequestType, RequestsAgree, OpenToItsReviewer, ContractMatches

LEMMA Causes == IInv => RefusedForCause
BY DEF IInv, Refusals, Cause, RefusedForCause

LEMMA InboxHolds == Spec => []IInv
BY InboxInit, InboxStep, PTL DEF Spec

(***************************************************************************)
(* A request is answered once, and by what the Reviewer posted: whatever   *)
(* comes late, twice or under other keys, and however many workers judge.  *)
(***************************************************************************)
THEOREM AnsweredOnce == Spec => []OneReviewAsAnswered
BY InboxHolds, Answers, PTL

(***************************************************************************)
(* No answer of the Reviewer is refused without cause.                     *)
(***************************************************************************)
THEOREM CauseIsGiven == Spec => []RefusedForCause
BY InboxHolds, Causes, PTL

(***************************************************************************)
(* For any binding and routing after it was made, a request that is open   *)
(* still counts as routed to its Reviewer.                                 *)
(***************************************************************************)
THEOREM StaysOpen == Spec => []OpenToItsReviewer
BY InboxHolds, Opens, PTL

-----------------------------------------------------------------------------
(***************************************************************************)
(* Local evaluation.                                                       *)
(***************************************************************************)
LocalIInv == IInv /\ LocalTypeOK /\ JobsSpeakOnce

\* A step of the inbox records no event for a request by itself.
LEMMA KeysAreItsOwn ==
  ASSUME IInv, Here \/ Abort, NEW r \in Request, inbox'[r].status # "NONE"
  PROVE  inbox[r].status # "NONE"
<1>1. inbox \in [Key -> RowType] /\ r \in Key
  BY DEF IInv, TypeOK, Key
<1>2. CASE Elsewhere \/ Abort \/ Read
  BY <1>2 DEF Elsewhere, Ask, Route, Expire, Sweep, Halt, Abort, Resume, Touch, Read
<1>3. ASSUME NEW k \in PostKey, Post(k) PROVE inbox[r].status # "NONE"
  <2>1. k # r
    BY LocalAssumption
  <2>2. inbox'[r] = inbox[r]
    BY <1>1, <1>3, <2>1 DEF Post, Persist
  <2> QED
    BY <2>2
<1>4. ASSUME NEW h \in Handler, Take(h) \/ Crash(h) PROVE inbox[r].status # "NONE"
  BY <1>4 DEF Take, Crash
<1>5. ASSUME NEW h \in Handler, Judge(h) \/ Reject(h) PROVE inbox[r].status # "NONE"
  <2>1. proc[h].key \in Key /\ inbox[proc[h].key].status # "NONE"
    BY <1>5 DEF Judge, Reject, IInv, TypeOK
  <2>2. UNCHANGED inbox \/ \E outcome \in Settled : Finishes(h, outcome)
    BY <1>5 DEF Judge, Reject, Refuses, JudgeRepeated, JudgeLate, JudgeUnbound, JudgeExpired,
                Begin, Fail, Complete, JudgeUnacceptable, Settled
  <2> QED
    BY <1>1, <2>1, <2>2 DEF Finishes
<1> QED
  BY <1>2, <1>3, <1>4, <1>5 DEF Here, Handle

LEMMA HereSpeaksOnce ==
  ASSUME LocalIInv, Here, UNCHANGED localVars
  PROVE  LocalIInv'
<1>1. IInv'
  BY HereStep DEF LocalIInv
<1>2. LocalTypeOK'
  BY <1>1 DEF LocalIInv, LocalTypeOK, IInv, localVars
<1>3. \A r \in Request : inbox'[r].status # "NONE" => inbox[r].status # "NONE"
  BY KeysAreItsOwn DEF LocalIInv
<1> QED
  BY <1>1, <1>2, <1>3 DEF LocalIInv, JobsSpeakOnce, AckedWasEvaluated, localVars

\* What the Dispatcher, the Human and time do to jobs and claims: what is done stays done.
LEMMA AroundJobs ==
  ASSUME LocalIInv, AbortAll \/ Enqueue \/ Sent \/ TimePasses
  PROVE  LocalIInv'
<1>1. jobs \in [Request -> JobType] /\ intake \in [Request -> IntakeType]
  BY DEF LocalIInv, LocalTypeOK
<1>2. IInv'
  BY ElsewhereStep, InboxStutters DEF LocalIInv, AbortAll, Enqueue, Sent, TimePasses
<1>3. worker' = worker /\ inbox' = inbox
  BY DEF AbortAll, Abort, Enqueue, Sent, TimePasses, vars
<1>4. /\ jobs' \in [Request -> JobType]
      /\ \A r \in Request : jobs[r].status = "DONE" => jobs'[r].status = "DONE"
  <2>1. CASE AbortAll
    BY <1>1, <2>1 DEF AbortAll, CancelledJobs, JobType
  <2>2. CASE Enqueue
    BY <1>1, <2>2 DEF Enqueue, JobType
  <2>3. CASE Sent
    BY <1>1, <2>3 DEF Sent, JobType
  <2>4. CASE TimePasses
    BY <1>1, <2>4 DEF TimePasses, JobType
  <2> QED
    BY <2>1, <2>2, <2>3, <2>4
<1>5. /\ intake' \in [Request -> IntakeType]
      /\ \A r \in Request : intake'[r].status = intake[r].status
  <2>1. CASE UNCHANGED intake
    BY <1>1, <2>1
  <2>2. ASSUME NEW r \in Request, intake' = [intake EXCEPT ![r].due = TRUE]
        PROVE  /\ intake' \in [Request -> IntakeType]
               /\ \A q \in Request : intake'[q].status = intake[q].status
    <3>1. [intake[r] EXCEPT !.due = TRUE] \in IntakeType
      BY <1>1 DEF IntakeType
    <3>2. [intake[r] EXCEPT !.due = TRUE].status = intake[r].status
      BY <1>1 DEF IntakeType
    <3> QED
      BY <1>1, <2>2, <3>1, <3>2
  <2> QED
    BY <2>1, <2>2 DEF AbortAll, Enqueue, Sent, TimePasses
<1>6. LocalTypeOK'
  BY <1>2, <1>3, <1>4, <1>5 DEF LocalIInv, LocalTypeOK, IInv
<1>7. JobsSpeakOnce'
  BY <1>3, <1>4, <1>5 DEF LocalIInv, LocalTypeOK, JobsSpeakOnce, AckedWasEvaluated, WorkerType
<1> QED
  BY <1>2, <1>6, <1>7 DEF LocalIInv

\* The rows of a local Reviewer as a whole, given what a step leaves DONE.
LEMMA OutOfDone ==
  ASSUME LocalIInv, IInv', NEW w \in Worker,
         jobs' \in [Request -> JobType], intake' \in [Request -> IntakeType],
         worker' \in [Worker -> WorkerType],
         worker'[w].pc # "idle" => worker'[w].request \in Request,
         \A v \in Worker : v # w => worker'[v] = worker[v],
         \A r \in Request : jobs[r].status = "DONE" => jobs'[r].status = "DONE",
         \A r \in Request : inbox'[r].status # "NONE"
                              => inbox[r].status # "NONE" \/ jobs'[r].status = "DONE",
         \A r \in Request : intake'[r].status = "ACKED"
                              => intake[r].status = "ACKED" \/ jobs'[r].status = "DONE",
         worker'[w].pc = "settle" =>
           /\ worker'[w].outcome # "none"
           /\ worker'[w].outcome = "ACKED" => jobs'[worker'[w].request].status = "DONE"
  PROVE  LocalIInv'
<1>1. LocalTypeOK'
  BY DEF LocalIInv, LocalTypeOK, IInv
<1>2. \A v \in Worker : worker'[v].pc = "settle" =>
        /\ worker'[v].outcome # "none"
        /\ worker'[v].outcome = "ACKED" => jobs'[worker'[v].request].status = "DONE"
  BY DEF LocalIInv, LocalTypeOK, JobsSpeakOnce
<1>3. AckedWasEvaluated'
  BY DEF LocalIInv, JobsSpeakOnce, AckedWasEvaluated
<1> QED
  BY <1>1, <1>2, <1>3 DEF LocalIInv, JobsSpeakOnce

LEMMA WorkStep ==
  ASSUME LocalIInv, NEW w \in Worker, Work(w) \/ WorkerCrash(w)
  PROVE  LocalIInv'
<1>1. /\ jobs \in [Request -> JobType] /\ intake \in [Request -> IntakeType]
      /\ worker \in [Worker -> WorkerType] /\ IInv
      /\ worker[w].pc # "idle" => RequestOf(w) \in Request
  BY DEF LocalIInv, LocalTypeOK, RequestOf
<1>2. Resting \in WorkerType /\ Resting.pc = "idle"
  BY DEF Resting, WorkerType
<1>3. ASSUME NEW outcome \in {"ACKED", "UNKNOWN", "FAILED"}, Concludes(w, outcome)
      PROVE  /\ worker' \in [Worker -> WorkerType]
             /\ worker'[w].pc = "settle" /\ worker'[w].outcome = outcome /\ outcome # "none"
             /\ worker'[w].request = RequestOf(w)
             /\ \A v \in Worker : v # w => worker'[v] = worker[v]
  BY <1>1, <1>3 DEF Concludes, WorkerType, RequestOf
<1>4. CASE Claim(w)
  <2>1. IInv' /\ UNCHANGED <<inbox, jobs>>
    BY <1>1, <1>4, InboxStutters DEF Claim, vars
  <2>2. \A r \in Request : /\ Swept(r) \in IntakeType
                           /\ Swept(r).status = "ACKED" => intake[r].status = "ACKED"
    BY <1>1 DEF Swept, IntakeType
  <2>3. /\ intake' \in [Request -> IntakeType]
        /\ \A r \in Request : intake'[r].status = "ACKED" => intake[r].status = "ACKED"
    <3>1. CASE intake' = [q \in Request |-> Swept(q)]
      BY <2>2, <3>1
    <3>2. ASSUME NEW r \in Request,
                 intake' = [q \in Request |->
                              IF q = r THEN [status |-> "LEASED",
                                             attempts |-> intake[r].attempts + 1,
                                             due |-> FALSE]
                                       ELSE Swept(q)]
          PROVE  /\ intake' \in [Request -> IntakeType]
                 /\ \A q \in Request : intake'[q].status = "ACKED" => intake[q].status = "ACKED"
      <4>1. [status |-> "LEASED", attempts |-> intake[r].attempts + 1, due |-> FALSE]
              \in IntakeType
        BY <1>1 DEF IntakeType
      <4> QED
        BY <2>2, <3>2, <4>1
    <3> QED
      BY <1>4, <3>1, <3>2 DEF Claim
  <2>4. /\ worker' \in [Worker -> WorkerType]
        /\ worker'[w].pc # "settle"
        /\ worker'[w].pc # "idle" => worker'[w].request \in Request
        /\ \A v \in Worker : v # w => worker'[v] = worker[v]
    <3>1. ASSUME NEW r \in Request,
                 worker' = [worker EXCEPT ![w] = [Resting EXCEPT !.pc = "reconcile", !.request = r,
                                                      !.attempt = intake[r].attempts + 1]]
          PROVE  /\ worker' \in [Worker -> WorkerType]
                 /\ worker'[w].pc = "reconcile" /\ worker'[w].request = r
                 /\ \A v \in Worker : v # w => worker'[v] = worker[v]
      <4> DEFINE n == intake[r].attempts + 1
                 call == [Resting EXCEPT !.pc = "reconcile", !.request = r, !.attempt = n]
      <4>1. n \in Nat /\ r \in Nat
        BY <1>1, InboxAssumption DEF IntakeType, Request
      <4>2. worker' = [worker EXCEPT ![w] = call]
        BY <3>1
      <4> HIDE DEF n
      <4>3. call \in WorkerType /\ call.pc = "reconcile" /\ call.request = r
        BY ONLY <1>2, <4>1 DEF WorkerType
      <4> HIDE DEF call
      <4> QED
        BY <1>1, <4>2, <4>3
    <3> QED
      BY <1>1, <1>4, <3>1 DEF Claim
  <2> QED
    BY <1>1, <2>1, <2>3, <2>4, OutOfDone
<1>5. CASE Reconcile(w)
  <2>1. IInv' /\ UNCHANGED <<inbox, jobs, intake>> /\ RequestOf(w) \in Request
    BY <1>1, <1>5, InboxStutters DEF Reconcile, vars
  <2>2. CASE jobs[RequestOf(w)].status = "DONE"
    <3>1. Concludes(w, "ACKED")
      BY <1>5, <2>2 DEF Reconcile
    <3> QED
      BY <1>1, <1>3, <2>1, <2>2, <3>1, OutOfDone
  <2>3. CASE jobs[RequestOf(w)].status # "DONE"
    <3>1. worker' = [worker EXCEPT ![w].pc = "take"]
      BY <1>5, <2>3 DEF Reconcile
    <3>2. /\ worker' \in [Worker -> WorkerType] /\ worker'[w].pc = "take"
          /\ worker'[w].request = RequestOf(w)
          /\ \A v \in Worker : v # w => worker'[v] = worker[v]
      BY <1>1, <3>1 DEF WorkerType, RequestOf
    <3> QED
      BY <1>1, <2>1, <3>2, OutOfDone
  <2> QED
    BY <2>2, <2>3
<1>6. CASE TakeJob(w)
  <2>1. IInv' /\ UNCHANGED <<inbox, intake>> /\ RequestOf(w) \in Request
    BY <1>1, <1>6, InboxStutters DEF TakeJob, vars
  <2>2. CASE Available(jobs[RequestOf(w)])
    <3> DEFINE job == jobs[RequestOf(w)]
    <3>1. /\ jobs' = [jobs EXCEPT ![RequestOf(w)] =
                        [job EXCEPT !.status = "LEASED", !.lease = @ + 1, !.due = FALSE]]
          /\ worker' = [worker EXCEPT ![w].pc = "evaluate", ![w].lease = job.lease + 1]
      BY <1>6, <2>2 DEF TakeJob
    <3>2. job \in JobType /\ job.status # "DONE" /\ job.lease + 1 \in Nat
      BY <1>1, <2>1, <2>2 DEF Available, JobType
    <3>3. [job EXCEPT !.status = "LEASED", !.lease = @ + 1, !.due = FALSE] \in JobType
      BY <3>2 DEF JobType
    <3>4. /\ jobs' \in [Request -> JobType]
          /\ \A r \in Request : jobs[r].status = "DONE" => jobs'[r].status = "DONE"
      <4> HIDE DEF job
      <4>1. job = jobs[RequestOf(w)]
        BY DEF job
      <4> QED
        BY <1>1, <2>1, <3>1, <3>2, <3>3, <4>1
    <3>5. /\ worker' \in [Worker -> WorkerType] /\ worker'[w].pc = "evaluate"
          /\ worker'[w].request = RequestOf(w)
          /\ \A v \in Worker : v # w => worker'[v] = worker[v]
      BY <1>1, <3>1, <3>2 DEF WorkerType, RequestOf
    <3> QED
      BY <1>1, <2>1, <3>4, <3>5, OutOfDone
  <2>3. CASE ~Available(jobs[RequestOf(w)])
    <3>1. Concludes(w, "UNKNOWN") /\ UNCHANGED jobs
      BY <1>6, <2>3 DEF TakeJob, WithoutJob
    <3> QED
      BY <1>1, <1>3, <2>1, <3>1, OutOfDone
  <2> QED
    BY <2>2, <2>3
<1>7. CASE Evaluate(w)
  <2>1. /\ UNCHANGED <<task, routing, requests, seen, proc, faults, intake>>
        /\ RequestOf(w) \in Request
    BY <1>1, <1>7 DEF Evaluate
  <2>2. CASE Holds(w)
    <3>1. PICK r \in Request : r = RequestOf(w) /\ r \in Key
      BY <2>1 DEF Key
    <3>2. /\ \/ Persist(r, "ReviewFailed", r, NoResult)
             \/ \E answer \in Answer :
                  Persist(r, "ReviewCompleted", r,
                          [answer |-> answer, version |-> requests[r].version])
             \/ UNCHANGED <<inbox, received>>
          /\ jobs' = [jobs EXCEPT ![r].status = "DONE", ![r].due = FALSE]
          /\ Concludes(w, "ACKED")
      BY <1>7, <2>2, <3>1 DEF Evaluate
    <3>3. ASSUME Persist(r, "ReviewFailed", r, NoResult) PROVE IInv'
      <4>1. "ReviewFailed" \in EventType \ {"none"} /\ NoResult \in ResultType
        BY DEF EventType, NoResult, ResultType
      <4> QED
        BY <1>1, <2>1, <3>1, <3>3, <4>1, PersistStep
    <3>4. ASSUME NEW answer \in Answer,
                 Persist(r, "ReviewCompleted", r,
                         [answer |-> answer, version |-> requests[r].version])
          PROVE  IInv'
      <4>1. /\ [answer |-> answer, version |-> requests[r].version] \in ResultType
            /\ OfItsTime(r, [answer |-> answer, version |-> requests[r].version].version)
            /\ "ReviewCompleted" \in EventType \ {"none"}
        BY <1>1 DEF IInv, TypeOK, RequestType, Versions, ResultType, EventType
      <4> QED
        BY <1>1, <2>1, <3>1, <3>4, <4>1, PersistStep
    <3>5. ASSUME UNCHANGED <<inbox, received>> PROVE IInv'
      BY <1>1, <2>1, <3>5, InboxStutters DEF vars
    <3>6. /\ jobs' \in [Request -> JobType] /\ jobs'[r].status = "DONE"
          /\ \A q \in Request : jobs[q].status = "DONE" => jobs'[q].status = "DONE"
      BY <1>1, <3>2 DEF JobType
    <3>7. \A q \in Request : inbox'[q].status # "NONE"
                               => inbox[q].status # "NONE" \/ jobs'[q].status = "DONE"
      <4>1. \A q \in Request : q # r => inbox'[q] = inbox[q]
        BY <1>1, <3>2 DEF Persist, IInv, TypeOK, Key
      <4> QED
        BY <3>6, <4>1
    <3>8. IInv'
      BY <3>2, <3>3, <3>4, <3>5
    <3>9. /\ worker' \in [Worker -> WorkerType]
          /\ worker'[w].request = r /\ worker'[w].outcome # "none"
          /\ \A v \in Worker : v # w => worker'[v] = worker[v]
      BY <1>3, <3>1, <3>2
    <3>10. intake' = intake
      BY <2>1
    <3> QED
      BY <1>1, <3>6, <3>7, <3>8, <3>9, <3>10, OutOfDone
  <2>3. CASE ~Holds(w)
    <3>1. Concludes(w, "FAILED") /\ UNCHANGED <<inbox, received, jobs>>
      BY <1>7, <2>3 DEF Evaluate
    <3>2. IInv'
      BY <1>1, <2>1, <3>1, InboxStutters DEF vars
    <3> QED
      BY <1>1, <1>3, <2>1, <3>1, <3>2, OutOfDone
  <2> QED
    BY <2>2, <2>3
<1>8. CASE SettleClaim(w)
  <2>1. IInv' /\ UNCHANGED <<inbox, jobs>> /\ RequestOf(w) \in Request
    BY <1>1, <1>8, InboxStutters DEF SettleClaim, vars
  <2>2. /\ worker' \in [Worker -> WorkerType] /\ worker'[w].pc = "idle"
        /\ \A v \in Worker : v # w => worker'[v] = worker[v]
    BY <1>1, <1>2, <1>8 DEF SettleClaim
  <2>3. /\ intake' \in [Request -> IntakeType]
        /\ \A r \in Request : intake'[r].status = "ACKED"
                                => intake[r].status = "ACKED" \/ jobs'[r].status = "DONE"
    <3>1. CASE StillClaims(w)
      <4>1. intake' = [intake EXCEPT ![RequestOf(w)].status = Outcome(w),
                                     ![RequestOf(w)].due = FALSE]
        BY <1>8, <3>1 DEF SettleClaim
      <4>2. worker[w].pc = "settle" /\ worker[w] \in WorkerType
        BY <1>1, <1>8 DEF SettleClaim
      <4>3. Outcome(w) = "ACKED" => jobs[RequestOf(w)].status = "DONE"
        BY <4>2 DEF Outcome, LocalIInv, JobsSpeakOnce, RequestOf
      <4>4. worker[w].outcome # "none"
        BY <4>2 DEF LocalIInv, JobsSpeakOnce
      <4>5. Outcome(w) \in {"ACKED", "UNKNOWN", "FAILED"}
        BY <4>2, <4>4 DEF Outcome, WorkerType
      <4> HIDE DEF Outcome
      <4>6. \A r \in Request : [intake[r] EXCEPT !.status = Outcome(w), !.due = FALSE]
                                \in IntakeType
        BY <1>1, <4>5 DEF IntakeType
      <4>7. /\ intake' \in [Request -> IntakeType]
            /\ \A r \in Request : intake'[r].status = (IF r = RequestOf(w) THEN Outcome(w)
                                                       ELSE intake[r].status)
        BY <1>1, <2>1, <4>1, <4>6 DEF IntakeType
      <4> QED
        BY <2>1, <4>3, <4>7
    <3>2. CASE ~StillClaims(w)
      BY <1>1, <1>8, <3>2 DEF SettleClaim
    <3> QED
      BY <3>1, <3>2
  <2> QED
    BY <1>1, <2>1, <2>2, <2>3, OutOfDone
<1>9. CASE WorkerCrash(w)
  <2>1. UNCHANGED <<task, routing, requests, seen, inbox, received, proc, jobs, intake>>
    BY <1>9 DEF WorkerCrash
  <2>2. faults' \in Nat
    BY <1>1, <1>9 DEF WorkerCrash, IInv, TypeOK
  <2>3. IInv'
    <3>1. TypeOK'
      BY <1>1, <2>1, <2>2 DEF IInv, TypeOK
    <3> QED
      BY <1>1, <2>1, <3>1 DEF IInv, Places, Recorded, RequestsAgree, Versions, OfItsTime,
                             AppliedOnce, Applied, Refusals, Cause
  <2>4. /\ worker' \in [Worker -> WorkerType] /\ worker'[w].pc = "idle"
        /\ \A v \in Worker : v # w => worker'[v] = worker[v]
    BY <1>1, <1>2, <1>9 DEF WorkerCrash
  <2> QED
    BY <1>1, <2>1, <2>3, <2>4, OutOfDone
<1> QED
  BY <1>4, <1>5, <1>6, <1>7, <1>8, <1>9 DEF Work

LEMMA LocalStarts == LocalInit => LocalIInv
<1> SUFFICES ASSUME LocalInit PROVE LocalIInv
  OBVIOUS
<1>1. IInv
  BY InboxInit DEF LocalInit
<1>2. LocalTypeOK
  BY <1>1 DEF LocalInit, LocalTypeOK, IInv, JobType, IntakeType, WorkerType, Resting
<1>3. JobsSpeakOnce
  BY DEF LocalInit, Init, JobsSpeakOnce, AckedWasEvaluated, Resting, NoRow, Key
<1> QED
  BY <1>1, <1>2, <1>3 DEF LocalIInv

LEMMA LocalStep == LocalIInv /\ [LocalNext]_allVars => LocalIInv'
<1>1. LocalIInv /\ UNCHANGED allVars => LocalIInv'
  BY InboxStutters DEF allVars, localVars, LocalIInv, LocalTypeOK, IInv, JobsSpeakOnce,
                       AckedWasEvaluated, vars
<1> QED
  BY <1>1, HereSpeaksOnce, AroundJobs, WorkStep DEF LocalNext

LEMMA LocalHolds == LocalSpec => []LocalIInv
BY LocalStarts, LocalStep, PTL DEF LocalSpec

(***************************************************************************)
(* A job speaks once, and an acknowledged request was evaluated, however   *)
(* leases of the claim and of the job run out under however many workers.  *)
(***************************************************************************)
THEOREM AckedIsEvaluated == LocalSpec => []AckedWasEvaluated
<1>1. LocalIInv => AckedWasEvaluated
  BY DEF LocalIInv, JobsSpeakOnce
<1> QED
  BY <1>1, LocalHolds, PTL

(***************************************************************************)
(* With local Reviewers before the inbox it keeps what it promised.        *)
(***************************************************************************)
THEOREM LocalAnswersToo ==
  LocalSpec => [](OneReviewAsAnswered /\ RefusedForCause /\ OpenToItsReviewer)
<1>1. LocalIInv => OneReviewAsAnswered /\ RefusedForCause /\ OpenToItsReviewer
  BY Answers, Causes, Opens DEF LocalIInv
<1> QED
  BY <1>1, LocalHolds, PTL

-----------------------------------------------------------------------------
(***************************************************************************)
(* The requests of the inbox live as RequestLife says, with and without    *)
(* local Reviewers.  Every other end than an answer is one here.           *)
(***************************************************************************)
LifeStatus ==
  [r \in Request |-> IF requests[r].status = "ENDED" THEN "STOPPED" ELSE requests[r].status]

Life == INSTANCE RequestLife WITH status <- LifeStatus, late <- task.overdue

\* Only a request that is open is overdue.
OverdueIsOpen == task.overdue => task.active # 0

LifeInv == IInv /\ OverdueIsOpen

\* The request row of r gets another status.
LEMMA LifeOfRow ==
  ASSUME TypeOK, NEW r \in Request, NEW status, requests' \in [Request -> RequestType],
         requests'[r].status = status, \A q \in Request : q # r => requests'[q] = requests[q]
  PROVE  Life!Becomes(r, IF status = "ENDED" THEN "STOPPED" ELSE status)
<1>1. \A q \in Request : LifeStatus'[q] =
        IF q = r THEN (IF status = "ENDED" THEN "STOPPED" ELSE status) ELSE LifeStatus[q]
  BY DEF LifeStatus
<1> QED
  BY <1>1 DEF Life!Becomes, LifeStatus

\* The open request is the one the Task names.
LEMMA OpenIsActive ==
  ASSUME IInv, NEW r \in Request
  PROVE  /\ Life!Open(r) <=> requests[r].status \in ActiveRequest
         /\ Life!Open(r) <=> task.active = r
<1>1. Life!Open(r) <=> requests[r].status \in ActiveRequest
  BY DEF LifeStatus, Life!Open, Life!Active, ActiveRequest
<1> QED
  BY <1>1 DEF IInv, RequestsAgree

\* What stops the Task stops its request.
LEMMA StopsLife ==
  ASSUME IInv, OverdueIsOpen, NEW phase \in {"gate", "over"}, Stops(phase), UNCHANGED routing
  PROVE  [Life!Next]_(Life!vars) /\ OverdueIsOpen'
<1>1. task \in TaskType /\ requests \in [Request -> RequestType]
  BY DEF IInv, TypeOK
<1>2. task'.overdue = FALSE
  BY <1>1 DEF Stops, TaskType
<1>3. CASE task.active = 0
  BY <1>1, <1>2, <1>3 DEF Stops, OverdueIsOpen, LifeStatus, Life!vars, TaskType
<1>4. CASE task.active # 0
  <2>1. PICK r \in Request : task.active = r
    BY <1>4 DEF IInv, RequestsAgree
  <2>2. requests' = [requests EXCEPT ![r].status = "ENDED"]
    BY <1>4, <2>1 DEF Stops
  <2>3. /\ requests' \in [Request -> RequestType] /\ requests'[r].status = "ENDED"
        /\ \A q \in Request : q # r => requests'[q] = requests[q]
    BY <1>1, <2>2, StopsForward DEF Forward, RequestType
  <2>4. Life!Becomes(r, "STOPPED")
    BY <2>3, LifeOfRow DEF IInv
  <2>5. Life!Stop(r)
    BY <1>2, <2>1, <2>4, OpenIsActive DEF Life!Stop
  <2> QED
    BY <1>2, <2>5 DEF Life!Next, OverdueIsOpen
<1> QED
  BY <1>3, <1>4

\* A new request begins its life.
LEMMA AskLife ==
  ASSUME IInv, OverdueIsOpen, Ask
  PROVE  Life!Next /\ OverdueIsOpen'
<1>1. task \in TaskType /\ requests \in [Request -> RequestType]
  BY DEF IInv, TypeOK
<1> DEFINE r == task.asked + 1
<1>2. r \in Request
  BY <1>1, InboxAssumption DEF Ask, Request, TaskType
<1>3. requests[r].status = "NONE"
  BY <1>1, <1>2 DEF IInv, RequestsAgree, TaskType
<1>4. task.active = 0 /\ ~task.overdue /\ ~task'.overdue
  BY <1>1 DEF Ask, OverdueIsOpen, TaskType
<1> HIDE DEF r
<1>5. /\ requests'[r].status = "PENDING"
      /\ \A q \in Request : q # r => requests'[q] = requests[q]
  BY <1>1, <1>2 DEF Ask, r
<1>6. Life!Becomes(r, "PENDING")
  BY <1>2, <1>5, AskForward, LifeOfRow DEF Forward, IInv
<1>7. \A q \in Request : ~Life!Open(q)
  BY <1>4, OpenIsActive DEF Request
<1>8. Life!Ask(r)
  BY <1>2, <1>3, <1>4, <1>6, <1>7, <1>1 DEF Life!Ask, LifeStatus, TaskType
<1> QED
  BY <1>2, <1>4, <1>8 DEF Life!Next, OverdueIsOpen

\* The rest of the Hub.
LEMMA ElsewhereLife ==
  ASSUME IInv, OverdueIsOpen, Elsewhere \/ Abort
  PROVE  [Life!Next]_(Life!vars) /\ OverdueIsOpen'
<1>1. task \in TaskType
  BY DEF IInv, TypeOK
<1>2. CASE Sweep \/ Halt \/ Abort
  BY <1>2, StopsLife DEF Sweep, Halt, Abort
<1>3. CASE Resume \/ Touch \/ Route
  <2>1. requests' = requests /\ task'.active = task.active /\ task'.overdue = task.overdue
    BY <1>1, <1>3 DEF Resume, Touch, Route, TaskType
  <2> QED
    BY <2>1 DEF OverdueIsOpen, LifeStatus, Life!vars
<1>4. CASE Expire
  <2>1. /\ task.active # 0 /\ task.overdue = FALSE
        /\ requests' = requests /\ task'.active = task.active /\ task'.overdue = TRUE
    BY <1>1, <1>4 DEF Expire, TaskType
  <2>2. \E r \in Request : Life!Open(r)
    BY <2>1, OpenIsActive DEF IInv, RequestsAgree
  <2>3. Life!Deadline
    BY <2>1, <2>2 DEF Life!Deadline, LifeStatus
  <2> QED
    BY <2>1, <2>3 DEF OverdueIsOpen, Life!Next
<1> QED
  BY <1>2, <1>3, <1>4, AskLife DEF Elsewhere

\* A worker that judges an event.
LEMMA JudgeLife ==
  ASSUME IInv, OverdueIsOpen, NEW h \in Handler, Judge(h)
  PROVE  [Life!Next]_(Life!vars) /\ OverdueIsOpen'
<1>1. task \in TaskType /\ requests \in [Request -> RequestType]
  BY DEF IInv, TypeOK
<1> DEFINE row == inbox[proc[h].key]
<1>2. row \in RowType /\ row.request \in Request
  BY DEF Judge, IInv, TypeOK
<1>3. UNCHANGED routing
  BY DEF Judge
<1> HIDE DEF row
<1>4. CASE UNCHANGED taskVars
  BY <1>4 DEF taskVars, OverdueIsOpen, LifeStatus, Life!vars
<1>5. CASE JudgeExpired(h, row) \/ Fail(h, row)
  BY <1>3, <1>5, StopsLife DEF JudgeExpired, Fail
<1> DEFINE r == row.request
<1>6. ASSUME InTime(row)
      PROVE  /\ task.active = r /\ task.overdue = FALSE /\ Life!Open(r)
             /\ LifeStatus[r] = requests[r].status
  BY <1>1, <1>2, <1>6, UnderReview, OpenIsActive
     DEF InTime, TaskType, LifeStatus, ActiveRequest
<1>7. CASE Begin(h, row) /\ requests[r].status = "PENDING"
  <2>1. /\ requests' = [requests EXCEPT ![r].status = "IN_PROGRESS"]
        /\ task' = [task EXCEPT !.version = @ + 1]
    BY <1>7 DEF Begin
  <2>2. /\ requests' \in [Request -> RequestType] /\ requests'[r].status = "IN_PROGRESS"
        /\ \A q \in Request : q # r => requests'[q] = requests[q]
    BY <1>1, <1>2, <1>3, <1>7, <2>1, BeginForward DEF Forward, RequestType
  <2>3. Life!Becomes(r, "IN_PROGRESS")
    BY <1>2, <2>2, LifeOfRow DEF IInv
  <2>4. task'.active = task.active /\ task'.overdue = task.overdue
    BY <1>1, <2>1 DEF TaskType
  <2>5. Life!Start(r)
    BY <1>6, <1>7, <2>3, <2>4 DEF Begin, Life!Start
  <2> QED
    BY <1>2, <2>4, <2>5 DEF Life!Next, OverdueIsOpen
<1>8. CASE Complete(h, row)
  <2>1. PICK phase \in {"open", "gate", "over"} :
          task' = [task EXCEPT !.version = @ + 1, !.active = 0, !.phase = phase,
                                !.overdue = FALSE]
    BY <1>8 DEF Complete
  <2>2. requests' = [requests EXCEPT ![r].status = "COMPLETED", ![r].result = row.result]
    BY <1>8 DEF Complete
  <2>3. task'.overdue = FALSE
    BY <1>1, <2>1 DEF TaskType
  <2>4. /\ requests' \in [Request -> RequestType] /\ requests'[r].status = "COMPLETED"
        /\ \A q \in Request : q # r => requests'[q] = requests[q]
    <3>1. row.result \in ResultType
      BY <1>2 DEF RowType
    <3>2. [requests[r] EXCEPT !.status = "COMPLETED", !.result = row.result] \in RequestType
      BY <1>1, <1>2, <3>1 DEF RequestType
    <3> QED
      BY <1>1, <1>2, <2>2, <3>2 DEF RequestType
  <2>5. Life!Becomes(r, "COMPLETED")
    BY <1>2, <2>4, LifeOfRow DEF IInv
  <2>6. Life!Complete(r)
    BY <1>6, <1>8, <2>3, <2>5 DEF Complete, Life!Complete
  <2> QED
    BY <1>2, <2>3, <2>6 DEF Life!Next, OverdueIsOpen
<1> QED
  BY <1>4, <1>5, <1>7, <1>8
     DEF Judge, row, JudgeRepeated, JudgeLate, JudgeUnbound, JudgeUnacceptable, Begin

\* Every step is one of that life, or none.
LEMMA LifeStep ==
  ASSUME IInv, OverdueIsOpen, Here \/ Abort
  PROVE  [Life!Next]_(Life!vars) /\ OverdueIsOpen'
<1>1. CASE UNCHANGED taskVars
  BY <1>1 DEF taskVars, OverdueIsOpen, LifeStatus, Life!vars
<1> QED
  BY <1>1, ElsewhereLife, JudgeLife DEF Here, Handle, Read, Post, Take, Reject, Crash, taskVars

\* A step that leaves the Task alone is none.
LEMMA LifeStutters ==
  ASSUME OverdueIsOpen, UNCHANGED taskVars
  PROVE  UNCHANGED Life!vars /\ OverdueIsOpen'
BY DEF taskVars, OverdueIsOpen, LifeStatus, Life!vars

\* Initially nothing is overdue.
LEMMA LifeInit == Init => Life!Init /\ OverdueIsOpen
BY DEF Init, Life!Init, LifeStatus, OverdueIsOpen

(***************************************************************************)
(* For any workers and events: one request is open at a time, no event     *)
(* that is judged starts or completes it past its deadline, and whatever   *)
(* ended it, an event or another part of the Hub, it stays ended.          *)
(***************************************************************************)
THEOREM RequestLives == Spec => Life!Spec
<1>1. LifeInv /\ [Next]_vars => LifeInv' /\ [Life!Next]_(Life!vars)
  <2>1. Next => Here \/ Abort
    BY DEF Next, Here
  <2> QED
    BY <2>1, InboxStep, LifeStep, LifeStutters DEF vars, taskVars, LifeInv
<1>2. Init => LifeInv /\ Life!Init
  BY InboxInit, LifeInit DEF LifeInv
<1> QED
  BY <1>1, <1>2, PTL DEF Spec, Life!Spec

(***************************************************************************)
(* The same with local Reviewers, whose answers take the same way.         *)
(***************************************************************************)
THEOREM LocalRequestLives == LocalSpec => Life!Spec
<1>1. LocalIInv /\ OverdueIsOpen /\ [LocalNext]_allVars =>
        OverdueIsOpen' /\ [Life!Next]_(Life!vars)
  <2>1. LocalNext => Here \/ Abort \/ UNCHANGED taskVars
    BY DEF LocalNext, AbortAll, Enqueue, Sent, TimePasses, Work, Claim, Reconcile, TakeJob,
           Evaluate, SettleClaim, WorkerCrash, vars, taskVars
  <2>2. UNCHANGED allVars => UNCHANGED taskVars
    BY DEF allVars, vars, taskVars
  <2> QED
    BY <2>1, <2>2, LifeStep, LifeStutters DEF LocalIInv
<1>2. LocalInit => OverdueIsOpen /\ Life!Init
  BY LifeInit DEF LocalInit
<1> QED
  BY <1>1, <1>2, LocalHolds, PTL DEF LocalSpec, Life!Spec
=============================================================================
