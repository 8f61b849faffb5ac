------------------------ MODULE GitHubIngress_proofs ------------------------
(***************************************************************************)
(* Proofs about GitHubIngress, for any number of calls, deliveries, events *)
(* and rounds: one request per event, answers that are true and stay.      *)
(***************************************************************************)
EXTENDS GitHubIngress, TLAPS

(***************************************************************************)
(* The receipt of an event's command and the requests made for the event   *)
(* say the same: that is why there is one, and why a replay finds it.      *)
(***************************************************************************)
ReceiptsAgree ==
  /\ \A r \in requests : /\ receipt[r.event].status = "PENDING"
                         /\ receipt[r.event].version = r.version
  /\ \A e \in Event : receipt[e].status = "PENDING" =>
       [event |-> e, version |-> receipt[e].version] \in requests

(***************************************************************************)
(* A call past preparation works on a row that was prepared, and so does   *)
(* whoever settled that row: it is of an advancing event and a bound pull  *)
(* request, and its payload and version do not change any more.            *)
(***************************************************************************)
PreparedStatus == {"PREPARED", "APPLIED", "DUPLICATE_SEMANTIC", "REJECTED"}

RowsArePrepared ==
  /\ \A h \in Handler :
       /\ proc[h].pc # "idle" => RowOf(h).status # "NONE"
       /\ proc[h].pc \in {"request", "reject", "apply"} => RowOf(h).status \in PreparedStatus
  /\ \A d \in Delivery : rows[d].status = "PREPARED" =>
       EventOf[rows[d].body] \in Advancing /\ reviewer # "none"

\* An accepted command is about to be settled with the request it made.
AppliesItsRequest ==
  \A h \in Handler : proc[h].pc = "apply" =>
    [event |-> EventIn(h), version |-> proc[h].request] \in requests

\* Only answered deliveries name a request.
OnlyAnswersName ==
  \A d \in Delivery : rows[d].request # 0 => rows[d].status \in {"APPLIED", "DUPLICATE_SEMANTIC"}

\* RequestedAsPrepared, and the row will keep that version.
RequestedAsKept ==
  \A r \in requests : \E d \in Delivery :
    /\ EventOf[rows[d].body] = r.event
    /\ rows[d].version = r.version
    /\ rows[d].status \in PreparedStatus

IInv == /\ TypeOK
        /\ ReceiptsAgree /\ RowsArePrepared /\ AppliesItsRequest
        /\ OnlyAnswersName /\ AnsweredWithItsRequest /\ RequestedAsKept

-----------------------------------------------------------------------------
\* Initially nothing was delivered, prepared or requested.
LEMMA InitIInv == Init => IInv
<1> SUFFICES ASSUME Init PROVE IInv
  OBVIOUS
<1> USE IngressAssumption DEF Init
<1>1. TypeOK
  <2>1. task \in TaskType
    BY DEF TaskType
  <2>2. receipt \in [Event -> ReceiptType]
    BY DEF ReceiptType, Reviewer
  <2>3. rows \in [Delivery -> RowType]
    BY DEF RowType, EventStatus, Reviewer
  <2>4. proc \in [Handler -> CallType]
    BY DEF CallType
  <2> QED
    BY <2>1, <2>2, <2>3, <2>4 DEF TypeOK, Reviewer
<1>2. ReceiptsAgree
  BY DEF ReceiptsAgree
<1>3. RowsArePrepared /\ AppliesItsRequest
  BY DEF RowsArePrepared, AppliesItsRequest, RowOf
<1>4. OnlyAnswersName /\ AnsweredWithItsRequest /\ RequestedAsKept
  BY DEF OnlyAnswersName, AnsweredWithItsRequest, RequestedAsKept
<1> QED
  BY <1>1, <1>2, <1>3, <1>4 DEF IInv

(***************************************************************************)
(* A call that only moves on, and leaves rows, receipts and requests as    *)
(* they are, keeps the invariant if it moves to where its row allows.      *)
(***************************************************************************)
LEMMA MovesOn ==
  ASSUME IInv, NEW h \in Handler, NEW pc \in {"idle", "process", "request", "reject"},
         Goes(h, pc), UNCHANGED <<reviewer, requests, receipt, rows>>,
         task' \in TaskType, routed' \in BOOLEAN,
         pc # "idle" => RowOf(h).status # "NONE",
         pc \in {"request", "reject"} => RowOf(h).status \in PreparedStatus
  PROVE  IInv'
<1> USE DEF IInv, Goes
<1>1. TypeOK'
  BY DEF TypeOK, CallType
<1>2. RowsArePrepared'
  BY DEF RowsArePrepared, RowOf, TypeOK, CallType
<1>3. AppliesItsRequest'
  BY DEF AppliesItsRequest, EventIn, RowOf, TypeOK, CallType
<1>4. (ReceiptsAgree /\ OnlyAnswersName /\ AnsweredWithItsRequest /\ RequestedAsKept)'
  BY DEF ReceiptsAgree, OnlyAnswersName, AnsweredWithItsRequest, RequestedAsKept
<1> QED
  BY <1>1, <1>2, <1>3, <1>4

(***************************************************************************)
(* A step that settles a row, for which its event and the request it then  *)
(* names are in order, keeps the invariant.                                *)
(***************************************************************************)
LEMMA Settling ==
  ASSUME IInv, NEW h \in Handler, proc[h].pc # "idle",
         NEW status \in Processed, NEW request \in Nat, Settles(h, status, request),
         UNCHANGED <<task, reviewer, routed, requests, receipt>>,
         status \in PreparedStatus \/ RowOf(h).status \notin PreparedStatus,
         status \in {"APPLIED", "DUPLICATE_SEMANTIC"} =>
           [event |-> EventIn(h), version |-> request] \in requests,
         status \notin {"APPLIED", "DUPLICATE_SEMANTIC"} => request = 0
  PROVE  IInv'
<1> DEFINE d0 == proc[h].delivery
<1>1. d0 \in Delivery /\ rows[d0] \in RowType /\ RowOf(h) = rows[d0]
  BY DEF IInv, TypeOK, CallType, RowOf
<1>2. /\ rows' \in [Delivery -> RowType]
      /\ rows'[d0] = [rows[d0] EXCEPT !.status = status, !.request = request]
      /\ \A d \in Delivery : d # d0 => rows'[d] = rows[d]
  BY <1>1 DEF IInv, TypeOK, Settles, RowType, Processed, EventStatus
<1>3. rows'[d0].status = status /\ rows'[d0].request = request
      /\ rows'[d0].body = rows[d0].body /\ rows'[d0].version = rows[d0].version
  BY <1>1, <1>2 DEF RowType
<1>4. proc' = [proc EXCEPT ![h].pc = "idle"] /\ proc' \in [Handler -> CallType]
  BY DEF IInv, TypeOK, Settles, Goes, CallType
<1> HIDE DEF d0
<1>5. TypeOK'
  BY <1>2, <1>4 DEF IInv, TypeOK
<1>6. ReceiptsAgree'
  BY DEF IInv, ReceiptsAgree
<1>7. \A g \in Handler : g # h => proc'[g] = proc[g]
  BY <1>4 DEF IInv, TypeOK
<1>8. proc'[h].pc = "idle"
  BY <1>4 DEF IInv, TypeOK, CallType
<1>9. status # "NONE" /\ status # "PREPARED"
  BY DEF Processed
<1>10. RowsArePrepared'
  <2>1. ASSUME NEW g \in Handler, proc'[g].pc # "idle"
        PROVE  /\ RowOf(g)'.status # "NONE"
               /\ proc'[g].pc \in {"request", "reject", "apply"} => RowOf(g)'.status \in PreparedStatus
    <3>1. g # h /\ proc'[g] = proc[g] /\ proc[g].delivery \in Delivery
      BY <2>1, <1>7, <1>8 DEF IInv, TypeOK, CallType
    <3>2. CASE proc[g].delivery = d0
      BY <3>1, <3>2, <2>1, <1>1, <1>3, <1>9 DEF IInv, RowsArePrepared, RowOf
    <3>3. CASE proc[g].delivery # d0
      BY <3>1, <3>3, <2>1, <1>2 DEF IInv, RowsArePrepared, RowOf
    <3> QED
      BY <3>2, <3>3
  <2>2. ASSUME NEW d \in Delivery, rows'[d].status = "PREPARED"
        PROVE  EventOf[rows'[d].body] \in Advancing /\ reviewer' # "none"
    BY <2>2, <1>2, <1>3, <1>9 DEF IInv, RowsArePrepared
  <2> QED
    BY <2>1, <2>2 DEF RowsArePrepared
<1>11. AppliesItsRequest'
  <2>1. ASSUME NEW g \in Handler, proc'[g].pc = "apply"
        PROVE  [event |-> EventIn(g)', version |-> proc'[g].request] \in requests
    <3>1. g # h /\ proc'[g] = proc[g] /\ proc[g].delivery \in Delivery
      BY <2>1, <1>7, <1>8 DEF IInv, TypeOK, CallType
    <3>2. rows'[proc[g].delivery].body = rows[proc[g].delivery].body
      BY <3>1, <1>2, <1>3
    <3> QED
      BY <3>1, <3>2, <2>1 DEF IInv, AppliesItsRequest, EventIn, RowOf
  <2> QED
    BY <2>1 DEF AppliesItsRequest
<1>12. OnlyAnswersName'
  BY <1>2, <1>3 DEF IInv, OnlyAnswersName
<1>13. AnsweredWithItsRequest'
  BY <1>1, <1>2, <1>3 DEF IInv, AnsweredWithItsRequest, EventIn
<1>14. RequestedAsKept'
  <2> SUFFICES ASSUME NEW r \in requests
               PROVE  \E d \in Delivery : /\ EventOf[rows'[d].body] = r.event
                                          /\ rows'[d].version = r.version
                                          /\ rows'[d].status \in PreparedStatus
    BY DEF RequestedAsKept
  <2>1. PICK d \in Delivery : /\ EventOf[rows[d].body] = r.event
                              /\ rows[d].version = r.version
                              /\ rows[d].status \in PreparedStatus
    BY DEF IInv, RequestedAsKept
  <2> QED
    BY <2>1, <1>1, <1>2, <1>3
<1> QED
  BY <1>5, <1>6, <1>10, <1>11, <1>12, <1>13, <1>14 DEF IInv

-----------------------------------------------------------------------------
\* A new version of the Task is a row of the Task.
LEMMA NextVersionType ==
  ASSUME task \in TaskType, NEW ready \in BOOLEAN, NEW rounds \in Nat, NextVersion(ready, rounds)
  PROVE  task' \in TaskType
<1>1. task.version + 1 \in Nat
  BY DEF TaskType
<1> QED
  BY <1>1, Zenon DEF NextVersion, TaskType

\* The Task and its pull request change nothing the invariant speaks of, but for the reviewer.
LEMMA WorldKeeps == IInv /\ (TaskMoves \/ Bind \/ Route) => IInv'
<1> SUFFICES ASSUME IInv, TaskMoves \/ Bind \/ Route PROVE IInv'
  OBVIOUS
<1>1. UNCHANGED <<requests, receipt, rows, proc>>
  BY DEF TaskMoves, Bind, Route
<1>2. reviewer # "none" => reviewer' = reviewer
  BY DEF TaskMoves, Bind, Route
<1>3. TypeOK'
  <2>1. task' \in TaskType
    <3>1. CASE TaskMoves
      <4>1. task \in TaskType /\ task.rounds \in Nat /\ task.rounds + 1 \in Nat
        BY DEF IInv, TypeOK, TaskType
      <4>2. ASSUME NEW ready \in BOOLEAN, NextVersion(ready, task.rounds) PROVE task' \in TaskType
        BY <4>1, <4>2, NextVersionType
      <4>3. CASE NextVersion(FALSE, task.rounds + 1)
        BY <4>1, <4>3, NextVersionType
      <4>4. CASE task' = [task EXCEPT !.ready = FALSE]
        BY <4>1, <4>4 DEF TaskType
      <4> QED
        BY <3>1, <4>2, <4>3, <4>4 DEF TaskMoves
    <3>2. CASE Bind \/ Route
      BY <3>2 DEF IInv, TypeOK, Bind, Route
    <3> QED
      BY <3>1, <3>2
  <2>2. reviewer' \in Reviewer /\ routed' \in BOOLEAN
    BY DEF IInv, TypeOK, TaskMoves, Bind, Route, Reviewer
  <2> QED
    BY <1>1, <2>1, <2>2 DEF IInv, TypeOK
<1>4. RowsArePrepared'
  BY <1>1, <1>2 DEF IInv, RowsArePrepared, RowOf
<1>5. (ReceiptsAgree /\ AppliesItsRequest)'
  BY <1>1 DEF IInv, ReceiptsAgree, AppliesItsRequest, EventIn, RowOf
<1>6. (OnlyAnswersName /\ AnsweredWithItsRequest /\ RequestedAsKept)'
  BY <1>1 DEF IInv, OnlyAnswersName, AnsweredWithItsRequest, RequestedAsKept
<1> QED
  BY <1>3, <1>4, <1>5, <1>6 DEF IInv

\* A delivery is recorded, or found recorded.
LEMMA IngestKeeps == ASSUME IInv, NEW h \in Handler, Ingest(h) PROVE IInv'
<1>1. PICK d0 \in Delivery, body \in Body :
        /\ \/ /\ rows[d0].status = "NONE"
              /\ rows' = [rows EXCEPT ![d0].status = "READY", ![d0].body = body]
           \/ /\ rows[d0].status # "NONE" /\ rows[d0].body = body
              /\ UNCHANGED rows
        /\ proc' = [proc EXCEPT ![h] = [pc |-> "process", delivery |-> d0, request |-> 0]]
  BY DEF Ingest
<1>2. UNCHANGED <<task, reviewer, routed, requests, receipt>>
  BY DEF Ingest
<1>3. rows' \in [Delivery -> RowType] /\ proc' \in [Handler -> CallType]
  BY <1>1 DEF IInv, TypeOK, RowType, EventStatus, CallType
<1>4. /\ rows'[d0].status # "NONE"
      /\ \A d \in Delivery :
           \/ rows'[d] = rows[d]
           \/ /\ rows[d].status = "NONE" /\ rows'[d].status = "READY"
              /\ rows'[d].request = rows[d].request
  BY <1>1 DEF IInv, TypeOK, RowType
<1>5. /\ proc'[h].pc = "process" /\ proc'[h].delivery = d0
      /\ \A g \in Handler : g # h => proc'[g] = proc[g]
  BY <1>1 DEF IInv, TypeOK
<1>6. TypeOK'
  BY <1>2, <1>3 DEF IInv, TypeOK
<1>7. \A g \in Handler : g # h /\ proc[g].pc # "idle" => RowOf(g)' = RowOf(g)
  BY <1>4, <1>5 DEF IInv, TypeOK, CallType, RowsArePrepared, RowOf
<1>8. RowsArePrepared'
  <2>1. \A g \in Handler : proc'[g].pc # "idle" => RowOf(g)'.status # "NONE"
    BY <1>4, <1>5, <1>7 DEF IInv, RowsArePrepared, RowOf
  <2>2. \A g \in Handler :
          proc'[g].pc \in {"request", "reject", "apply"} => RowOf(g)'.status \in PreparedStatus
    BY <1>5, <1>7 DEF IInv, RowsArePrepared
  <2>3. \A d \in Delivery : rows'[d].status = "PREPARED" =>
          EventOf[rows'[d].body] \in Advancing /\ reviewer' # "none"
    BY <1>2, <1>4 DEF IInv, RowsArePrepared
  <2> QED
    BY <2>1, <2>2, <2>3 DEF RowsArePrepared
<1>9. AppliesItsRequest'
  BY <1>2, <1>5, <1>7 DEF IInv, AppliesItsRequest, EventIn
<1>10. (ReceiptsAgree /\ OnlyAnswersName /\ AnsweredWithItsRequest)'
  BY <1>2, <1>4 DEF IInv, ReceiptsAgree, OnlyAnswersName, AnsweredWithItsRequest
<1>11. RequestedAsKept'
  BY <1>2, <1>4 DEF IInv, RequestedAsKept, PreparedStatus
<1> QED
  BY <1>6, <1>8, <1>9, <1>10, <1>11 DEF IInv

\* A delivery that is READY is prepared, of an advancing event and a bound pull request.
LEMMA PrepareKeeps ==
  ASSUME IInv, NEW h \in Handler, proc[h].pc = "process", RowOf(h).status \notin Processed,
         EventIn(h) \in Advancing, reviewer # "none", Prepare(h),
         UNCHANGED <<task, reviewer, routed, requests, receipt>>
  PROVE  IInv'
<1> DEFINE d0 == proc[h].delivery
<1>1. d0 \in Delivery /\ rows[d0] \in RowType /\ RowOf(h) = rows[d0]
  BY DEF IInv, TypeOK, CallType, RowOf
<1>2. rows[d0].status \in {"READY", "PREPARED"}
  BY <1>1 DEF IInv, RowsArePrepared, Processed, RowType, EventStatus
<1>3. CASE rows[d0].status = "PREPARED"
  BY <1>1, <1>3, MovesOn DEF Prepare, PreparedStatus, IInv, TypeOK
<1>4. CASE rows[d0].status = "READY"
  <2>1. PreparedReviewer \in Reviewer /\ task.version \in Nat
    BY DEF IInv, TypeOK, TaskType, Reviewer, PreparedReviewer
  <2>2. rows' = [rows EXCEPT ![d0].status = "PREPARED", ![d0].version = task.version,
                             ![d0].reviewer = PreparedReviewer]
    BY <1>1, <1>4 DEF Prepare
  <2>3. rows' \in [Delivery -> RowType]
    BY <1>1, <2>1, <2>2 DEF IInv, TypeOK, RowType, EventStatus
  <2>4. /\ rows'[d0].status = "PREPARED"
        /\ rows'[d0].body = rows[d0].body /\ rows'[d0].request = rows[d0].request
        /\ \A d \in Delivery : d # d0 => rows'[d] = rows[d]
    BY <1>1, <2>2 DEF IInv, TypeOK, RowType
  <2>5. proc' \in [Handler -> CallType] /\ proc' = [proc EXCEPT ![h].pc = "request"]
    BY DEF IInv, TypeOK, Prepare, Goes, CallType
  <2>6. /\ proc'[h].pc = "request" /\ proc'[h].delivery = d0
        /\ \A g \in Handler : g # h => proc'[g] = proc[g]
    BY <2>5 DEF IInv, TypeOK, CallType
  <2> HIDE DEF d0
  <2>7. TypeOK'
    BY <2>3, <2>5 DEF IInv, TypeOK
  <2>8. RowsArePrepared'
    <3>1. ASSUME NEW g \in Handler
          PROVE  /\ proc'[g].pc # "idle" => RowOf(g)'.status # "NONE"
                 /\ proc'[g].pc \in {"request", "reject", "apply"} => RowOf(g)'.status \in PreparedStatus
      <4>1. CASE proc'[g].delivery = d0
        BY <4>1, <2>4 DEF RowOf, PreparedStatus
      <4>2. CASE proc'[g].delivery # d0
        <5>1. g # h /\ proc'[g] = proc[g] /\ proc[g].delivery \in Delivery
          BY <4>2, <2>6 DEF IInv, TypeOK, CallType
        <5> QED
          BY <5>1, <4>2, <2>4 DEF IInv, RowsArePrepared, RowOf
      <4> QED
        BY <4>1, <4>2
    <3>2. ASSUME NEW d \in Delivery, rows'[d].status = "PREPARED"
          PROVE  EventOf[rows'[d].body] \in Advancing /\ reviewer' # "none"
      BY <3>2, <1>1, <2>4 DEF IInv, RowsArePrepared, EventIn
    <3> QED
      BY <3>1, <3>2 DEF RowsArePrepared
  <2>9. AppliesItsRequest'
    <3>1. ASSUME NEW g \in Handler, proc'[g].pc = "apply"
          PROVE  [event |-> EventIn(g)', version |-> proc'[g].request] \in requests
      <4>1. g # h /\ proc'[g] = proc[g] /\ proc[g].delivery \in Delivery
        BY <3>1, <2>6 DEF IInv, TypeOK, CallType
      <4>2. rows'[proc[g].delivery].body = rows[proc[g].delivery].body
        BY <4>1, <2>4
      <4> QED
        BY <4>1, <4>2, <3>1 DEF IInv, AppliesItsRequest, EventIn, RowOf
    <3> QED
      BY <3>1 DEF AppliesItsRequest
  <2>10. (ReceiptsAgree /\ OnlyAnswersName /\ AnsweredWithItsRequest)'
    BY <1>4, <2>4 DEF IInv, ReceiptsAgree, OnlyAnswersName, AnsweredWithItsRequest
  <2>11. RequestedAsKept'
    BY <1>4, <2>4 DEF IInv, RequestedAsKept, PreparedStatus
  <2> QED
    BY <2>7, <2>8, <2>9, <2>10, <2>11 DEF IInv
<1> QED
  BY <1>2, <1>3, <1>4

\* process, branch by branch.
LEMMA ProcessKeeps == ASSUME IInv, NEW h \in Handler, Process(h) PROVE IInv'
<1>1. /\ proc[h].pc = "process" /\ proc[h].delivery \in Delivery
      /\ UNCHANGED <<task, reviewer, routed, requests, receipt>>
      /\ task' \in TaskType /\ routed' \in BOOLEAN
  BY DEF Process, IInv, TypeOK, CallType
<1>2. CASE RowOf(h).status \in Processed /\ Goes(h, "idle") /\ UNCHANGED rows
  BY <1>1, <1>2, MovesOn
<1>3. CASE RowOf(h).status \notin Processed /\ EventIn(h) \notin Advancing /\ Settles(h, "IGNORED", 0)
  <2>1. RowOf(h).status \notin PreparedStatus
    BY <1>1, <1>3 DEF IInv, RowsArePrepared, PreparedStatus, Processed, RowOf, EventIn
  <2> QED
    BY <1>1, <1>3, <2>1, Settling, "IGNORED" \in Processed, 0 \in Nat DEF Processed
<1>4. ASSUME RowOf(h).status \notin Processed, NEW d \in Originals(h),
             Settles(h, "DUPLICATE_SEMANTIC", rows[d].request)
      PROVE  IInv'
  <2>1. d \in Delivery /\ rows[d].request \in Nat
    BY DEF Originals, IInv, TypeOK, RowType
  <2>2. [event |-> EventIn(h), version |-> rows[d].request] \in requests
    BY DEF Originals, IInv, AnsweredWithItsRequest
  <2> QED
    BY <1>1, <1>4, <2>1, <2>2, Settling DEF Processed, PreparedStatus
<1>5. CASE RowOf(h).status \notin Processed /\ reviewer = "none" /\ Settles(h, "UNMAPPED", 0)
  <2>1. RowOf(h).status \notin PreparedStatus
    BY <1>1, <1>5 DEF IInv, RowsArePrepared, PreparedStatus, Processed, RowOf
  <2> QED
    BY <1>1, <1>5, <2>1, Settling, "UNMAPPED" \in Processed, 0 \in Nat DEF Processed
<1>6. CASE /\ RowOf(h).status \notin Processed /\ EventIn(h) \in Advancing
           /\ reviewer # "none" /\ Prepare(h)
  BY <1>1, <1>6, PrepareKeeps
<1> QED
  BY <1>2, <1>3, <1>4, <1>5, <1>6 DEF Process

\* The command is replayed, refused, escalated or carried out.
LEMMA RequestKeeps == ASSUME IInv, NEW h \in Handler, RequestReview(h) PROVE IInv'
<1> DEFINE e0 == EventIn(h)
<1>1. /\ proc[h].pc = "request" /\ UNCHANGED <<reviewer, routed, rows>>
      /\ RowOf(h).status \in PreparedStatus /\ RowOf(h) \in RowType
      /\ proc[h] \in CallType
  BY DEF RequestReview, IInv, RowsArePrepared, TypeOK, CallType, RowOf
<1>2. e0 \in Event /\ receipt[e0] \in ReceiptType
  BY <1>1, IngressAssumption DEF IInv, TypeOK, RowType, EventIn
<1>3. task' \in TaskType /\ routed' \in BOOLEAN
  <2>1. task \in TaskType /\ routed \in BOOLEAN
    BY DEF IInv, TypeOK
  <2>2. CASE Replay(h) \/ Refuse(h)
    BY <1>1, <2>1, <2>2 DEF Replay, Refuse
  <2>3. CASE BeyondLimit(h) \/ Create(h)
    <3>1. task.rounds \in Nat /\ task.rounds + 1 \in Nat /\ FALSE \in BOOLEAN
      BY <2>1 DEF TaskType
    <3>2. NextVersion(FALSE, task.rounds) \/ NextVersion(FALSE, task.rounds + 1)
      BY <2>3 DEF BeyondLimit, Create
    <3>3. task' \in TaskType
      BY <2>1, <3>1, <3>2, NextVersionType
    <3> QED
      BY <1>1, <2>1, <3>3
  <2> QED
    BY <2>2, <2>3 DEF RequestReview
<1>4. \A g \in Handler : RowOf(g)' = rows[proc'[g].delivery]
  BY <1>1 DEF RowOf
<1> HIDE DEF e0
<1>5. CASE Replay(h) /\ receipt[e0].status # "PENDING"
  BY <1>1, <1>3, <1>5, MovesOn DEF Replay, e0
<1>6. CASE Refuse(h)
  BY <1>1, <1>3, <1>6, MovesOn DEF Refuse, PreparedStatus
<1>7. ASSUME NEW request \in Nat, [event |-> e0, version |-> request] \in requests',
             proc' = [proc EXCEPT ![h].pc = "apply", ![h].request = request],
             requests \subseteq requests'
      PROVE  RowsArePrepared' /\ AppliesItsRequest' /\ proc' \in [Handler -> CallType]
  <2>1. proc' \in [Handler -> CallType]
    BY <1>7 DEF IInv, TypeOK, CallType
  <2>2. /\ proc'[h].pc = "apply" /\ proc'[h].request = request
        /\ proc'[h].delivery = proc[h].delivery
        /\ \A g \in Handler : g # h => proc'[g] = proc[g]
    BY <1>1, <1>7 DEF IInv, TypeOK, CallType
  <2>3. \A g \in Handler : RowOf(g)' = RowOf(g) /\ EventIn(g)' = EventIn(g)
    BY <1>1, <2>2 DEF RowOf, EventIn
  <2>4. RowsArePrepared'
    <3>1. RowOf(h).status # "NONE"
      BY <1>1 DEF PreparedStatus
    <3> QED
      BY <1>1, <2>2, <2>3, <3>1 DEF IInv, RowsArePrepared
  <2>5. AppliesItsRequest'
    BY <1>7, <2>2, <2>3 DEF IInv, AppliesItsRequest, e0
  <2> QED
    BY <2>1, <2>4, <2>5
<1>8. CASE Replay(h) /\ receipt[e0].status = "PENDING"
  <2>1. /\ [event |-> e0, version |-> receipt[e0].version] \in requests
        /\ receipt[e0].version \in Nat
    BY <1>2, <1>8 DEF IInv, ReceiptsAgree, ReceiptType
  <2>2. UNCHANGED <<task, requests, receipt>>
        /\ proc' = [proc EXCEPT ![h].pc = "apply", ![h].request = receipt[e0].version]
    BY <1>8 DEF Replay, e0
  <2>3. RowsArePrepared' /\ AppliesItsRequest' /\ proc' \in [Handler -> CallType]
    BY <2>1, <2>2, <1>7
  <2>4. (ReceiptsAgree /\ OnlyAnswersName /\ AnsweredWithItsRequest /\ RequestedAsKept)'
    BY <1>1, <2>2 DEF IInv, ReceiptsAgree, OnlyAnswersName, AnsweredWithItsRequest, RequestedAsKept
  <2> QED
    BY <1>1, <2>2, <2>3, <2>4 DEF IInv, TypeOK
<1>9. ASSUME NEW status \in {"PENDING", "ESCALATED"}, Accepted(h), Consumes(h, status)
      PROVE  /\ receipt' \in [Event -> ReceiptType]
             /\ receipt[e0].status = "NONE" /\ RowOf(h).version = task.version
             /\ receipt'[e0].status = status /\ receipt'[e0].version = task.version
             /\ \A e \in Event : e # e0 => receipt'[e] = receipt[e]
             /\ \A r \in requests : r \in RequestType /\ r.event # e0
  <2>1. receipt[e0].status = "NONE" /\ RowOf(h).version = task.version
    BY <1>9 DEF Accepted, e0
  <2>2. receipt' = [receipt EXCEPT ![e0] =
                      [status |-> status, version |-> RowOf(h).version, reviewer |-> RowOf(h).reviewer]]
    BY <1>9 DEF Consumes, e0
  <2>3. receipt' \in [Event -> ReceiptType]
    BY <1>1, <2>2 DEF IInv, TypeOK, ReceiptType, RowType
  <2>4. \A r \in requests : r \in RequestType /\ r.event # e0
    BY <2>1 DEF IInv, TypeOK, ReceiptsAgree
  <2> QED
    BY <1>2, <2>1, <2>2, <2>3, <2>4 DEF IInv, TypeOK
<1>10. CASE BeyondLimit(h)
  <2>1. Accepted(h) /\ Consumes(h, "ESCALATED") /\ Goes(h, "idle") /\ UNCHANGED requests
    BY <1>10 DEF BeyondLimit
  <2>2. /\ receipt' \in [Event -> ReceiptType]
        /\ receipt'[e0].status = "ESCALATED"
        /\ \A e \in Event : e # e0 => receipt'[e] = receipt[e]
        /\ \A r \in requests : r \in RequestType /\ r.event # e0
    BY <2>1, <1>9
  <2>3. ReceiptsAgree'
    BY <2>1, <2>2 DEF IInv, ReceiptsAgree, RequestType
  <2>4. RowsArePrepared' /\ AppliesItsRequest' /\ proc' \in [Handler -> CallType]
    BY <1>1, <2>1 DEF IInv, TypeOK, CallType, Goes, RowsArePrepared, AppliesItsRequest, RowOf, EventIn
  <2>5. (OnlyAnswersName /\ AnsweredWithItsRequest /\ RequestedAsKept)'
    BY <1>1, <2>1 DEF IInv, OnlyAnswersName, AnsweredWithItsRequest, RequestedAsKept
  <2> QED
    BY <1>1, <1>3, <2>1, <2>2, <2>3, <2>4, <2>5 DEF IInv, TypeOK
<1>11. CASE Create(h)
  <2> DEFINE r0 == [event |-> e0, version |-> task.version]
  <2>1. /\ Accepted(h) /\ Consumes(h, "PENDING") /\ requests' = requests \cup {r0}
        /\ proc' = [proc EXCEPT ![h].pc = "apply", ![h].request = task.version]
    BY <1>11 DEF Create, e0
  <2>2. /\ receipt' \in [Event -> ReceiptType] /\ RowOf(h).version = task.version
        /\ receipt'[e0].status = "PENDING" /\ receipt'[e0].version = task.version
        /\ \A e \in Event : e # e0 => receipt'[e] = receipt[e]
        /\ \A r \in requests : r \in RequestType /\ r.event # e0
    BY <2>1, <1>9
  <2>3. task.version \in Nat /\ r0 \in RequestType /\ r0.event = e0 /\ r0.version = task.version
    BY <1>2 DEF IInv, TypeOK, TaskType, RequestType
  <2>4. ReceiptsAgree'
    <3>1. \A r \in requests' : /\ receipt'[r.event].status = "PENDING"
                               /\ receipt'[r.event].version = r.version
      BY <2>1, <2>2, <2>3 DEF IInv, ReceiptsAgree, RequestType
    <3>2. \A e \in Event : receipt'[e].status = "PENDING" =>
            [event |-> e, version |-> receipt'[e].version] \in requests'
      BY <2>1, <2>2 DEF IInv, ReceiptsAgree
    <3> QED
      BY <3>1, <3>2 DEF ReceiptsAgree
  <2>5. RowsArePrepared' /\ AppliesItsRequest' /\ proc' \in [Handler -> CallType]
    BY <2>1, <2>3, <1>7
  <2>6. requests' \in SUBSET RequestType
    BY <2>1, <2>3 DEF IInv, TypeOK
  <2>7. (OnlyAnswersName /\ AnsweredWithItsRequest)'
    BY <1>1, <2>1 DEF IInv, OnlyAnswersName, AnsweredWithItsRequest
  <2>8. RequestedAsKept'
    <3>1. /\ proc[h].delivery \in Delivery /\ EventOf[rows[proc[h].delivery].body] = e0
          /\ rows[proc[h].delivery].version = task.version
          /\ rows[proc[h].delivery].status \in PreparedStatus
      BY <1>1, <2>2 DEF CallType, RowOf, EventIn, e0
    <3> QED
      BY <1>1, <2>1, <2>3, <3>1 DEF IInv, RequestedAsKept
  <2> QED
    BY <1>1, <1>3, <2>2, <2>4, <2>5, <2>6, <2>7, <2>8 DEF IInv, TypeOK
<1> QED
  BY <1>5, <1>6, <1>8, <1>10, <1>11 DEF RequestReview

\* The refusal is stored, unless somebody settled the row.
LEMMA RejectKeeps == ASSUME IInv, NEW h \in Handler, Reject(h) PROVE IInv'
<1>1. /\ proc[h].pc = "reject" /\ RowOf(h).status \in PreparedStatus
      /\ UNCHANGED <<task, reviewer, routed, requests, receipt>>
      /\ task' \in TaskType /\ routed' \in BOOLEAN
  BY DEF Reject, IInv, RowsArePrepared, TypeOK
<1>2. CASE UNCHANGED rows /\ Goes(h, "idle")
  BY <1>1, <1>2, MovesOn
<1>3. CASE Settles(h, "REJECTED", 0)
  BY <1>1, <1>3, Settling, "REJECTED" \in Processed, 0 \in Nat DEF Processed, PreparedStatus
<1> QED
  BY <1>2, <1>3 DEF Reject

\* The row is answered with the request of its command.
LEMMA ApplyKeeps == ASSUME IInv, NEW h \in Handler, Apply(h) PROVE IInv'
<1>1. /\ proc[h].pc = "apply" /\ proc[h].request \in Nat
      /\ [event |-> EventIn(h), version |-> proc[h].request] \in requests
      /\ UNCHANGED <<task, reviewer, routed, requests, receipt>>
  BY DEF Apply, IInv, AppliesItsRequest, TypeOK, CallType
<1> QED
  BY <1>1, Settling DEF Apply, Processed, PreparedStatus

\* Every step keeps the invariant.
LEMMA StepIInv == IInv /\ [Next]_vars => IInv'
<1> SUFFICES ASSUME IInv, [Next]_vars PROVE IInv'
  OBVIOUS
<1>1. CASE TaskMoves \/ Bind \/ Route
  BY <1>1, WorldKeeps
<1>2. ASSUME NEW h \in Handler, Handle(h) PROVE IInv'
  BY <1>2, IngestKeeps, ProcessKeeps, RequestKeeps, RejectKeeps, ApplyKeeps DEF Handle
<1>3. ASSUME NEW h \in Handler, Crash(h) PROVE IInv'
  BY <1>3, MovesOn DEF Crash, IInv, TypeOK
<1>4. CASE UNCHANGED vars
  BY <1>4 DEF vars, IInv, TypeOK, ReceiptsAgree, RowsArePrepared, AppliesItsRequest, OnlyAnswersName,
              AnsweredWithItsRequest, RequestedAsKept, RowOf, EventIn
<1> QED
  BY <1>1, <1>2, <1>3, <1>4 DEF Next

LEMMA AlwaysIInv == Spec => []IInv
  BY InitIInv, StepIInv, PTL DEF Spec

-----------------------------------------------------------------------------
(***************************************************************************)
(* One review request per pushed event (request_review keyed by the event),*)
(* whichever deliveries, threads and crashes it took.                      *)
(***************************************************************************)
THEOREM RequestedOnce == Spec => []OneRequestPerEvent
<1>1. IInv => OneRequestPerEvent
  BY DEF IInv, TypeOK, RequestType, ReceiptsAgree, OneRequestPerEvent
<1> QED
  BY <1>1, AlwaysIInv, PTL

(***************************************************************************)
(* An APPLIED or DUPLICATE_SEMANTIC delivery names a review request that   *)
(* exists and that its event made.                                         *)
(***************************************************************************)
THEOREM AnswersAreTrue == Spec => []AnsweredWithItsRequest
<1>1. IInv => AnsweredWithItsRequest
  BY DEF IInv
<1> QED
  BY <1>1, AlwaysIInv, PTL

(***************************************************************************)
(* A request is made at the Task version that a delivery was prepared at.  *)
(***************************************************************************)
THEOREM PreparedIsRequested == Spec => []RequestedAsPrepared
<1>1. IInv => RequestedAsPrepared
  BY DEF IInv, RequestedAsKept, RequestedAsPrepared
<1> QED
  BY <1>1, AlwaysIInv, PTL

-----------------------------------------------------------------------------
AnswerStays(d) ==
  /\ rows[d].status # "NONE" => rows'[d].body = rows[d].body
  /\ rows[d].request # 0 => rows'[d].request = rows[d].request
  /\ rows[d].status \in {"IGNORED", "UNMAPPED"} => rows'[d] = rows[d]

\* A row may be settled if it was not answered, or only with the same request.
LEMMA SettlingStays ==
  ASSUME IInv, NEW h \in Handler, NEW status, NEW request, Settles(h, status, request),
         RowOf(h).status \notin {"IGNORED", "UNMAPPED"},
         RowOf(h).request # 0 => request = RowOf(h).request
  PROVE  \A d \in Delivery : AnswerStays(d)
BY DEF IInv, TypeOK, CallType, RowType, RowOf, Settles, AnswerStays

\* No step takes an answer back.
LEMMA StepStays == IInv /\ [Next]_vars => [\A d \in Delivery : AnswerStays(d)]_vars
<1> SUFFICES ASSUME IInv, Next PROVE \A d \in Delivery : AnswerStays(d)
  OBVIOUS
<1> DEFINE Stay == \A d \in Delivery : AnswerStays(d)
<1>1. rows' = rows => Stay
  BY DEF AnswerStays
<1>2. CASE TaskMoves \/ Bind \/ Route
  BY <1>1, <1>2 DEF TaskMoves, Bind, Route
<1>3. ASSUME NEW h \in Handler, Ingest(h) PROVE Stay
  BY <1>1, <1>3 DEF Ingest, AnswerStays, IInv, TypeOK, RowType
<1>4. ASSUME NEW h \in Handler, Process(h) PROVE Stay
  <2>1. proc[h].delivery \in Delivery /\ RowOf(h) = rows[proc[h].delivery] /\ RowOf(h) \in RowType
    BY DEF IInv, TypeOK, CallType, RowOf
  <2>2. RowOf(h).status \notin Processed => /\ RowOf(h).status \notin {"IGNORED", "UNMAPPED"}
                                            /\ RowOf(h).request = 0
    BY <2>1 DEF IInv, OnlyAnswersName, Processed
  <2>3. ASSUME NEW status, NEW request, RowOf(h).status \notin Processed, Settles(h, status, request)
        PROVE  Stay
    BY <2>2, <2>3, SettlingStays
  <2>4. CASE RowOf(h).status \notin Processed /\ Prepare(h)
    BY <1>1, <2>1, <2>2, <2>4 DEF Prepare, AnswerStays, IInv, TypeOK, RowType
  <2> QED
    BY <1>1, <1>4, <2>3, <2>4 DEF Process
<1>5. ASSUME NEW h \in Handler, RequestReview(h) \/ Crash(h) PROVE Stay
  BY <1>1, <1>5 DEF RequestReview, Crash
<1>6. ASSUME NEW h \in Handler, Reject(h) PROVE Stay
  <2>1. CASE UNCHANGED rows
    BY <1>1, <2>1
  <2>2. CASE RowOf(h).status = "PREPARED" /\ Settles(h, "REJECTED", 0)
    <3>1. RowOf(h).request = 0
      BY <2>2 DEF IInv, OnlyAnswersName, TypeOK, CallType, RowOf
    <3> QED
      BY <2>2, <3>1, SettlingStays
  <2> QED
    BY <1>6, <2>1, <2>2 DEF Reject, AlreadySettled
<1>7. ASSUME NEW h \in Handler, Apply(h) PROVE Stay
  <2>1. /\ Settles(h, "APPLIED", proc[h].request) /\ proc[h].pc = "apply"
        /\ proc[h].delivery \in Delivery /\ RowOf(h) = rows[proc[h].delivery]
    BY <1>7 DEF Apply, IInv, TypeOK, CallType, RowOf
  <2>2. RowOf(h).status \in PreparedStatus
    BY <2>1 DEF IInv, RowsArePrepared
  <2>3. [event |-> EventIn(h), version |-> proc[h].request] \in requests
    BY <2>1 DEF IInv, AppliesItsRequest
  <2>4. RowOf(h).request # 0 => [event |-> EventIn(h), version |-> RowOf(h).request] \in requests
    BY <2>1 DEF IInv, OnlyAnswersName, AnsweredWithItsRequest, EventIn
  <2>5. RowOf(h).request # 0 => proc[h].request = RowOf(h).request
    BY <2>3, <2>4 DEF IInv, ReceiptsAgree
  <2> QED
    BY <2>1, <2>2, <2>5, SettlingStays DEF PreparedStatus
<1> QED
  BY <1>2, <1>3, <1>4, <1>5, <1>6, <1>7 DEF Next, Handle

(***************************************************************************)
(* A delivery's payload, the request it was answered with, and an answer   *)
(* IGNORED or UNMAPPED stay, also against a call that settles late.        *)
(***************************************************************************)
THEOREM AnswersAreKept == Spec => AnswersStay
  BY AlwaysIInv, StepStays, PTL DEF Spec, AnswersStay, AnswerStays
=============================================================================
