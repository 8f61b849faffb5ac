------------------------ MODULE TriggerIngress_proofs ------------------------
(***************************************************************************)
(* Proofs about TriggerIngress, for any connectors, conversations and      *)
(* messages and any age of attestations: one Task at a time and for each   *)
(* message, and calls that come late are answered with it.  What the       *)
(* scanner finds in a message plays no part in them, except in the last:   *)
(* a Task stands on what the user asked if the scanner finds just that.    *)
(***************************************************************************)
EXTENDS TriggerIngress, TLAPS

(***************************************************************************)
(* Receipts and Tasks say the same: the receipt of a key names the one     *)
(* Task that was created under it.  That is why a key has one Task.        *)
(***************************************************************************)
ReceiptsNameTasks ==
  /\ \A n \in DOMAIN tasks : receipts[tasks[n].evidence.key] = n
  /\ \A k \in Key : receipts[k] # NoTask => tasks[receipts[k]].evidence.key = k

\* A conversation has one Task that is live.
OneIsLive ==
  \A i, j \in DOMAIN tasks :
    /\ i # j
    /\ tasks[i].evidence.conversation = tasks[j].evidence.conversation
    => ~(tasks[i].live /\ tasks[j].live)

\* What a call that came late knows, before it looks and after.
LateIsKnown ==
  \A s \in Server :
    /\ calls[s].pc = "look" /\ calls[s].input.late => IsAnswered(calls[s].input)
    /\ calls[s].pc = "issue" => ~calls[s].input.late
    /\ calls[s].pc = "create" /\ calls[s].late =>
         /\ receipts[calls[s].evidence.key] # NoTask
         /\ calls[s].evidence = tasks[receipts[calls[s].evidence.key]].evidence

IInv == TypeOK /\ ReceiptsNameTasks /\ OneIsLive /\ LateIsKnown

-----------------------------------------------------------------------------
Row == [evidence : Evidence, created : 0..MaxTime, live : BOOLEAN]

\* What is where in the rows of the Tasks and in the calls.
LEMMA RowFields ==
  ASSUME TypeOK
  PROVE  /\ DOMAIN tasks = 1..Len(tasks) /\ Len(tasks) \in Nat /\ NoTask \notin DOMAIN tasks
         /\ \A n \in DOMAIN tasks : tasks[n] \in Row /\ tasks[n].evidence \in Evidence
                                   /\ tasks[n].evidence.key \in Key
<1>1. tasks \in Seq(Row)
  BY DEF TypeOK, Row
<1>2. DOMAIN tasks = 1..Len(tasks) /\ Len(tasks) \in Nat
      /\ \A n \in DOMAIN tasks : tasks[n] \in Row
  BY <1>1
<1>3. \A row \in Row : row.evidence \in Evidence
  BY DEF Row
<1>4. \A e \in Evidence : e.key \in Key
  BY DEF Evidence
<1> QED
  BY <1>2, <1>3, <1>4, IngressConstants

LEMMA CallFields ==
  ASSUME TypeOK, NEW s \in Server
  PROVE  /\ calls[s].pc \in {"idle", "look", "issue", "create"}
         /\ calls[s].pc \in {"look", "issue"} => /\ calls[s].input \in Input
                                                /\ calls[s].input.key \in Key
         /\ calls[s].pc = "create" => /\ calls[s].evidence \in Evidence
                                      /\ calls[s].evidence.key \in Key
<1>1. calls[s] \in Call \cup {NoCall}
  BY DEF TypeOK
<1>2. \A e \in Evidence : e.key \in Key
  BY DEF Evidence
<1>3. \A i \in Input : i.key \in Key
  BY DEF Input
<1> QED
  BY <1>1, <1>2, <1>3 DEF Call, NoCall

LEMMA InitIInv == Init => IInv
<1> SUFFICES ASSUME Init PROVE IInv
  OBVIOUS
<1> USE DEF Init
<1>1. TypeOK
  BY IngressConstants DEF TypeOK, NoCall
<1> QED
  BY <1>1 DEF IInv, ReceiptsNameTasks, OneIsLive, LateIsKnown, NoCall

(***************************************************************************)
(* A step of one call that leaves Tasks and receipts alone keeps the       *)
(* invariant, if the call knows what it has to where it goes.              *)
(***************************************************************************)
LEMMA CallMoves ==
  ASSUME IInv, NEW s \in Server, NEW call \in Call \cup {NoCall},
         calls' = [calls EXCEPT ![s] = call], UNCHANGED <<tasks, receipts>>,
         now' \in 0..MaxTime,
         call.pc = "look" /\ call.input.late => IsAnswered(call.input),
         call.pc = "issue" => ~call.input.late,
         call.pc = "create" /\ call.late =>
           /\ receipts[call.evidence.key] # NoTask
           /\ call.evidence = tasks[receipts[call.evidence.key]].evidence
  PROVE  IInv'
<1> USE DEF IInv
<1>1. calls'[s] = call /\ \A q \in Server \ {s} : calls'[q] = calls[q]
  BY DEF TypeOK
<1>2. TypeOK'
  BY DEF TypeOK
<1>3. LateIsKnown'
  BY <1>1 DEF LateIsKnown, IsAnswered
<1> QED
  BY <1>2, <1>3 DEF ReceiptsNameTasks, OneIsLive

\* A call that is over knows nothing.
LEMMA LeaveMoves ==
  ASSUME IInv, NEW s \in Server, Leave(s), UNCHANGED <<tasks, receipts, now>>
  PROVE  IInv'
<1>1. NoCall \in Call \cup {NoCall} /\ NoCall.pc = "idle" /\ now' \in 0..MaxTime
  BY DEF NoCall, IInv, TypeOK
<1>2. calls' = [calls EXCEPT ![s] = NoCall]
  BY DEF Leave
<1> QED
  BY <1>1, <1>2, CallMoves, Zenon

LEMMA BeginKeeps ==
  ASSUME IInv, NEW s \in Server, NEW k \in Key, NEW c \in Conversation, NEW m \in Message,
         Begin(s, k, c, m)
  PROVE  IInv'
<1> DEFINE late == IsAnswered([key |-> k, conversation |-> c, message |-> m])
           input == [key |-> k, conversation |-> c, message |-> m, late |-> late]
           call == [pc |-> "look", input |-> input]
<1>1. late \in BOOLEAN
  BY DEF IsAnswered
<1>2. input \in Input
  BY <1>1 DEF Input
<1>3. call \in Call
  BY <1>2 DEF Call
<1>4. late => IsAnswered(input)
  BY DEF IsAnswered
<1>5. /\ calls' = [calls EXCEPT ![s] = call]
      /\ UNCHANGED <<tasks, receipts, now>>
  BY DEF Begin
<1>6. now' \in 0..MaxTime
  BY <1>5 DEF IInv, TypeOK
<1>7. call.pc = "look" /\ call.input = input /\ input.late = late
  OBVIOUS
<1> HIDE DEF late, input, call
<1> QED
  BY <1>3, <1>4, <1>5, <1>6, <1>7, CallMoves

\* What a stored attestation is of.
LEMMA AnsweredByOwnTask ==
  ASSUME IInv, NEW input \in Input, IsAnswered(input)
  PROVE  /\ receipts[input.key] \in DOMAIN tasks
         /\ tasks[receipts[input.key]].evidence \in Evidence
         /\ tasks[receipts[input.key]].evidence.key = input.key
<1>1. input.key \in Key /\ receipts[input.key] # NoTask
  BY DEF Input, IsAnswered
<1>2. receipts[input.key] \in DOMAIN tasks
  BY <1>1 DEF IInv, TypeOK
<1> QED
  BY <1>1, <1>2, RowFields DEF IInv, ReceiptsNameTasks

LEMMA LookKeeps ==
  ASSUME IInv, NEW s \in Server, Look(s)
  PROVE  IInv'
<1> DEFINE input == calls[s].input
<1>1. input \in Input
  BY DEF IInv, TypeOK, Call, NoCall, Look
<1>2. UNCHANGED <<tasks, receipts, now>> /\ now' \in 0..MaxTime
  BY DEF Look, IInv, TypeOK
<1>3. input.late => IsAnswered(input)
  BY DEF IInv, LateIsKnown, Look
<1>4. CASE Found(input)
  <2> DEFINE evidence == tasks[receipts[input.key]].evidence
             call == [pc |-> "create", late |-> input.late, evidence |-> evidence]
  <2>1. /\ evidence \in Evidence /\ evidence.key = input.key
        /\ receipts[input.key] # NoTask
    BY <1>1, <1>4, AnsweredByOwnTask DEF Found, IsAnswered
  <2>2. call \in Call
    BY <1>1, <2>1 DEF Call, Input
  <2>3. calls' = [calls EXCEPT ![s] = call]
    BY <1>4 DEF Look
  <2>4. call.pc = "create" /\ call.evidence = evidence
    OBVIOUS
  <2> HIDE DEF input, call
  <2> QED
    BY <1>2, <2>1, <2>2, <2>3, <2>4, CallMoves
<1>5. CASE ~Found(input)
  <2> DEFINE call == [pc |-> "issue", input |-> input]
  <2>1. call \in Call
    BY <1>1 DEF Call
  <2>2. calls' = [calls EXCEPT ![s] = call]
    BY <1>5 DEF Look
  <2>3. call.pc = "issue" /\ call.input = input /\ ~input.late
    BY <1>3, <1>5 DEF Found
  <2> HIDE DEF input, call
  <2> QED
    BY <1>2, <2>1, <2>2, <2>3, CallMoves
<1> QED
  BY <1>4, <1>5

LEMMA IssueKeeps ==
  ASSUME IInv, NEW s \in Server, Issue(s)
  PROVE  IInv'
<1> DEFINE input == calls[s].input
           evidence == [key |-> input.key, conversation |-> input.conversation,
                        message |-> input.message, issued |-> now,
                        start |-> Min(Spans[input.message])]
           call == [pc |-> "create", late |-> input.late, evidence |-> evidence]
<1>1. input \in Input /\ now \in 0..MaxTime
  BY DEF IInv, TypeOK, Call, NoCall, Issue
<1>2. Min(Spans[input.message]) \in Starts
  BY <1>1 DEF Starts, Issue, Input
<1>3. evidence \in Evidence
  BY <1>1, <1>2 DEF Evidence, Input
<1>4. call \in Call
  BY <1>1, <1>3 DEF Call, Input
<1>5. ~input.late
  BY DEF IInv, LateIsKnown, Issue
<1>6. calls' = [calls EXCEPT ![s] = call] /\ UNCHANGED <<tasks, receipts, now>>
  BY DEF Issue
<1>7. call.pc = "create" /\ call.late = input.late
  OBVIOUS
<1> HIDE DEF input, call
<1> QED
  BY <1>1, <1>4, <1>5, <1>6, <1>7, CallMoves

(***************************************************************************)
(* The new Task is the only one of its key, which had no receipt, and the  *)
(* only live one of its conversation, which had none; Tasks and receipts   *)
(* that were there stay.                                                   *)
(***************************************************************************)
LEMMA CreateKeeps ==
  ASSUME IInv, NEW s \in Server, CreateTask(s)
  PROVE  IInv'
<1> DEFINE e == calls[s].evidence
           n0 == Len(tasks) + 1
           row == [evidence |-> e, created |-> now, live |-> TRUE]
<1>1. e \in Evidence /\ e.key \in Key
  BY CallFields DEF IInv, CreateTask
<1>2. row \in [evidence : Evidence, created : 0..MaxTime, live : BOOLEAN]
  BY <1>1 DEF IInv, TypeOK
<1>3. tasks' = Append(tasks, row)
  BY DEF CreateTask
<1>4. /\ tasks' \in Seq([evidence : Evidence, created : 0..MaxTime, live : BOOLEAN])
      /\ DOMAIN tasks' = DOMAIN tasks \cup {n0} /\ n0 \notin DOMAIN tasks /\ n0 \in Nat
      /\ tasks'[n0] = row
      /\ \A n \in DOMAIN tasks : tasks'[n] = tasks[n]
  BY <1>2, <1>3 DEF IInv, TypeOK
<1>5. /\ receipts[e.key] = NoTask
      /\ receipts' = [receipts EXCEPT ![e.key] = n0]
      /\ calls' = [calls EXCEPT ![s] = NoCall]
      /\ UNCHANGED now
  BY DEF CreateTask, Leave
<1>6. /\ receipts'[e.key] = n0
      /\ \A k \in Key : k # e.key => receipts'[k] = receipts[k]
      /\ receipts' \in [Key -> DOMAIN tasks' \cup {NoTask}]
  BY <1>1, <1>4, <1>5 DEF IInv, TypeOK
<1>7. row.evidence = e /\ row.live
  OBVIOUS
<1>8. \A n \in DOMAIN tasks : tasks[n].evidence.key \in Key
  BY RowFields DEF IInv
<1>9. NoTask \notin DOMAIN tasks
  BY RowFields DEF IInv
<1> HIDE DEF e, n0, row
<1>10. TypeOK'
  BY <1>4, <1>5, <1>6 DEF IInv, TypeOK
<1>11. ReceiptsNameTasks'
  <2>1. \A n \in DOMAIN tasks : tasks[n].evidence.key # e.key
    BY <1>5, <1>9 DEF IInv, ReceiptsNameTasks
  <2>2. ASSUME NEW n \in DOMAIN tasks' PROVE receipts'[tasks'[n].evidence.key] = n
    BY <1>4, <1>6, <1>7, <1>8, <2>1 DEF IInv, ReceiptsNameTasks
  <2>3. ASSUME NEW k \in Key, receipts'[k] # NoTask PROVE tasks'[receipts'[k]].evidence.key = k
    <3>1. CASE k = e.key
      BY <3>1, <1>4, <1>6, <1>7
    <3>2. CASE k # e.key
      <4>1. receipts[k] \in DOMAIN tasks
        BY <3>2, <2>3, <1>6 DEF IInv, TypeOK
      <4> QED
        BY <3>2, <4>1, <2>3, <1>4, <1>6 DEF IInv, ReceiptsNameTasks
    <3> QED
      BY <3>1, <3>2
  <2> QED
    BY <2>2, <2>3 DEF ReceiptsNameTasks
<1>12. OneIsLive'
  <2>1. \A n \in DOMAIN tasks : tasks[n].evidence.conversation = e.conversation => ~tasks[n].live
    BY DEF CreateTask, IsFree, ActiveIn, e
  <2> QED
    BY <2>1, <1>4, <1>7 DEF IInv, OneIsLive
<1>13. LateIsKnown'
  <2> SUFFICES ASSUME NEW q \in Server
               PROVE  /\ calls'[q].pc = "look" /\ calls'[q].input.late =>
                           IsAnswered(calls[q].input)'
                      /\ calls'[q].pc = "issue" => ~calls'[q].input.late
                      /\ calls'[q].pc = "create" /\ calls'[q].late =>
                           /\ receipts'[calls'[q].evidence.key] # NoTask
                           /\ calls'[q].evidence
                                = tasks'[receipts'[calls'[q].evidence.key]].evidence
    BY DEF LateIsKnown
  <2>1. CASE q = s
    BY <2>1, <1>5 DEF IInv, TypeOK, NoCall
  <2>2. CASE q # s
    <3>1. calls'[q] = calls[q]
      BY <2>2, <1>5 DEF IInv, TypeOK
    <3>2. ASSUME NEW k \in Key, receipts[k] # NoTask
          PROVE  receipts'[k] = receipts[k] /\ tasks'[receipts[k]] = tasks[receipts[k]]
      BY <3>2, <1>4, <1>5, <1>6 DEF IInv, TypeOK
    <3>3. CASE calls[q].pc = "look" /\ calls[q].input.late
      <4>1. calls[q].input.key \in Key
        BY <3>3, CallFields DEF IInv
      <4>2. IsAnswered(calls[q].input)
        BY <3>3 DEF IInv, LateIsKnown
      <4>3. receipts[calls[q].input.key] # NoTask
        BY <4>2 DEF IsAnswered
      <4>4. IsAnswered(calls[q].input)'
        BY <3>1, <3>2, <4>1, <4>2, <4>3 DEF IsAnswered
      <4> QED
        BY <3>1, <3>3, <4>4
    <3>4. CASE calls[q].pc = "create" /\ calls[q].late
      <4>1. calls[q].evidence.key \in Key
        BY <3>4, CallFields DEF IInv
      <4> QED
        BY <3>1, <3>2, <3>4, <4>1 DEF IInv, LateIsKnown
    <3>5. CASE ~(calls[q].pc = "look" /\ calls[q].input.late)
               /\ ~(calls[q].pc = "create" /\ calls[q].late)
      BY <3>1, <3>5 DEF IInv, LateIsKnown
    <3> QED
      BY <3>3, <3>4, <3>5
  <2> QED
    BY <2>1, <2>2
<1> QED
  BY <1>10, <1>11, <1>12, <1>13 DEF IInv

\* A Task that ends keeps its attestation.
LEMMA EndKeeps ==
  ASSUME IInv, NEW n \in DOMAIN tasks, End(n)
  PROVE  IInv'
<1> USE DEF IInv
<1>1. /\ DOMAIN tasks' = DOMAIN tasks
      /\ tasks' \in Seq([evidence : Evidence, created : 0..MaxTime, live : BOOLEAN])
      /\ \A m \in DOMAIN tasks : /\ tasks'[m].evidence = tasks[m].evidence
                                 /\ tasks'[m].live => tasks[m].live
      /\ UNCHANGED <<receipts, calls, now>>
  <2>1. /\ tasks' = [tasks EXCEPT ![n] = [tasks[n] EXCEPT !.live = FALSE]]
        /\ UNCHANGED <<receipts, calls, now>>
    BY DEF End
  <2>2. tasks[n] \in Row
    BY RowFields
  <2>3. /\ [tasks[n] EXCEPT !.live = FALSE] \in Row
        /\ [tasks[n] EXCEPT !.live = FALSE].evidence = tasks[n].evidence
        /\ ~[tasks[n] EXCEPT !.live = FALSE].live
    BY <2>2 DEF Row
  <2>4. tasks \in Seq(Row)
    BY DEF TypeOK, Row
  <2>5. tasks' \in Seq(Row) /\ DOMAIN tasks' = DOMAIN tasks
    BY <2>1, <2>3, <2>4
  <2>6. \A m \in DOMAIN tasks : /\ tasks'[m].evidence = tasks[m].evidence
                                /\ tasks'[m].live => tasks[m].live
    BY <2>1, <2>3, <2>4
  <2> QED
    BY <2>1, <2>5, <2>6 DEF Row
<1>2. TypeOK'
  BY <1>1 DEF TypeOK
<1>3. ReceiptsNameTasks'
  BY <1>1 DEF ReceiptsNameTasks, TypeOK
<1>4. OneIsLive'
  BY <1>1 DEF OneIsLive
<1>5. LateIsKnown'
  <2>1. \A k \in Key : receipts[k] # NoTask =>
          tasks'[receipts[k]].evidence = tasks[receipts[k]].evidence
    BY <1>1 DEF TypeOK
  <2>2. \A s \in Server : /\ calls[s].pc = "look" => calls[s].input.key \in Key
                          /\ calls[s].pc = "create" => calls[s].evidence.key \in Key
    BY CallFields
  <2> QED
    BY <1>1, <2>1, <2>2 DEF LateIsKnown, IsAnswered
<1> QED
  BY <1>2, <1>3, <1>4, <1>5

\* The invariant is inductive.
LEMMA NextIInv == IInv /\ [Next]_vars => IInv'
<1> SUFFICES ASSUME IInv, [Next]_vars PROVE IInv'
  OBVIOUS
<1>1. CASE \E s \in Server, k \in Key, c \in Conversation, m \in Message : Begin(s, k, c, m)
  BY <1>1, BeginKeeps
<1>2. ASSUME NEW s \in Server, Look(s) \/ Issue(s) \/ CreateTask(s) \/ Return(s)
      PROVE  IInv'
  <2>1. CASE Return(s)
    BY <2>1, LeaveMoves DEF Return
  <2> QED
    BY <1>2, <2>1, LookKeeps, IssueKeeps, CreateKeeps
<1>3. CASE \E n \in DOMAIN tasks : End(n)
  BY <1>3, EndKeeps
<1>4. CASE Tick
  BY <1>4, IngressConstants
     DEF Tick, IInv, TypeOK, ReceiptsNameTasks, OneIsLive, LateIsKnown, IsAnswered
<1>5. CASE UNCHANGED vars
  BY <1>5 DEF vars, IInv, TypeOK, ReceiptsNameTasks, OneIsLive, LateIsKnown, IsAnswered
<1> QED
  BY <1>1, <1>2, <1>3, <1>4, <1>5 DEF Next

LEMMA Invariance == Spec => []IInv
BY InitIInv, NextIInv, PTL DEF Spec

-----------------------------------------------------------------------------
(***************************************************************************)
(* For any connectors and conversations: a message never leads to two      *)
(* Tasks, and a conversation never has two at work.                        *)
(***************************************************************************)
THEOREM OneTask == Spec => []OneTaskAtATime
<1>1. IInv => OneTaskAtATime
  BY DEF IInv, ReceiptsNameTasks, OneIsLive, OneTaskAtATime
<1> QED
  BY <1>1, Invariance, PTL

(***************************************************************************)
(* For any connectors: a call for a message that has its Task submits the  *)
(* attestation of that Task, however late it is.                           *)
(***************************************************************************)
THEOREM LateCallsReplay == Spec => []LateCallReplays
<1>1. IInv => LateCallReplays
  BY DEF IInv, LateIsKnown, LateCallReplays
<1> QED
  BY <1>1, Invariance, PTL

-----------------------------------------------------------------------------
\* The attestation is of the first span the scanner finds in its message.
AttestsFirst(e) == Spans[e.message] # {} /\ e.start = Min(Spans[e.message])

AttestedInTime ==
  /\ \A s \in Server : calls[s].pc = "create" => AttestsFirst(calls[s].evidence)
  /\ \A n \in DOMAIN tasks : /\ AttestsFirst(tasks[n].evidence)
                             /\ tasks[n].created - tasks[n].evidence.issued <= MaxAge

LEMMA AttestedStep == IInv /\ AttestedInTime /\ [Next]_vars => AttestedInTime'
<1> SUFFICES ASSUME IInv, AttestedInTime, [Next]_vars PROVE AttestedInTime'
  OBVIOUS
<1>0. TypeOK
  BY DEF IInv
\* A call that goes on attests the first span if it comes to its last step.
<1>1. ASSUME NEW s \in Server, NEW call, calls' = [calls EXCEPT ![s] = call],
             call.pc = "create" => AttestsFirst(call.evidence), UNCHANGED tasks
      PROVE  AttestedInTime'
  <2>1. calls'[s] = call /\ \A q \in Server \ {s} : calls'[q] = calls[q]
    BY <1>0, <1>1 DEF TypeOK
  <2> QED
    BY <1>1, <2>1 DEF AttestedInTime
<1>2. ASSUME NEW s \in Server, NEW k \in Key, NEW c \in Conversation, NEW m \in Message,
             Begin(s, k, c, m)
      PROVE  AttestedInTime'
  <2> DEFINE call == [pc |-> "look", input |->
               [key |-> k, conversation |-> c, message |-> m,
                late |-> IsAnswered([key |-> k, conversation |-> c, message |-> m])]]
  <2>1. calls' = [calls EXCEPT ![s] = call] /\ UNCHANGED tasks /\ call.pc = "look"
    BY <1>2 DEF Begin
  <2> HIDE DEF call
  <2> QED
    BY <1>1, <2>1
<1>3. ASSUME NEW s \in Server, Look(s) PROVE AttestedInTime'
  <2> DEFINE input == calls[s].input
             found == [pc |-> "create", late |-> input.late,
                       evidence |-> tasks[receipts[input.key]].evidence]
             missed == [pc |-> "issue", input |-> input]
  <2>1. input \in Input
    BY <1>0, <1>3, CallFields DEF Look
  <2>2. Found(input) => AttestsFirst(tasks[receipts[input.key]].evidence)
    BY <2>1, AnsweredByOwnTask DEF Found, AttestedInTime
  <2>3. /\ calls' = [calls EXCEPT ![s] = IF Found(input) THEN found ELSE missed]
        /\ UNCHANGED tasks
    BY <1>3 DEF Look
  <2>4. /\ found.pc = "create" /\ found.evidence = tasks[receipts[input.key]].evidence
        /\ missed.pc = "issue"
    OBVIOUS
  <2> HIDE DEF input, found, missed
  <2> QED
    BY <1>1, <2>2, <2>3, <2>4
<1>4. ASSUME NEW s \in Server, Issue(s) PROVE AttestedInTime'
  <2> DEFINE input == calls[s].input
             evidence == [key |-> input.key, conversation |-> input.conversation,
                          message |-> input.message, issued |-> now,
                          start |-> Min(Spans[input.message])]
             call == [pc |-> "create", late |-> input.late, evidence |-> evidence]
  <2>1. calls' = [calls EXCEPT ![s] = call] /\ UNCHANGED tasks
    BY <1>4 DEF Issue
  <2>2. AttestsFirst(evidence)
    BY <1>4 DEF Issue, AttestsFirst
  <2>3. call.evidence = evidence
    OBVIOUS
  <2> HIDE DEF evidence, call
  <2> QED
    BY <1>1, <2>1, <2>2, <2>3
<1>5. ASSUME NEW s \in Server, CreateTask(s) PROVE AttestedInTime'
  <2> DEFINE e == calls[s].evidence
             row == [evidence |-> e, created |-> now, live |-> TRUE]
  <2>1. /\ calls' = [calls EXCEPT ![s] = NoCall]
        /\ tasks' = Append(tasks, row)
        /\ now - MaxAge <= e.issued
        /\ AttestsFirst(e)
    BY <1>5 DEF CreateTask, Leave, Verifies, AttestedInTime
  <2>2. e \in Evidence
    BY <1>0, <1>5, CallFields DEF CreateTask
  <2>3. now \in Nat /\ e.issued \in Nat /\ MaxAge \in Nat
    BY <1>0, <2>2, IngressConstants DEF TypeOK, Evidence
  <2>4. now - e.issued <= MaxAge
    BY <2>1, <2>3
  <2>5. row \in Row
    BY <1>0, <2>2 DEF Row, TypeOK
  <2>6. tasks \in Seq(Row)
    BY <1>0 DEF TypeOK, Row
  <2>7. row.evidence = e /\ row.created = now
    OBVIOUS
  <2> HIDE DEF e, row
  <2>8. \A n \in DOMAIN tasks' : \/ n \in DOMAIN tasks /\ tasks'[n] = tasks[n]
                              \/ tasks'[n] = row
    BY <2>1, <2>5, <2>6
  <2>9. calls'[s].pc = "idle" /\ \A q \in Server \ {s} : calls'[q] = calls[q]
    BY <1>0, <2>1 DEF TypeOK, NoCall
  <2> QED
    BY <2>1, <2>4, <2>7, <2>8, <2>9 DEF AttestedInTime
<1>6. ASSUME NEW s \in Server, Return(s) PROVE AttestedInTime'
  <2>1. calls' = [calls EXCEPT ![s] = NoCall] /\ UNCHANGED tasks /\ NoCall.pc = "idle"
    BY <1>6 DEF Return, Leave, NoCall
  <2> QED
    BY <1>1, <2>1
<1>7. ASSUME NEW n \in DOMAIN tasks, End(n) PROVE AttestedInTime'
  <2>1. tasks' = [tasks EXCEPT ![n] = [tasks[n] EXCEPT !.live = FALSE]] /\ UNCHANGED calls
    BY <1>7 DEF End
  <2>2. tasks \in Seq(Row) /\ tasks[n] \in Row
    BY <1>0, RowFields DEF TypeOK, Row
  <2>3. /\ [tasks[n] EXCEPT !.live = FALSE].evidence = tasks[n].evidence
        /\ [tasks[n] EXCEPT !.live = FALSE].created = tasks[n].created
    BY <2>2 DEF Row
  <2>4. \A m \in DOMAIN tasks' : /\ m \in DOMAIN tasks
                                 /\ tasks'[m].evidence = tasks[m].evidence
                                 /\ tasks'[m].created = tasks[m].created
    BY <2>1, <2>2, <2>3
  <2> QED
    BY <2>1, <2>4 DEF AttestedInTime
<1>8. CASE Tick \/ UNCHANGED vars
  BY <1>8 DEF Tick, vars, AttestedInTime
<1> QED
  BY <1>2, <1>3, <1>4, <1>5, <1>6, <1>7, <1>8 DEF Next

ScannerIsRight == \A m \in Message : Eligible(m) = TopLevel(m)

(***************************************************************************)
(* For any connectors and any age: if the scanner finds in the messages    *)
(* what is at their top level, a Task stands on the first phrase the user  *)
(* wrote there, attested shortly before the Task was created.              *)
(***************************************************************************)
THEOREM AttestedTasks == ScannerIsRight => (Spec => []TasksAreAttested)
<1> SUFFICES ASSUME ScannerIsRight PROVE Spec => []TasksAreAttested
  OBVIOUS
<1>1. Init => AttestedInTime
  BY DEF Init, AttestedInTime, NoCall
<1>2. Phrases = Spans
  BY DEF ScannerIsRight, Phrases, Spans
<1>3. IInv /\ AttestedInTime => TasksAreAttested
  BY <1>2 DEF AttestedInTime, AttestsFirst, TasksAreAttested
<1> QED
  BY <1>1, <1>3, Invariance, AttestedStep, PTL DEF Spec
=============================================================================
