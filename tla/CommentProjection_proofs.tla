---------------------- MODULE CommentProjection_proofs ----------------------
(***************************************************************************)
(* Proofs about CommentProjection, for any number of projectors and any    *)
(* limits: the comment is posted once, and the promise of a delivery that  *)
(* is made once is kept.                                                   *)
(***************************************************************************)
EXTENDS CommentProjection, TLAPS

(***************************************************************************)
(* Why it is posted once.  As long as the pull request shows no comment,   *)
(* at most one call is free to post or to let the next one post, nothing   *)
(* was posted while there is such a call, and there is none while the row  *)
(* is READY or RETRY, from which the next one comes.  A lease that runs    *)
(* out ends this for good: whoever takes it over is in doubt.              *)
(***************************************************************************)
MayPost(p) ==
  /\ ~proc[p].unsure
  /\ \/ proc[p].pc \in {"find", "create"}
     \/ proc[p].pc = "settle" /\ proc[p].outcome = "TROUBLE"

Numbered == \A p \in Projector : proc[p].pc # "idle" => proc[p].claim \in 1..MaxClaims

Untouched == ~row.bound =>
  /\ row.status \in {"NONE", "UNKNOWN"} /\ posted = {}
  /\ \A p \in Projector : proc[p].pc = "idle"

Fresh == listed = {} /\ row.status \in {"READY", "RETRY"} =>
           posted = {} /\ \A p \in Projector : ~MayPost(p)

Sole == listed = {} => \A p \in Projector : MayPost(p) =>
          posted = {} /\ \A q \in Projector : MayPost(q) => q = p

Creating == \A p \in Projector : proc[p].pc = "create" => ~proc[p].unsure /\ posted = {}

Looked ==
  \A p \in Projector :
    \/ proc[p].pc = "update"
    \/ proc[p].pc = "settle" /\ proc[p].outcome = "TROUBLE" /\ proc[p].unsure
    => listed # {}

SuccessWasAccepted ==
  \A p \in Projector : proc[p].pc = "settle" /\ proc[p].outcome = "SENT" => accepted # {}

IInv == /\ TypeOK
        /\ Numbered /\ Untouched /\ Fresh /\ Sole /\ Creating /\ Looked
        /\ SuccessWasAccepted /\ PostsOnce

\* Initially nobody projects and nothing is posted.
LEMMA InitIInv == Init => IInv
<1> SUFFICES ASSUME Init PROVE IInv
  OBVIOUS
<1>1. Idle \in CallType /\ Idle.pc = "idle"
  BY DEF Idle, CallType, Outcome
<1>2. \A p \in Projector : proc[p].pc = "idle"
  BY <1>1 DEF Init
<1>3. row \in RowType
  BY DEF Init, RowType, RowStatus
<1>4. TypeOK
  BY <1>1, <1>3 DEF Init, TypeOK
<1>5. \A p \in Projector : ~MayPost(p)
  BY <1>2 DEF MayPost
<1> QED  BY <1>2, <1>4, <1>5 DEF Init, IInv, Numbered, Untouched, Fresh, Sole, Creating, Looked,
                                SuccessWasAccepted, PostsOnce

\* A call of p goes on as next, which is of the right type; the others stay.
LEMMA Calling ==
  ASSUME TypeOK, NEW p \in Projector, NEW next \in CallType, Call(p, next)
  PROVE  /\ proc' \in [Projector -> CallType]
         /\ proc'[p] = next
         /\ \A q \in Projector \ {p} : proc'[q] = proc[q]
BY DEF TypeOK, Call

\* A call that ends takes an outcome to its settlement and is otherwise as it was.
LEMMA Ending ==
  ASSUME TypeOK, NEW p \in Projector, NEW outcome \in Outcome, Ends(p, outcome)
  PROVE  /\ proc' \in [Projector -> CallType]
         /\ proc'[p].pc = "settle" /\ proc'[p].outcome = outcome
         /\ proc'[p].claim = proc[p].claim /\ proc'[p].unsure = proc[p].unsure
         /\ \A q \in Projector \ {p} : proc'[q] = proc[q]
<1> DEFINE next == [proc[p] EXCEPT !.pc = "settle", !.outcome = outcome]
<1>1. /\ next \in CallType /\ next.pc = "settle" /\ next.outcome = outcome
      /\ next.claim = proc[p].claim /\ next.unsure = proc[p].unsure
  BY DEF TypeOK, CallType
<1>2. Call(p, next)
  BY DEF Ends
<1> HIDE DEF next
<1> QED  BY <1>1, <1>2, Calling

\* A lookup that goes on to update or to create.
LEMMA Advancing ==
  ASSUME TypeOK, NEW p \in Projector, NEW pc \in {"update", "create"},
         Call(p, [proc[p] EXCEPT !.pc = pc])
  PROVE  /\ proc' \in [Projector -> CallType]
         /\ proc'[p].pc = pc
         /\ proc'[p].claim = proc[p].claim /\ proc'[p].unsure = proc[p].unsure
         /\ \A q \in Projector \ {p} : proc'[q] = proc[q]
<1> DEFINE next == [proc[p] EXCEPT !.pc = pc]
<1>1. /\ next \in CallType /\ next.pc = pc
      /\ next.claim = proc[p].claim /\ next.unsure = proc[p].unsure
  BY DEF TypeOK, CallType
<1>2. Call(p, next)
  OBVIOUS
<1> HIDE DEF next
<1> QED  BY <1>1, <1>2, Calling

\* A step of p that posts nothing, leaves the row alone and is not freer to post than before.
LEMMA QuietCall ==
  ASSUME IInv, NEW p \in Projector,
         proc' \in [Projector -> CallType],
         \A q \in Projector \ {p} : proc'[q] = proc[q],
         proc[p].pc # "idle", proc'[p].claim = proc[p].claim,
         MayPost(p)' => MayPost(p),
         proc'[p].pc = "create" => MayPost(p) /\ listed = {} /\ ~proc'[p].unsure,
         proc'[p].pc = "update" => listed # {},
         proc'[p].pc = "settle" /\ proc'[p].outcome = "TROUBLE" /\ proc'[p].unsure => listed # {},
         proc'[p].pc = "settle" /\ proc'[p].outcome = "SENT" => accepted # {},
         UNCHANGED <<bound, row, posted, accepted, listed>>, edited' \in BOOLEAN
  PROVE  IInv'
<1>1. \A q \in Projector : MayPost(q)' => MayPost(q)
  BY DEF MayPost
<1>2. TypeOK' /\ PostsOnce'
  BY DEF IInv, TypeOK, PostsOnce
<1>3. Numbered' /\ Untouched' /\ Looked' /\ SuccessWasAccepted'
  BY DEF IInv, Numbered, Untouched, Looked, SuccessWasAccepted
<1>4. Fresh' /\ Sole'
  BY <1>1 DEF IInv, Fresh, Sole
<1>5. Creating'
  BY DEF IInv, Creating, Sole
<1> QED  BY <1>2, <1>3, <1>4, <1>5 DEF IInv

\* The lookup and what it leads to.
LEMMA FindStep == ASSUME IInv, NEW p \in Projector, Find(p) PROVE IInv'
<1>1. /\ proc[p].pc = "find" /\ proc[p].unsure \in BOOLEAN /\ TypeOK /\ edited' = edited
      /\ UNCHANGED <<bound, row, posted, accepted, listed>> /\ edited' \in BOOLEAN
  BY DEF Find, github, IInv, TypeOK, CallType
<1>2. CASE listed # {} /\ Call(p, [proc[p] EXCEPT !.pc = "update"])
  BY <1>1, <1>2, Advancing, QuietCall DEF MayPost
<1>3. CASE listed = {} /\ ~proc[p].unsure /\ Call(p, [proc[p] EXCEPT !.pc = "create"])
  BY <1>1, <1>3, Advancing, QuietCall DEF MayPost
<1>4. CASE Ends(p, "SENT") /\ listed # {}
  <2>1. accepted # {}
    BY <1>1, <1>4 DEF TypeOK
  <2> QED  BY <1>1, <1>4, <2>1, Ending, QuietCall DEF MayPost, Outcome
<1>5. CASE Ends(p, "MISSED") \/ Ends(p, "LOST") \/ Ends(p, "REFUSED")
  <2>1. PICK outcome \in {"MISSED", "LOST", "REFUSED"} : Ends(p, outcome)
    BY <1>5
  <2> QED  BY <1>1, <2>1, Ending, QuietCall DEF MayPost, Outcome
<1>6. CASE ~proc[p].unsure /\ Ends(p, "TROUBLE")
  BY <1>1, <1>6, Ending, QuietCall DEF MayPost, Outcome
<1> QED  BY <1>2, <1>3, <1>4, <1>5, <1>6 DEF Find

\* The update of a comment that was found.
LEMMA UpdateStep == ASSUME IInv, NEW p \in Projector, Update(p) PROVE IInv'
<1>1. /\ proc[p].pc = "update" /\ TypeOK /\ listed # {} /\ edited' \in BOOLEAN
      /\ UNCHANGED <<bound, row, posted, accepted, listed>>
  BY DEF Update, IInv, TypeOK, Looked
<1>2. accepted # {}
  BY <1>1 DEF TypeOK
<1>3. PICK outcome \in {"SENT", "TROUBLE", "REFUSED"} : Ends(p, outcome)
  BY DEF Update
<1>4. /\ proc' \in [Projector -> CallType]
      /\ proc'[p].pc = "settle" /\ proc'[p].claim = proc[p].claim
      /\ \A q \in Projector \ {p} : proc'[q] = proc[q]
  BY <1>1, <1>3, Ending DEF Outcome
<1>5. TypeOK' /\ PostsOnce'
  BY <1>1, <1>4 DEF IInv, TypeOK, PostsOnce
<1>6. Numbered' /\ Untouched' /\ Looked' /\ SuccessWasAccepted'
  BY <1>1, <1>2, <1>4 DEF IInv, Numbered, Untouched, Looked, SuccessWasAccepted
<1>7. Fresh' /\ Sole' /\ Creating'
  BY <1>1, <1>4 DEF IInv, Fresh, Sole, Creating
<1> QED  BY <1>5, <1>6, <1>7 DEF IInv

\* The POST: the only call that was free to make it is not free any more.
LEMMA CreateStep == ASSUME IInv, NEW p \in Projector, Create(p) PROVE IInv'
<1>1. /\ proc[p].pc = "create" /\ TypeOK /\ posted = {} /\ ~proc[p].unsure
      /\ proc[p].claim \in Nat
  BY DEF Create, IInv, Creating, TypeOK, CallType
<1>2. accepted = {} /\ listed = {}
  BY <1>1 DEF TypeOK
<1>3. \A q \in Projector \ {p} : ~MayPost(q)
  BY <1>1, <1>2 DEF MayPost, IInv, Sole
<1>4. PICK outcome \in {"SENT", "LOST", "REFUSED"} :
        /\ Ends(p, outcome)
        /\ outcome = "SENT" => accepted' # {}
  BY DEF Create, NoAnswer
<1>5. /\ posted' = {proc[p].claim}
      /\ accepted' \in SUBSET posted' /\ listed' \in SUBSET accepted'
      /\ UNCHANGED <<bound, row, edited>>
  BY <1>1, <1>2 DEF Create
<1>6. /\ proc' \in [Projector -> CallType]
      /\ proc'[p].pc = "settle" /\ proc'[p].outcome = outcome
      /\ proc'[p].claim = proc[p].claim
      /\ \A q \in Projector \ {p} : proc'[q] = proc[q]
  BY <1>1, <1>4, Ending DEF Outcome
<1>7. \A q \in Projector : ~MayPost(q)'
  BY <1>3, <1>4, <1>6 DEF MayPost
<1>8. TypeOK' /\ PostsOnce'
  BY <1>1, <1>5, <1>6 DEF TypeOK, PostsOnce
<1>9. Numbered' /\ Untouched'
  BY <1>1, <1>5, <1>6 DEF IInv, Numbered, Untouched
<1>10. Creating'
  BY <1>3, <1>6 DEF IInv, Creating, MayPost
<1>11. \A q \in Projector : ~(proc[q].pc = "settle" /\ proc[q].outcome = "TROUBLE" /\ proc[q].unsure)
                            /\ proc[q].pc # "update"
  BY <1>2 DEF IInv, Looked
<1>12. Looked' /\ SuccessWasAccepted'
  <2>1. Looked'
    BY <1>4, <1>6, <1>11 DEF Looked
  <2>2. SuccessWasAccepted'
    BY <1>2, <1>4, <1>6 DEF IInv, SuccessWasAccepted
  <2> QED  BY <2>1, <2>2
<1>13. Sole'
  BY <1>7 DEF Sole
<1>14. Fresh'
  BY <1>1, <1>2, <1>5 DEF IInv, Fresh, MayPost
<1> QED  BY <1>8, <1>9, <1>10, <1>12, <1>13, <1>14 DEF IInv

\* A call that is over; a row it leaves ready to be tried again is fresh.
LEMMA OverStep ==
  ASSUME IInv, NEW p \in Projector, proc[p].pc # "idle", Call(p, Idle),
         row' \in RowType, row'.bound = row.bound,
         \/ row'.status \notin {"READY", "RETRY"}
         \/ row'.status = row.status
         \/ listed = {} => MayPost(p),
         UNCHANGED <<bound, posted, accepted, listed, edited>>
  PROVE  IInv'
<1>1. Idle \in CallType /\ Idle.pc = "idle"
  BY DEF Idle, CallType, Outcome
<1>2. /\ proc' \in [Projector -> CallType] /\ proc'[p] = Idle
      /\ \A q \in Projector \ {p} : proc'[q] = proc[q]
  BY <1>1, Calling DEF IInv
<1>3. ~MayPost(p)' /\ \A q \in Projector : MayPost(q)' => MayPost(q)
  BY <1>1, <1>2 DEF MayPost
<1>4. TypeOK' /\ PostsOnce'
  BY <1>2 DEF IInv, TypeOK, PostsOnce
<1>5. Numbered' /\ Creating' /\ Looked' /\ SuccessWasAccepted'
  BY <1>1, <1>2 DEF IInv, Numbered, Creating, Looked, SuccessWasAccepted
<1>6. Untouched'
  BY DEF IInv, Untouched
<1>7. Sole'
  BY <1>3 DEF IInv, Sole
<1>8. Fresh'
  BY <1>3 DEF IInv, Fresh, Sole
<1> QED  BY <1>4, <1>5, <1>6, <1>7, <1>8 DEF IInv

\* The settlement.
LEMMA SettleStep == ASSUME IInv, NEW p \in Projector, Settle(p) PROVE IInv'
<1>1. /\ proc[p].pc = "settle" /\ Call(p, Idle) /\ row \in RowType
      /\ proc[p].outcome \in Outcome /\ proc[p].unsure \in BOOLEAN
      /\ UNCHANGED <<bound, posted, accepted, listed, edited>>
  BY DEF Settle, github, IInv, TypeOK, CallType
<1>2. CASE row' = row
  BY <1>1, <1>2, OverStep
<1>3. CASE row' = [row EXCEPT !.status = SettledStatus(proc[p].outcome)]
  <2>1. /\ SettledStatus(proc[p].outcome) \in RowStatus \ {"READY"}
        /\ SettledStatus(proc[p].outcome) = "RETRY" => proc[p].outcome = "TROUBLE"
    BY <1>1 DEF SettledStatus, Outcome, RowStatus
  <2>2. /\ row' \in RowType /\ row'.bound = row.bound
        /\ row'.status = SettledStatus(proc[p].outcome)
    BY <1>1, <1>3, <2>1 DEF RowType
  <2>3. row'.status = "RETRY" => (listed = {} => MayPost(p))
    BY <1>1, <2>1, <2>2 DEF MayPost, IInv, Looked
  <2> QED  BY <1>1, <2>1, <2>2, <2>3, OverStep
<1> QED  BY <1>2, <1>3 DEF Settle

\* A claim: free to post only if the row was fresh.
LEMMA ClaimStep == ASSUME IInv, NEW p \in Projector, Claim(p) PROVE IInv'
<1> DEFINE next == [pc |-> "find", claim |-> row.attempts + 1, unsure |-> Unsure, outcome |-> "SENT"]
<1>1. row \in RowType /\ row.attempts \in Nat /\ row.attempts < MaxClaims /\ row.bound
  BY DEF IInv, TypeOK, RowType, Claim, Ready
<1>2. /\ next \in CallType /\ next.pc = "find" /\ next.claim = row.attempts + 1
      /\ next.unsure = Unsure
  BY <1>1 DEF CallType, Outcome, Unsure
<1>3. Call(p, next) /\ UNCHANGED <<bound, posted, accepted, listed, edited>>
  BY DEF Claim, github
<1> HIDE DEF next
<1>4. /\ proc' \in [Projector -> CallType] /\ proc'[p] = next
      /\ \A q \in Projector \ {p} : proc'[q] = proc[q]
  BY <1>2, <1>3, Calling DEF IInv
<1>5. row' \in RowType /\ row'.bound /\ row'.status = "LEASED"
  <2>1. row' = [row EXCEPT !.status = "LEASED", !.attempts = row.attempts + 1, !.due = FALSE]
    BY DEF Claim
  <2>2. row.attempts + 1 \in Nat
    BY <1>1
  <2> QED  BY <1>1, <2>1, <2>2 DEF RowType, RowStatus
<1>6. TypeOK' /\ PostsOnce'
  BY <1>3, <1>4, <1>5 DEF IInv, TypeOK, PostsOnce
<1>7. next.claim \in 1..MaxClaims
  BY <1>1, <1>2, ProjectionAssumption
<1>8. Numbered' /\ Untouched' /\ Fresh'
  BY <1>4, <1>5, <1>7 DEF IInv, Numbered, Untouched, Fresh
<1>9. Creating' /\ Looked' /\ SuccessWasAccepted'
  BY <1>2, <1>3, <1>4 DEF IInv, Creating, Looked, SuccessWasAccepted
<1>10. \A q \in Projector \ {p} : MayPost(q)' => MayPost(q)
  BY <1>4 DEF MayPost
<1>11. Sole'
  <2> SUFFICES ASSUME listed' = {}, NEW q \in Projector, MayPost(q)'
               PROVE  posted' = {} /\ \A r \in Projector : MayPost(r)' => r = q
    BY DEF Sole
  <2>1. listed = {} /\ posted' = posted
    BY <1>3
  <2>2. CASE Unsure
    <3>1. ~MayPost(p)'
      BY <1>2, <1>4, <2>2 DEF MayPost
    <3> QED  BY <1>10, <2>1, <3>1 DEF IInv, Sole
  <2>3. CASE ~Unsure
    <3>1. row.status \in {"READY", "RETRY"}
      BY <2>3 DEF Claim, Ready, Unsure
    <3>2. posted = {} /\ \A r \in Projector : ~MayPost(r)
      BY <2>1, <3>1 DEF IInv, Fresh
    <3> QED  BY <1>10, <2>1, <3>2
  <2> QED  BY <2>2, <2>3
<1> QED  BY <1>6, <1>8, <1>9, <1>11 DEF IInv

\* Every step keeps the invariant: one step per action.
LEMMA NextIInv == IInv /\ [Next]_vars => IInv'
<1> SUFFICES ASSUME IInv, [Next]_vars PROVE IInv'
  OBVIOUS
<1>1. row \in RowType
  BY DEF IInv, TypeOK
<1>2. CASE Bind
  <2>1. bound' = TRUE /\ UNCHANGED <<row, proc, posted, accepted, listed, edited>>
    BY <1>2 DEF Bind, github
  <2> QED  BY <2>1 DEF IInv, TypeOK, Numbered, Untouched, Fresh, Sole, Creating, Looked,
                       SuccessWasAccepted, PostsOnce, MayPost
<1>3. CASE Enqueue
  <2>1. /\ posted = {} /\ \A p \in Projector : proc[p].pc = "idle"
        /\ UNCHANGED <<bound, proc, posted, accepted, listed, edited>>
    BY <1>3 DEF Enqueue, NeedsText, github, IInv, Untouched
  <2>2. row' \in RowType /\ row'.bound
    BY <1>1, <1>3 DEF Enqueue, RowType, RowStatus
  <2> QED  BY <2>1, <2>2 DEF IInv, TypeOK, Numbered, Untouched, Fresh, Sole, Creating, Looked,
                            SuccessWasAccepted, PostsOnce, MayPost
<1>4. ASSUME NEW p \in Projector, Project(p) PROVE IInv'
  BY <1>4, ClaimStep, FindStep, UpdateStep, CreateStep, SettleStep DEF Project
<1>5. ASSUME NEW p \in Projector, Crash(p) PROVE IInv'
  BY <1>1, <1>5, OverStep DEF Crash, github
<1>6. CASE Due
  <2>1. /\ row' \in RowType /\ row'.bound = row.bound /\ row'.status = row.status
        /\ UNCHANGED <<bound, proc, posted, accepted, listed, edited>>
    BY <1>1, <1>6 DEF Due, RowType, github
  <2> QED  BY <2>1 DEF IInv, TypeOK, Numbered, Untouched, Fresh, Sole, Creating, Looked,
                       SuccessWasAccepted, PostsOnce, MayPost
<1>7. CASE List
  <2>1. /\ listed' \in SUBSET accepted /\ listed' # {}
        /\ UNCHANGED <<bound, row, proc, posted, accepted, edited>>
    BY <1>7 DEF List, IInv, TypeOK
  <2> QED  BY <2>1 DEF IInv, TypeOK, Numbered, Untouched, Fresh, Sole, Creating, Looked,
                       SuccessWasAccepted, PostsOnce, MayPost
<1>8. CASE Edit \/ UNCHANGED vars
  <2>1. edited' \in BOOLEAN /\ UNCHANGED <<bound, row, proc, posted, accepted, listed>>
    BY <1>8 DEF Edit, vars, IInv, TypeOK
  <2> QED  BY <2>1 DEF IInv, TypeOK, Numbered, Untouched, Fresh, Sole, Creating, Looked,
                       SuccessWasAccepted, PostsOnce, MayPost
<1> QED  BY <1>2, <1>3, <1>4, <1>5, <1>6, <1>7, <1>8 DEF Next

\* The invariant holds in every reachable state.
LEMMA Inductive == Spec => []IInv
BY InitIInv, NextIInv, PTL DEF Spec

(***************************************************************************)
(* However many processes project, crash or hang past their leases, and    *)
(* however late GitHub lists what it accepted, one POST at most is made.   *)
(***************************************************************************)
THEOREM PostedOnce == Spec => []PostsOnce
<1>1. IInv => PostsOnce
  BY DEF IInv
<1> QED  BY <1>1, Inductive, PTL

-----------------------------------------------------------------------------
(***************************************************************************)
(* CommentProjection implements DeliveryPromise with a single copy: a POST *)
(* is accepted only when none was before, a settlement confirms what was   *)
(* accepted or gives up, and nothing moves a row that is SENT or FAILED.   *)
(***************************************************************************)
THEOREM PromiseIsKept == Spec => KeepsPromise
<1> DEFINE state == IF row.status = "SENT" THEN "sent"
                    ELSE IF row.status = "FAILED" THEN "given up" ELSE "open"
<1>1. Init => Promise!Init
  BY DEF Init, Promise!Init
<1>2. IInv /\ [Next]_vars => [Promise!Next]_(Promise!vars)
  <2> SUFFICES ASSUME IInv, [Next]_vars PROVE Promise!Next \/ UNCHANGED <<state, accepted>>
    BY DEF Promise!vars
  <2>1. row \in RowType
    BY DEF IInv, TypeOK
  <2>2. CASE UNCHANGED <<accepted, row.status>>
    BY <2>2
  <2>3. ASSUME NEW p \in Projector, Create(p)
        PROVE  Promise!Next \/ UNCHANGED <<state, accepted>>
    <3>1. proc[p].claim \in 1..MaxClaims /\ posted = {}
      BY <2>3 DEF Create, IInv, Numbered, Creating
    <3>2. accepted = {}
      BY <3>1 DEF IInv, TypeOK
    <3>3. row' = row /\ (accepted' = accepted \/ accepted' = accepted \cup {proc[p].claim})
      BY <2>3 DEF Create
    <3> QED  BY <3>1, <3>2, <3>3 DEF Promise!Next, Promise!Accept
  <2>4. ASSUME NEW p \in Projector, Settle(p)
        PROVE  Promise!Next \/ UNCHANGED <<state, accepted>>
    <3>1. accepted' = accepted
      BY <2>4 DEF Settle, github
    <3>2. CASE ~HoldsLease(p)
      BY <2>4, <3>1, <3>2 DEF Settle
    <3>3. CASE HoldsLease(p)
      <4>1. row.status = "LEASED" /\ row'.status = SettledStatus(proc[p].outcome)
        BY <2>1, <2>4, <3>3 DEF Settle, HoldsLease, RowType
      <4>2. proc[p].outcome \in Outcome /\ (proc[p].outcome = "SENT" => accepted # {})
        BY <2>4 DEF Settle, IInv, TypeOK, CallType, SuccessWasAccepted
      <4>3. row'.status = "SENT" => accepted # {}
        BY <4>1, <4>2 DEF SettledStatus, Outcome
      <4> QED  BY <3>1, <4>1, <4>3 DEF Promise!Next, Promise!Confirm, Promise!GiveUp
    <3> QED  BY <3>2, <3>3
  <2>5. ASSUME Enqueue \/ \E p \in Projector : Claim(p)
        PROVE  UNCHANGED <<state, accepted>>
    <3>1. CASE \E p \in Projector : Claim(p)
      BY <2>1, <3>1 DEF Claim, Ready, RowType, github
    <3>2. CASE Enqueue
      BY <2>1, <3>2 DEF Enqueue, NeedsText, IInv, Untouched, RowType, github
    <3> QED  BY <2>5, <3>1, <3>2
  <2>6. ASSUME NEW p \in Projector, Find(p) \/ Update(p) \/ Crash(p)
        PROVE  UNCHANGED <<row, accepted>>
    BY <2>6 DEF Find, Update, Crash, github
  <2>7. CASE Due
    BY <2>1, <2>2, <2>7 DEF Due, RowType, github
  <2>8. CASE Bind \/ List \/ Edit \/ UNCHANGED vars
    BY <2>2, <2>8 DEF Bind, List, Edit, vars, github
  <2> QED  BY <2>2, <2>3, <2>4, <2>5, <2>6, <2>7, <2>8 DEF Next, Project
<1> QED  BY <1>1, <1>2, Inductive, PTL DEF Spec, KeepsPromise, Promise!Spec
=============================================================================
