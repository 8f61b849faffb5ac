------------------------- MODULE BuilderTools_proofs -------------------------
(***************************************************************************)
(* Proofs about BuilderTools and WorkerAssignments, for any keys, Workers, *)
(* plans and limits.  The inductive invariant, IInv below, has four parts  *)
(* beside the types:                                                       *)
(*   HandsOK    how assignments and uploads belong together                *)
(*   Based      the last assignment was made for the plan of now, from the *)
(*              first execution until there is nothing left to show for it *)
(*   Chained    the receipts of one key continue each other, and a call    *)
(*              that goes on has what they say                             *)
(*   Versioned  while the Task is at the version a command left behind,    *)
(*              what that command saw and wrote is still so                *)
(***************************************************************************)
EXTENDS BuilderTools, TLAPS

-----------------------------------------------------------------------------
(***************************************************************************)
(* Assignments and uploads, said of any values of the variables: only the  *)
(* last assignment is live; what was uploaded under an earlier claim is    *)
(* not younger than a later claim; what is completed has its evidence.     *)
(***************************************************************************)
LiveIn(rows) == {g \in DOMAIN rows : rows[g].status \in LiveStatus}

Proven(row, g, ups) ==
  /\ row.evidence \in DOMAIN ups
  /\ ups[row.evidence].by = row.worker
  /\ ups[row.evidence].under = g \/ ups[row.evidence].at = row.claimed

Handed(rows, ups, t) ==
  /\ rows \in Seq(Assignment) /\ ups \in Seq(Upload) /\ t \in 0..MaxTime
  /\ LiveIn(rows) \subseteq {Len(rows)}
  /\ \A a \in DOMAIN ups : ups[a].at <= t /\ ups[a].under \in DOMAIN rows
  /\ \A g \in DOMAIN rows :
       /\ rows[g].status \in {"CLAIMED", "COMPLETED"} => rows[g].claimed # NoTime
       /\ rows[g].claimed # NoTime =>
            \A a \in DOMAIN ups : ups[a].under < g => ups[a].at <= rows[g].claimed
       /\ rows[g].status = "COMPLETED" => Proven(rows[g], g, ups)

LEMMA Times ==
  /\ MaxTime \in Nat /\ LeaseTime \in Nat
  /\ NoTime \in Time /\ 0 \in Time /\ 0..MaxTime \subseteq Time /\ Time \subseteq Int
  /\ \A t \in 0..MaxTime : t \in Nat /\ t # NoTime /\ t + LeaseTime \in Time
<1>1. MaxTime \in Nat /\ LeaseTime \in Nat
  BY AssignmentConstants
<1> QED
  BY <1>1 DEF Time, NoTime

LEMMA SequenceFacts ==
  ASSUME NEW S, NEW q \in Seq(S)
  PROVE  Len(q) \in Nat /\ DOMAIN q = 1..Len(q) /\ \A n \in DOMAIN q : q[n] \in S
OBVIOUS

LEMMA SequenceGrows ==
  ASSUME NEW S, NEW q \in Seq(S), NEW e \in S
  PROVE  /\ Append(q, e) \in Seq(S) /\ Len(Append(q, e)) = Len(q) + 1
         /\ DOMAIN Append(q, e) = DOMAIN q \cup {Len(q) + 1} /\ Len(q) + 1 \notin DOMAIN q
         /\ Append(q, e)[Len(q) + 1] = e /\ \A n \in DOMAIN q : Append(q, e)[n] = q[n]
OBVIOUS

LEMMA SequenceChanges ==
  ASSUME NEW S, NEW q \in Seq(S), NEW e \in S, NEW n \in DOMAIN q
  PROVE  /\ [q EXCEPT ![n] = e] \in Seq(S) /\ Len([q EXCEPT ![n] = e]) = Len(q)
         /\ DOMAIN [q EXCEPT ![n] = e] = DOMAIN q
         /\ [q EXCEPT ![n] = e][n] = e
         /\ \A m \in DOMAIN q \ {n} : [q EXCEPT ![n] = e][m] = q[m]
OBVIOUS

LEMMA HandedTypes ==
  ASSUME NEW rows, NEW ups, NEW t, Handed(rows, ups, t)
  PROVE  /\ rows \in Seq(Assignment) /\ ups \in Seq(Upload)
         /\ Len(rows) \in Nat /\ DOMAIN rows = 1..Len(rows) /\ \A g \in DOMAIN rows : rows[g] \in Assignment
         /\ Len(ups) \in Nat /\ DOMAIN ups = 1..Len(ups)
         /\ \A a \in DOMAIN ups : ups[a].at \in Int /\ ups[a].under \in Nat
         /\ t \in Nat /\ LiveIn(rows) \subseteq {Len(rows)}
<1>1. rows \in Seq(Assignment) /\ ups \in Seq(Upload) /\ t \in 0..MaxTime
      /\ LiveIn(rows) \subseteq {Len(rows)}
  BY DEF Handed
<1>2. /\ Len(rows) \in Nat /\ DOMAIN rows = 1..Len(rows) /\ \A g \in DOMAIN rows : rows[g] \in Assignment
      /\ Len(ups) \in Nat /\ DOMAIN ups = 1..Len(ups) /\ \A a \in DOMAIN ups : ups[a] \in Upload
  BY <1>1, SequenceFacts
<1>3. \A up \in Upload : up.at \in Int /\ up.under \in Nat
  BY Times DEF Upload
<1> QED
  BY <1>1, <1>2, <1>3, Times

\* The live assignment changes: it is claimed, reported on, completed or fenced.
LEMMA RowChanges ==
  ASSUME NEW rows, NEW ups, NEW t, Handed(rows, ups, t),
         NEW g \in LiveIn(rows), NEW row \in Assignment,
         row.claimed # NoTime => row.claimed = rows[g].claimed \/ row.claimed = t,
         row.status \in {"CLAIMED", "COMPLETED"} => row.claimed # NoTime,
         row.status = "COMPLETED" => Proven(row, g, ups)
  PROVE  /\ Handed([rows EXCEPT ![g] = row], ups, t)
         /\ \A h \in DOMAIN rows \ LiveIn(rows) : [rows EXCEPT ![g] = row][h] = rows[h]
<1> DEFINE rows2 == [rows EXCEPT ![g] = row]
<1>1. /\ rows2 \in Seq(Assignment) /\ Len(rows2) = Len(rows) /\ DOMAIN rows2 = DOMAIN rows
      /\ rows2[g] = row /\ \A h \in DOMAIN rows \ {g} : rows2[h] = rows[h]
      /\ g \in DOMAIN rows
  <2>1. g \in DOMAIN rows
    BY DEF LiveIn
  <2> QED
    BY <2>1, HandedTypes, SequenceChanges
<1> HIDE DEF rows2
<1>2. LiveIn(rows2) \subseteq {Len(rows2)}
  BY <1>1 DEF Handed, LiveIn
<1>3. \A a \in DOMAIN ups : ups[a].at <= t /\ ups[a].under \in DOMAIN rows2
  BY <1>1 DEF Handed
<1>4. \A h \in DOMAIN rows2 :
        /\ rows2[h].status \in {"CLAIMED", "COMPLETED"} => rows2[h].claimed # NoTime
        /\ rows2[h].claimed # NoTime =>
             \A a \in DOMAIN ups : ups[a].under < h => ups[a].at <= rows2[h].claimed
        /\ rows2[h].status = "COMPLETED" => Proven(rows2[h], h, ups)
  <2> SUFFICES ASSUME NEW h \in DOMAIN rows2
               PROVE  /\ rows2[h].status \in {"CLAIMED", "COMPLETED"} => rows2[h].claimed # NoTime
                      /\ rows2[h].claimed # NoTime =>
                           \A a \in DOMAIN ups : ups[a].under < h => ups[a].at <= rows2[h].claimed
                      /\ rows2[h].status = "COMPLETED" => Proven(rows2[h], h, ups)
    OBVIOUS
  <2>1. CASE h = g
    BY <1>1, <2>1 DEF Handed
  <2>2. CASE h # g
    BY <1>1, <2>2 DEF Handed
  <2> QED
    BY <2>1, <2>2
<1>5. Handed(rows2, ups, t)
  BY <1>1, <1>2, <1>3, <1>4 DEF Handed
<1>6. \A h \in DOMAIN rows \ LiveIn(rows) : rows2[h] = rows[h]
  BY <1>1
<1> QED
  BY <1>5, <1>6 DEF rows2

\* A new assignment is offered when none is live.
LEMMA RowIsAdded ==
  ASSUME NEW rows, NEW ups, NEW t, Handed(rows, ups, t), LiveIn(rows) = {}, NEW plan \in Plans
  PROVE  /\ Handed(Append(rows, Offered(plan)), ups, t)
         /\ \A h \in DOMAIN rows : Append(rows, Offered(plan))[h] = rows[h]
         /\ Len(Append(rows, Offered(plan))) = Len(rows) + 1
         /\ Append(rows, Offered(plan))[Len(rows) + 1] = Offered(plan)
<1> DEFINE row == Offered(plan)
           rows2 == Append(rows, row)
<1>1. /\ row \in Assignment /\ row.status = "OFFERED" /\ row.claimed = NoTime
  BY AssignmentConstants DEF Offered, Assignment, LiveStatus, Time, NoTime
<1> HIDE DEF row
<1>2. /\ rows2 \in Seq(Assignment) /\ Len(rows2) = Len(rows) + 1 /\ Len(rows) \in Nat
      /\ DOMAIN rows2 = DOMAIN rows \cup {Len(rows) + 1} /\ Len(rows) + 1 \notin DOMAIN rows
      /\ rows2[Len(rows) + 1] = row /\ \A h \in DOMAIN rows : rows2[h] = rows[h]
  BY <1>1, HandedTypes, SequenceGrows
<1> HIDE DEF rows2
<1>3. LiveIn(rows2) \subseteq {Len(rows2)}
  BY <1>2 DEF LiveIn
<1>4. \A a \in DOMAIN ups : ups[a].at <= t /\ ups[a].under \in DOMAIN rows2
  BY <1>2 DEF Handed
<1>5. \A h \in DOMAIN rows2 :
        /\ rows2[h].status \in {"CLAIMED", "COMPLETED"} => rows2[h].claimed # NoTime
        /\ rows2[h].claimed # NoTime =>
             \A a \in DOMAIN ups : ups[a].under < h => ups[a].at <= rows2[h].claimed
        /\ rows2[h].status = "COMPLETED" => Proven(rows2[h], h, ups)
  BY <1>1, <1>2 DEF Handed
<1>6. Handed(rows2, ups, t)
  BY <1>2, <1>3, <1>4, <1>5 DEF Handed
<1> QED
  BY <1>2, <1>6 DEF rows2, row

\* An artifact is uploaded under the live claim.
LEMMA UploadIsAdded ==
  ASSUME NEW rows, NEW ups, NEW t, Handed(rows, ups, t),
         NEW g \in LiveIn(rows), NEW w \in Workers
  PROVE  Handed(rows, Append(ups, [by |-> w, at |-> t, under |-> g]), t)
<1> DEFINE up == [by |-> w, at |-> t, under |-> g]
           ups2 == Append(ups, up)
<1>1. up \in Upload /\ up.at = t /\ up.under = g /\ g = Len(rows) /\ g \in DOMAIN rows
  <2>1. g = Len(rows) /\ g \in DOMAIN rows /\ g \in Nat
    BY HandedTypes DEF LiveIn
  <2>2. t \in Time
    BY Times DEF Handed
  <2> QED
    BY <2>1, <2>2 DEF Upload
<1> HIDE DEF up
<1>2. /\ ups2 \in Seq(Upload)
      /\ DOMAIN ups2 = DOMAIN ups \cup {Len(ups) + 1} /\ Len(ups) + 1 \notin DOMAIN ups
      /\ ups2[Len(ups) + 1] = up /\ \A a \in DOMAIN ups : ups2[a] = ups[a]
  BY <1>1, HandedTypes, SequenceGrows
<1> HIDE DEF ups2
<1>3. t \in Nat /\ \A h \in DOMAIN rows : h <= g /\ ~(g < h)
  <2>1. Len(rows) \in Nat /\ DOMAIN rows = 1..Len(rows) /\ t \in Nat
    BY HandedTypes
  <2>2. \A h \in 1..Len(rows) : h <= Len(rows) /\ ~(Len(rows) < h)
    BY <2>1
  <2> QED
    BY <1>1, <2>1, <2>2
<1>4. \A a \in DOMAIN ups2 : ups2[a].at <= t /\ ups2[a].under \in DOMAIN rows
  <2>1. t <= t
    BY <1>3
  <2> QED
    BY <1>1, <1>2, <2>1 DEF Handed
<1>5. \A h \in DOMAIN rows :
        /\ rows[h].claimed # NoTime =>
             \A a \in DOMAIN ups2 : ups2[a].under < h => ups2[a].at <= rows[h].claimed
        /\ rows[h].status = "COMPLETED" => Proven(rows[h], h, ups2)
  <2> SUFFICES ASSUME NEW h \in DOMAIN rows
               PROVE  /\ rows[h].claimed # NoTime =>
                           \A a \in DOMAIN ups2 : ups2[a].under < h => ups2[a].at <= rows[h].claimed
                      /\ rows[h].status = "COMPLETED" => Proven(rows[h], h, ups2)
    OBVIOUS
  <2>1. ~(g < h)
    BY <1>3
  <2>2. rows[h].status = "COMPLETED" => Proven(rows[h], h, ups2)
    BY <1>2 DEF Handed, Proven
  <2> QED
    BY <1>1, <1>2, <2>1, <2>2 DEF Handed
<1> QED
  BY <1>2, <1>4, <1>5 DEF Handed, ups2, up

LEMMA TimePasses ==
  ASSUME NEW rows, NEW ups, NEW t \in 0..MaxTime, t < MaxTime, Handed(rows, ups, t)
  PROVE  Handed(rows, ups, t + 1)
<1>1. t \in Nat /\ t + 1 \in 0..MaxTime
  <2>1. MaxTime \in Nat
    BY AssignmentConstants
  <2> QED
    BY <2>1
<1>2. ASSUME NEW a \in DOMAIN ups PROVE ups[a].at <= t + 1
  <2>1. ups[a].at \in Int
    BY HandedTypes
  <2>2. ups[a].at <= t
    BY DEF Handed
  <2> QED
    BY <1>1, <2>1, <2>2
<1> QED
  BY <1>1, <1>2 DEF Handed

-----------------------------------------------------------------------------
(***************************************************************************)
(* The operations on assignments.                                          *)
(***************************************************************************)
HandsOK == Handed(assignments, uploads, now)

EndedStay == \A g \in Generations \ LiveGenerations : assignments'[g] = assignments[g]

LastPlan == assignments[Len(assignments)].plan

\* What the hands of Workers and the Supervisor do to the Task's work.
WorkGoesOn ==
  /\ HandsOK' /\ EndedStay
  /\ Len(assignments) > 0 => Len(assignments') > 0 /\ LastPlan' = LastPlan
  /\ WorkIsDone => WorkIsDone'

LEMMA HandsTypes ==
  ASSUME HandsOK
  PROVE  /\ assignments \in Seq(Assignment) /\ uploads \in Seq(Upload)
         /\ now \in 0..MaxTime /\ now \in Nat
         /\ Len(assignments) \in Nat /\ Generations = 1..Len(assignments)
         /\ \A g \in Generations : assignments[g] \in Assignment
         /\ LiveGenerations = LiveIn(assignments) /\ LiveGenerations \subseteq {Len(assignments)}
         /\ OneLiveAssignment /\ EvidenceOfTheClaim
         /\ WorkIsDone => LiveGenerations = {}
<1>1. now \in 0..MaxTime /\ LiveGenerations = LiveIn(assignments)
  BY DEF HandsOK, Handed, LiveGenerations, Generations, LiveIn
<1>2. /\ assignments \in Seq(Assignment) /\ uploads \in Seq(Upload) /\ now \in Nat
      /\ Len(assignments) \in Nat /\ Generations = 1..Len(assignments)
      /\ \A g \in Generations : assignments[g] \in Assignment
      /\ LiveGenerations \subseteq {Len(assignments)}
  BY <1>1, HandedTypes DEF HandsOK, Generations
<1>3. OneLiveAssignment /\ EvidenceOfTheClaim
  BY <1>2 DEF OneLiveAssignment, EvidenceOfTheClaim, HandsOK, Handed, Proven, Generations
<1>4. WorkIsDone => LiveGenerations = {}
  BY <1>2 DEF WorkIsDone, LiveGenerations, LiveStatus
<1> QED
  BY <1>1, <1>2, <1>3, <1>4

LEMMA RowKeeps ==
  ASSUME HandsOK, NEW g \in LiveGenerations, NEW row \in Assignment,
         row.plan = assignments[g].plan,
         row.claimed # NoTime => row.claimed = assignments[g].claimed \/ row.claimed = now,
         row.status \in {"CLAIMED", "COMPLETED"} => row.claimed # NoTime,
         row.status = "COMPLETED" => Proven(row, g, uploads),
         assignments' = [assignments EXCEPT ![g] = row], UNCHANGED <<uploads, now>>
  PROVE  WorkGoesOn
<1>1. LiveGenerations = LiveIn(assignments) /\ g = Len(assignments) /\ g \in Generations
  BY HandsTypes DEF LiveGenerations
<1>2. Handed([assignments EXCEPT ![g] = row], uploads, now) /\ EndedStay
  BY <1>1, RowChanges DEF HandsOK, EndedStay, Generations
<1>3. HandsOK'
  BY <1>2 DEF HandsOK
<1>4. Len(assignments') = Len(assignments) /\ assignments'[g] = row
  BY <1>1, HandsTypes, SequenceChanges DEF Generations
<1>5. ~WorkIsDone
  BY HandsTypes
<1> QED
  BY <1>1, <1>2, <1>3, <1>4, <1>5 DEF WorkGoesOn, LastPlan

LEMMA OfferKeeps ==
  ASSUME HandsOK, NEW row, row.plan \in Plans \cup {NoPlan}, Offer(row),
         UNCHANGED <<uploads, now>>
  PROVE  HandsOK' /\ EndedStay /\ Len(assignments') > 0 /\ LastPlan' = row.plan
<1> DEFINE plan == row.plan
<1>1. /\ plan \in Plans /\ LiveIn(assignments) = {} /\ Len(assignments) \in Nat
      /\ assignments' = Append(assignments, Offered(plan))
  BY HandsTypes DEF Offer
<1> HIDE DEF plan
<1>2. /\ Handed(Append(assignments, Offered(plan)), uploads, now)
      /\ \A h \in DOMAIN assignments : assignments'[h] = assignments[h]
      /\ Len(assignments') = Len(assignments) + 1
      /\ assignments'[Len(assignments) + 1] = Offered(plan)
  BY <1>1, RowIsAdded DEF HandsOK
<1>3. HandsOK' /\ EndedStay
  BY <1>1, <1>2 DEF HandsOK, EndedStay, Generations
<1>4. Len(assignments') > 0 /\ LastPlan' = plan
  BY <1>1, <1>2 DEF LastPlan, Offered
<1> QED
  BY <1>3, <1>4 DEF plan

LEMMA ClaimKeeps ==
  ASSUME HandsOK, NEW w \in Workers, Claim(w), UNCHANGED now
  PROVE  WorkGoesOn
<1>1. PICK g \in LiveGenerations :
        /\ assignments' = [assignments EXCEPT ![g] =
             [assignments[g] EXCEPT !.status = "CLAIMED", !.worker = w, !.lease = now + LeaseTime,
                                    !.claimed = now]]
        /\ UNCHANGED uploads
  BY DEF Claim
<1> DEFINE row == [assignments[g] EXCEPT !.status = "CLAIMED", !.worker = w,
                                         !.lease = now + LeaseTime, !.claimed = now]
<1>2. assignments[g] \in Assignment
  BY HandsTypes DEF LiveGenerations
<1>3. now \in Time /\ now + LeaseTime \in Time /\ now # NoTime
  BY HandsTypes, Times
<1>4. /\ row \in Assignment /\ row.plan = assignments[g].plan
      /\ row.claimed = now /\ row.status = "CLAIMED"
  BY <1>2, <1>3 DEF Assignment, LiveStatus
<1> HIDE DEF row
<1> QED
  BY <1>1, <1>3, <1>4, RowKeeps DEF row

LEMMA ProgressKeeps ==
  ASSUME HandsOK, NEW w \in Workers, Progress(w), UNCHANGED now
  PROVE  WorkGoesOn
<1>1. PICK g \in Generations :
        /\ InTime(w, g)
        /\ assignments' = [assignments EXCEPT ![g].progress = now, ![g].lease = now + LeaseTime]
        /\ UNCHANGED uploads
  BY DEF Progress
<1> DEFINE row == [assignments[g] EXCEPT !.progress = now, !.lease = now + LeaseTime]
<1>2. assignments[g] \in Assignment /\ assignments[g].status = "CLAIMED"
      /\ assignments[g].claimed # NoTime
  BY <1>1, HandsTypes DEF InTime, Holds, HandsOK, Handed, Generations
<1>3. now \in Time /\ now + LeaseTime \in Time
  BY HandsTypes, Times
<1>4. /\ row \in Assignment /\ row.plan = assignments[g].plan
      /\ row.claimed = assignments[g].claimed /\ row.status = "CLAIMED"
  BY <1>2, <1>3 DEF Assignment, LiveStatus
<1>5. assignments' = [assignments EXCEPT ![g] = row]
  BY <1>1, <1>2, HandsTypes DEF Assignment
<1>6. g \in LiveGenerations
  BY <1>1, <1>2 DEF LiveGenerations, LiveStatus
<1> HIDE DEF row
<1> QED
  BY <1>1, <1>2, <1>4, <1>5, <1>6, RowKeeps

LEMMA SubmitKeeps ==
  ASSUME HandsOK, NEW w \in Workers, SubmitEvidence(w), UNCHANGED now
  PROVE  WorkGoesOn
<1>1. PICK g \in Generations :
        /\ Holds(w, g)
        /\ uploads' = Append(uploads, [by |-> w, at |-> now, under |-> g])
        /\ UNCHANGED assignments
  BY DEF SubmitEvidence
<1>2. g \in LiveIn(assignments)
  BY <1>1, HandsTypes DEF Holds, LiveGenerations, LiveStatus
<1>3. Handed(assignments, Append(uploads, [by |-> w, at |-> now, under |-> g]), now)
  BY <1>2, UploadIsAdded DEF HandsOK
<1>4. HandsOK'
  BY <1>1, <1>3 DEF HandsOK
<1> QED
  BY <1>1, <1>4 DEF WorkGoesOn, EndedStay, LastPlan, WorkIsDone

LEMMA CompleteKeeps ==
  ASSUME HandsOK, NEW w \in Workers, NEW a \in DOMAIN uploads, Complete(w, a), UNCHANGED now
  PROVE  WorkGoesOn
<1>1. PICK g \in Generations :
        /\ InTime(w, g) /\ IsEvidence(a, g)
        /\ assignments' = [assignments EXCEPT ![g] =
             [assignments[g] EXCEPT !.status = "COMPLETED", !.lease = 0, !.evidence = a]]
        /\ UNCHANGED uploads
  BY DEF Complete
<1> DEFINE row == [assignments[g] EXCEPT !.status = "COMPLETED", !.lease = 0, !.evidence = a]
<1>2. /\ assignments[g] \in Assignment /\ assignments[g].status = "CLAIMED"
      /\ assignments[g].claimed # NoTime
      /\ uploads[a].under < g => uploads[a].at <= assignments[g].claimed
  BY <1>1, HandsTypes DEF InTime, Holds, HandsOK, Handed, Generations
<1>3. g \in LiveGenerations
  BY <1>1, <1>2 DEF LiveGenerations, LiveStatus
<1>4. a \in Nat /\ 0 \in Time
  BY HandsTypes, SequenceFacts, Times
<1>5. /\ row \in Assignment /\ row.plan = assignments[g].plan
      /\ row.claimed = assignments[g].claimed /\ row.worker = assignments[g].worker
      /\ row.status = "COMPLETED" /\ row.evidence = a
  BY <1>2, <1>4 DEF Assignment, LiveStatus
<1> HIDE DEF row
<1>6. uploads[a].by = row.worker
  BY <1>1, <1>5 DEF IsEvidence
<1>7. uploads[a].under = g \/ uploads[a].at = row.claimed
  <2>1. uploads[a].under \in Nat /\ uploads[a].at \in Int /\ uploads[a].under \in Generations
    BY HandedTypes DEF HandsOK, Handed, Generations
  <2>2. g = Len(assignments) /\ uploads[a].under <= Len(assignments) /\ g \in Nat
    BY <1>3, <2>1, HandsTypes
  <2>3. assignments[g].claimed \in Int
    BY <1>2, Times DEF Assignment
  <2>4. assignments[g].claimed <= uploads[a].at
    BY <1>1 DEF IsEvidence
  <2> QED
    BY <1>2, <1>5, <2>1, <2>2, <2>3, <2>4
<1>8. Proven(row, g, uploads)
  BY <1>5, <1>6, <1>7 DEF Proven
<1> QED
  BY <1>1, <1>2, <1>3, <1>5, <1>8, RowKeeps DEF row

LEMMA RecoverKeeps ==
  ASSUME HandsOK, Recover, UNCHANGED now
  PROVE  WorkGoesOn
<1>1. PICK g \in LiveGenerations :
        /\ LET fenced == [assignments EXCEPT ![g].status = "FROZEN", ![g].lease = 0]
           IN  assignments' = IF Executable
                              THEN Append(fenced, Offered(assignments[g].plan)) ELSE fenced
        /\ UNCHANGED uploads
  BY DEF Recover
<1> DEFINE row == [assignments[g] EXCEPT !.status = "FROZEN", !.lease = 0]
           fenced == [assignments EXCEPT ![g] = row]
           plan == assignments[g].plan
<1>2. /\ g \in LiveIn(assignments) /\ g = Len(assignments) /\ g \in DOMAIN assignments
      /\ assignments[g] \in Assignment
  BY HandsTypes DEF LiveGenerations, Generations
<1>3. /\ row \in Assignment /\ row.plan = plan /\ row.status = "FROZEN"
      /\ row.claimed = assignments[g].claimed /\ plan \in Plans
  BY <1>2, Times DEF Assignment, LiveStatus
<1>4. /\ [assignments EXCEPT ![g].status = "FROZEN", ![g].lease = 0] = fenced
      /\ assignments' = IF Executable THEN Append(fenced, Offered(plan)) ELSE fenced
  BY <1>1, <1>2, HandsTypes DEF Assignment
<1> HIDE DEF row, plan
<1>5. Handed(fenced, uploads, now) /\ \A h \in Generations \ LiveGenerations : fenced[h] = assignments[h]
  BY <1>2, <1>3, RowChanges, HandsTypes DEF HandsOK, Generations
<1>6. fenced[g] = row /\ Len(fenced) = Len(assignments) /\ DOMAIN fenced = Generations
  BY <1>2, <1>3, HandsTypes, SequenceChanges DEF Generations
<1> HIDE DEF fenced
<1>7. ~WorkIsDone /\ Len(assignments) > 0
  BY <1>1, <1>2, HandsTypes
<1>8. CASE ~Executable
  BY <1>1, <1>2, <1>3, <1>4, <1>5, <1>6, <1>7, <1>8
     DEF WorkGoesOn, HandsOK, EndedStay, LastPlan, plan
<1>9. CASE Executable
  <2>1. LiveIn(fenced) = {}
    BY <1>2, <1>3, <1>5, <1>6, HandedTypes DEF LiveIn, LiveStatus
  <2>2. /\ Handed(assignments', uploads, now)
        /\ \A h \in DOMAIN fenced : assignments'[h] = fenced[h]
        /\ Len(assignments') = Len(fenced) + 1
        /\ assignments'[Len(fenced) + 1] = Offered(plan)
    BY <1>3, <1>4, <1>5, <1>9, <2>1, RowIsAdded
  <2>3. HandsOK' /\ EndedStay
    BY <1>1, <1>5, <1>6, <2>2 DEF HandsOK, EndedStay
  <2>4. Len(assignments') > 0 /\ LastPlan' = plan
    BY <1>6, <2>2, HandsTypes DEF LastPlan, Offered
  <2> QED
    BY <1>2, <1>7, <2>3, <2>4 DEF WorkGoesOn, LastPlan, plan
<1> QED
  BY <1>8, <1>9

LEMMA CancelKeeps ==
  ASSUME HandsOK, CancelAssignments, UNCHANGED <<uploads, now>>
  PROVE  WorkGoesOn
<1>1. CASE LiveGenerations = {}
  <2>1. assignments' = assignments
    BY <1>1, HandsTypes DEF CancelAssignments, Generations
  <2> QED
    BY <2>1 DEF WorkGoesOn, HandsOK, EndedStay, LastPlan, WorkIsDone
<1>2. ASSUME NEW g \in LiveGenerations PROVE WorkGoesOn
  <2> DEFINE row == [assignments[g] EXCEPT !.status = "CANCELLED", !.lease = 0]
  <2>1. /\ LiveGenerations = {g} /\ g \in Generations
        /\ assignments[g] \in Assignment
    BY HandsTypes DEF LiveGenerations
  <2>2. /\ row \in Assignment /\ row.plan = assignments[g].plan /\ row.status = "CANCELLED"
        /\ row.claimed = assignments[g].claimed
    BY <2>1, Times DEF Assignment, LiveStatus
  <2>3. assignments' = [assignments EXCEPT ![g] = row]
    BY <2>1, HandsTypes DEF CancelAssignments, Generations
  <2> HIDE DEF row
  <2> QED
    BY <2>2, <2>3, RowKeeps
<1> QED
  BY <1>1, <1>2

-----------------------------------------------------------------------------
(***************************************************************************)
(* The rows, and the plan of the work.                                     *)
(***************************************************************************)
Rows ==
  /\ task \in TaskRow /\ packages \in Seq(PackageRow) /\ requests \in Seq(RequestRow)
  /\ calls \in [Keys -> CallRow] /\ receipts \in [Keys -> ReceiptRow]
  /\ task.package \in 0..Len(packages)
  /\ \A n \in DOMAIN requests : requests[n].package \in DOMAIN packages

UnderWay == {"EXECUTING", "SELF_TESTING", "FINAL_REVIEW_PENDING", "FINAL_CHANGES_REQUIRED",
             "ESCALATED"}

\* The last assignment was made for the plan of now, while there is something to show for it.
Based ==
  task.state \in UnderWay \/ task.package # 0 =>
    Len(assignments) > 0 /\ LastPlan = task.plan

\* What every command but those of a chain leaves behind.
OtherWork ==
  /\ task' \in TaskRow /\ task'.version > task.version
  /\ task'.package \in {0, task.package}
  /\ requests' \in Seq(RequestRow) /\ DOMAIN requests' = DOMAIN requests
  /\ \A n \in DOMAIN requests : /\ requests'[n].package = requests[n].package
                                /\ requests'[n].by = requests[n].by
  /\ HandsOK' /\ EndedStay /\ Based'

LEMMA RowWritten ==
  ASSUME task \in TaskRow, NEW row \in TaskRow, Write(row)
  PROVE  /\ task' \in TaskRow /\ task'.version = task.version + 1 /\ task'.version > task.version
         /\ task'.state = row.state /\ task'.rev = row.rev /\ task'.plan = row.plan
         /\ task'.tested = row.tested /\ task'.package = row.package
<1>1. task.version \in Nat /\ task.version + 1 \in Nat /\ task.version + 1 > task.version
  BY DEF TaskRow
<1>2. task' = [row EXCEPT !.version = task.version + 1]
  BY DEF Write
<1> HIDE DEF Write
<1> QED
  BY <1>1, <1>2 DEF TaskRow

LEMMA RequestsEnd ==
  ASSUME Rows, NEW status \in {"PENDING", "COMPLETED", "FAILED"}, EndRequest(status)
  PROVE  /\ requests' \in Seq(RequestRow) /\ DOMAIN requests' = DOMAIN requests
         /\ \A n \in DOMAIN requests : /\ requests'[n].package = requests[n].package
                                       /\ requests'[n].by = requests[n].by
<1> DEFINE row(n) == IF n \in Pending THEN [requests[n] EXCEPT !.status = status] ELSE requests[n]
<1>1. requests \in Seq(RequestRow) /\ Len(requests) \in Nat /\ DOMAIN requests = 1..Len(requests)
      /\ \A n \in DOMAIN requests : requests[n] \in RequestRow
  BY SequenceFacts DEF Rows
<1>2. \A n \in DOMAIN requests : /\ row(n) \in RequestRow
                                 /\ row(n).package = requests[n].package
                                 /\ row(n).by = requests[n].by
  BY <1>1 DEF RequestRow
<1>3. requests' = [n \in DOMAIN requests |-> row(n)]
  BY DEF EndRequest
<1> HIDE DEF row
<1>4. requests' \in Seq(RequestRow)
  BY <1>1, <1>2, <1>3
<1> QED
  BY <1>2, <1>3, <1>4

LEMMA SameRequests ==
  ASSUME Rows, UNCHANGED requests
  PROVE  /\ requests' \in Seq(RequestRow) /\ DOMAIN requests' = DOMAIN requests
         /\ \A n \in DOMAIN requests : /\ requests'[n].package = requests[n].package
                                       /\ requests'[n].by = requests[n].by
BY DEF Rows

LEMMA HandsUnchanged ==
  ASSUME HandsOK, UNCHANGED <<assignments, uploads, now>>
  PROVE  HandsOK' /\ EndedStay /\ LastPlan' = LastPlan /\ Len(assignments') = Len(assignments)
BY DEF HandsOK, EndedStay, LastPlan

LEMMA OthersKeep ==
  ASSUME Rows, HandsOK, Based, Others
  PROVE  OtherWork /\ packages' = packages /\ UNCHANGED <<uploads, now, calls, receipts>>
<1>1. UNCHANGED <<uploads, now, calls, receipts>> /\ task \in TaskRow
  BY DEF Others, Rows
<1>2. ASSUME NEW state \in {"DONE", "FINAL_CHANGES_REQUIRED", "FINAL_HUMAN_REVIEW"}, Reviewed(state)
      PROVE  OtherWork /\ packages' = packages
  <2> DEFINE row == [task EXCEPT !.state = state]
  <2>1. row \in TaskRow /\ row.plan = task.plan /\ row.package = task.package /\ row.state = state
        /\ Write(row)
    BY <1>1, <1>2 DEF Reviewed, TaskRow
  <2> HIDE DEF row
  <2>2. /\ UNCHANGED <<assignments, packages>> /\ EndRequest("COMPLETED")
        /\ task.state \in UnderWay
    BY <1>2 DEF Reviewed, UnderWay
  <2> QED
    BY <1>1, <2>1, <2>2, RowWritten, RequestsEnd, HandsUnchanged DEF OtherWork, Based
<1>3. ASSUME NEW state \in {"FINAL_CHANGES_REQUIRED", "FINAL_HUMAN_REVIEW"}, Rework(state)
      PROVE  OtherWork /\ packages' = packages
  <2>1. UNCHANGED <<packages, requests>>
    BY <1>3 DEF Rework
  <2>2. CASE \E row \in TaskRow : /\ row.state = "EXECUTING" /\ row.plan = task.plan
                                  /\ row.package = task.package
                                  /\ Offer(row) /\ Write(row)
    <3>1. PICK row \in TaskRow : /\ row.state = "EXECUTING" /\ row.plan = task.plan
                                 /\ row.package = task.package
                                 /\ Offer(row) /\ Write(row)
      BY <2>2
    <3>2. row.plan \in Plans \cup {NoPlan}
      BY DEF TaskRow
    <3>3. HandsOK' /\ EndedStay /\ Len(assignments') > 0 /\ LastPlan' = row.plan
      BY <1>1, <3>1, <3>2, OfferKeeps
    <3> QED
      BY <1>1, <2>1, <3>1, <3>3, RowWritten, SameRequests DEF OtherWork, Based
  <2>3. CASE \E row \in TaskRow : /\ row.state = "PLANNING" /\ row.package = 0
                                  /\ Write(row) /\ UNCHANGED assignments
    BY <1>1, <2>1, <2>3, RowWritten, SameRequests, HandsUnchanged DEF OtherWork, Based, UnderWay
  <2>4. /\ [task EXCEPT !.state = "EXECUTING"] \in TaskRow
        /\ [task EXCEPT !.state = "EXECUTING"].state = "EXECUTING"
        /\ [task EXCEPT !.state = "EXECUTING"].plan = task.plan
        /\ [task EXCEPT !.state = "EXECUTING"].package = task.package
    BY <1>1 DEF TaskRow
  <2>5. LET row == [task EXCEPT !.state = "PLANNING", !.plan = NoPlan, !.package = 0, !.tested = FALSE]
        IN  row \in TaskRow /\ row.state = "PLANNING" /\ row.package = 0
    BY <1>1 DEF TaskRow
  <2> QED
    BY <1>3, <2>2, <2>3, <2>4, <2>5 DEF Rework
<1>4. ASSUME NEW plan \in Plans, Replan(plan)
      PROVE  OtherWork /\ packages' = packages
  <2>1. /\ task' \in TaskRow /\ task'.version > task.version /\ task'.package = 0
        /\ task'.state = "PLAN_APPROVED"
    <3>1. /\ task.version \in Nat /\ task.version + 3 \in Nat /\ task.version + 3 > task.version
          /\ task.rev + 1 \in Nat
      BY <1>1 DEF TaskRow
    <3>2. task' = [task EXCEPT !.state = "PLAN_APPROVED", !.plan = plan, !.package = 0,
                               !.version = task.version + 3, !.rev = task.rev + 1]
      BY <1>1, <1>4 DEF Replan, TaskRow
    <3> QED
      BY <1>1, <3>1, <3>2 DEF TaskRow
  <2>2. UNCHANGED <<assignments, packages, requests>>
    BY <1>4 DEF Replan
  <2> QED
    BY <1>1, <2>1, <2>2, SameRequests, HandsUnchanged DEF OtherWork, Based, UnderWay
<1>5. ASSUME FailureGate PROVE OtherWork /\ packages' = packages
  <2> DEFINE row == [task EXCEPT !.state = "FINAL_HUMAN_REVIEW"]
  <2>1. row \in TaskRow /\ row.plan = task.plan /\ row.package = task.package
        /\ row.state = "FINAL_HUMAN_REVIEW" /\ Write(row)
    BY <1>1, <1>5 DEF FailureGate, TaskRow
  <2> HIDE DEF row
  <2>2. UNCHANGED <<assignments, packages>> /\ EndRequest("FAILED")
    BY <1>5 DEF FailureGate
  <2> QED
    BY <1>1, <2>1, <2>2, RowWritten, RequestsEnd, HandsUnchanged DEF OtherWork, Based, UnderWay
<1>6. ASSUME Escalate PROVE OtherWork /\ packages' = packages
  <2> DEFINE row == [task EXCEPT !.state = "ESCALATED"]
  <2>1. row \in TaskRow /\ row.plan = task.plan /\ row.package = task.package
        /\ row.state = "ESCALATED" /\ Write(row)
    BY <1>1, <1>6 DEF Escalate, TaskRow
  <2> HIDE DEF row
  <2>2. UNCHANGED <<assignments, packages, requests>> /\ task.state \in UnderWay
    BY <1>6 DEF Escalate, Executable, UnderWay
  <2> QED
    BY <1>1, <2>1, <2>2, RowWritten, SameRequests, HandsUnchanged DEF OtherWork, Based
<1>7. ASSUME Continue PROVE OtherWork /\ packages' = packages
  <2>1. UNCHANGED <<packages, requests>>
    BY <1>7 DEF Continue
  <2>2. PICK row \in TaskRow :
          /\ row.plan = task.plan /\ row.package = task.package /\ Write(row)
          /\ (UNCHANGED assignments /\ task.package # 0) \/ Offer(row)
    <3>1. \A state \in {"SELF_TESTING", "EXECUTING"} :
            LET row == [task EXCEPT !.state = state]
            IN  row \in TaskRow /\ row.plan = task.plan /\ row.package = task.package
      BY <1>1 DEF TaskRow
    <3>2. CASE /\ Write([task EXCEPT !.state = "SELF_TESTING"])
               /\ UNCHANGED assignments /\ task.package # 0
      BY <3>1, <3>2
    <3>3. CASE /\ Write([task EXCEPT !.state = "EXECUTING"])
               /\ Offer([task EXCEPT !.state = "EXECUTING"])
      BY <3>1, <3>3
    <3> QED
      BY <1>7, <3>2, <3>3 DEF Continue
  <2>3. row.plan \in Plans \cup {NoPlan}
    BY DEF TaskRow
  <2>4. CASE Offer(row)
    <3>1. HandsOK' /\ EndedStay /\ Len(assignments') > 0 /\ LastPlan' = row.plan
      BY <1>1, <2>3, <2>4, OfferKeeps
    <3> QED
      BY <1>1, <2>1, <2>2, <3>1, RowWritten, SameRequests DEF OtherWork, Based
  <2>5. CASE UNCHANGED assignments /\ task.package # 0
    BY <1>1, <2>1, <2>2, <2>5, RowWritten, SameRequests, HandsUnchanged DEF OtherWork, Based
  <2> QED
    BY <2>2, <2>4, <2>5
<1>8. ASSUME TakeBack PROVE OtherWork /\ packages' = packages
  <2> DEFINE row == [task EXCEPT !.state = "EXECUTING"]
  <2>1. row \in TaskRow /\ row.plan = task.plan /\ row.package = task.package
        /\ row.state = "EXECUTING" /\ Write(row)
    BY <1>1, <1>8 DEF TakeBack, TaskRow
  <2> HIDE DEF row
  <2>2. UNCHANGED <<assignments, packages, requests>> /\ task.state \in UnderWay
    BY <1>8 DEF TakeBack, UnderWay
  <2> QED
    BY <1>1, <2>1, <2>2, RowWritten, SameRequests, HandsUnchanged DEF OtherWork, Based
<1>9. ASSUME Abort PROVE OtherWork /\ packages' = packages
  <2> DEFINE row == [task EXCEPT !.state = "CANCELLED"]
  <2>1. row \in TaskRow /\ row.plan = task.plan /\ row.package = task.package
        /\ row.state = "CANCELLED" /\ Write(row)
    BY <1>1, <1>9 DEF Abort, TaskRow
  <2> HIDE DEF row
  <2>2. packages' = packages /\ CancelAssignments /\ EndRequest("FAILED")
    BY <1>9 DEF Abort
  <2>3. WorkGoesOn
    BY <1>1, <2>2, CancelKeeps
  <2> QED
    BY <1>1, <2>1, <2>2, <2>3, RowWritten, RequestsEnd
       DEF OtherWork, Based, UnderWay, WorkGoesOn
<1> QED
  BY <1>1, <1>2, <1>3, <1>4, <1>5, <1>6, <1>7, <1>8, <1>9 DEF Others

-----------------------------------------------------------------------------
(***************************************************************************)
(* The chain of one key.                                                   *)
(***************************************************************************)
\* c: the call; r: the receipts of its key.
ChainOf(c, r) ==
  /\ c.pc = "begin" => c.begin /\ c.at = c.first
  /\ c.pc = "self_test" =>
       IF c.begin THEN r["begin"] = <<c.first, c.at>> ELSE c.at = c.first
  /\ c.pc \in {"snapshot", "package"} =>
       r["self_test"] # NoReceipt /\ r["self_test"][2] = <<c.at, c.rev>>
  /\ c.pc = "request" => r["package"] # NoReceipt /\ c.at = r["package"][1][2] + 1
  /\ r["package"] # NoReceipt =>
       /\ r["self_test"] # NoReceipt
       /\ r["package"][1][1].rev = r["self_test"][2][2]
       /\ r["package"][1][2] = r["self_test"][2][1]
  /\ r["request"] # NoReceipt =>
       r["package"] # NoReceipt /\ r["request"][1] = r["package"][1][2] + 1

Chained(k) == ChainOf(calls[k], receipts[k])

\* Nothing has happened to the Task since the self-test: then its work is still done.
SawTest(k) ==
  LET version == receipts[k]["self_test"][2][1]
  IN  ~Fresh(k, "self_test") =>
        version <= task.version /\ (version = task.version => WorkIsDone)

\* Nothing has happened to the Task since the package: then it is the package of now.
SawPackage(k) ==
  LET version == receipts[k]["package"][1][2] + 1
      package == receipts[k]["package"][2]
  IN  ~Fresh(k, "package") =>
        /\ version <= task.version /\ (version = task.version => task.package = package)
        /\ package \in DOMAIN packages /\ packages[package].by = k

Asked ==
  /\ EachCallReviewsItsPackage
  /\ \A n \in DOMAIN requests :
       requests[n].by # Before => requests[n].by \in Keys /\ ~Fresh(requests[n].by, "request")

Versioned(k) == SawTest(k) /\ SawPackage(k)

\* The Task is untouched, with the work done if it was; or a version on.
Moves == (UNCHANGED task /\ (WorkIsDone => WorkIsDone')) \/ task'.version > task.version

PackagesStay == \A n \in DOMAIN packages : n \in DOMAIN packages' /\ packages'[n] = packages[n]

LEMMA ReceiptTypes ==
  ASSUME Rows, NEW k \in Keys
  PROVE  /\ receipts[k] \in ReceiptRow /\ calls[k] \in CallRow
         /\ ~Fresh(k, "begin") =>
              /\ receipts[k]["begin"][1] \in Nat /\ receipts[k]["begin"][2] \in Nat
              /\ receipts[k]["begin"] = <<receipts[k]["begin"][1], receipts[k]["begin"][2]>>
         /\ ~Fresh(k, "self_test") =>
              /\ receipts[k]["self_test"][1][1] \in Nat
              /\ receipts[k]["self_test"][1] =
                   <<receipts[k]["self_test"][1][1], receipts[k]["self_test"][1][2]>>
              /\ receipts[k]["self_test"][2][1] \in Nat /\ receipts[k]["self_test"][2][2] \in Nat
              /\ receipts[k]["self_test"][2] =
                   <<receipts[k]["self_test"][2][1], receipts[k]["self_test"][2][2]>>
         /\ ~Fresh(k, "package") =>
              /\ receipts[k]["package"][1][1] \in Submission
              /\ receipts[k]["package"][1][2] \in Nat /\ receipts[k]["package"][2] \in Nat
              /\ receipts[k]["package"][1] =
                   <<receipts[k]["package"][1][1], receipts[k]["package"][1][2]>>
         /\ ~Fresh(k, "request") =>
              receipts[k]["request"][1] \in Nat /\ receipts[k]["request"][2] \in Nat
BY DEF Rows, ReceiptRow, Fresh, NoReceipt

LEMMA Recorded ==
  ASSUME Rows, NEW k \in Keys, NEW c \in Commands, NEW input, NEW response,
         Record(k, c, input, response),
         [receipts[k] EXCEPT ![c] = <<input, response>>] \in ReceiptRow
  PROVE  /\ receipts' \in [Keys -> ReceiptRow]
         /\ receipts'[k][c] = <<input, response>>
         /\ \A d \in Commands \ {c} : receipts'[k][d] = receipts[k][d]
         /\ \A j \in Keys \ {k} : receipts'[j] = receipts[j]
<1>1. receipts \in [Keys -> ReceiptRow] /\ DOMAIN receipts[k] = Commands
  BY DEF Rows, ReceiptRow, Commands
<1>2. receipts' = [receipts EXCEPT ![k] = [receipts[k] EXCEPT ![c] = <<input, response>>]]
  BY <1>1 DEF Record
<1> QED
  BY <1>1, <1>2

LEMMA VersionedKeeps ==
  ASSUME Rows, NEW k \in Keys, receipts'[k] = receipts[k], Moves, PackagesStay,
         task' \in TaskRow, Versioned(k)
  PROVE  Versioned(k)'
<1>1. task.version \in Nat /\ task'.version \in Nat
  BY DEF Rows, TaskRow
<1>2. SawTest(k)'
  <2> SUFFICES ASSUME ~Fresh(k, "self_test")
               PROVE  LET version == receipts[k]["self_test"][2][1]
                      IN  version <= task'.version /\ (version = task'.version => WorkIsDone')
    BY DEF SawTest, Fresh
  <2> DEFINE version == receipts[k]["self_test"][2][1]
  <2>1. version \in Nat /\ version <= task.version /\ (version = task.version => WorkIsDone)
    BY ReceiptTypes DEF Versioned, SawTest
  <2> HIDE DEF version
  <2>2. version <= task'.version /\ (version = task'.version => WorkIsDone')
    BY <1>1, <2>1 DEF Moves
  <2> QED
    BY <2>2 DEF version
<1>3. SawPackage(k)'
  <2> SUFFICES ASSUME ~Fresh(k, "package")
               PROVE  LET version == receipts[k]["package"][1][2] + 1
                          package == receipts[k]["package"][2]
                      IN  /\ version <= task'.version /\ (version = task'.version => task'.package = package)
                          /\ package \in DOMAIN packages' /\ packages'[package].by = k
    BY DEF SawPackage, Fresh
  <2> DEFINE version == receipts[k]["package"][1][2] + 1
             package == receipts[k]["package"][2]
  <2>1. /\ version \in Nat
        /\ version <= task.version /\ (version = task.version => task.package = package)
        /\ package \in DOMAIN packages /\ packages[package].by = k
    BY ReceiptTypes DEF Versioned, SawPackage
  <2> HIDE DEF version, package
  <2>2. version <= task'.version /\ (version = task'.version => task'.package = package)
    BY <1>1, <2>1 DEF Moves
  <2> QED
    BY <2>1, <2>2 DEF version, package, PackagesStay
<1> QED
  BY <1>2, <1>3 DEF Versioned

LEMMA AskedKeeps ==
  ASSUME Rows, Asked, PackagesStay, DOMAIN requests' = DOMAIN requests,
         \A n \in DOMAIN requests : /\ requests'[n].package = requests[n].package
                                    /\ requests'[n].by = requests[n].by,
         \A j \in Keys : ~Fresh(j, "request") => ~Fresh(j, "request")'
  PROVE  Asked'
<1>1. \A n \in DOMAIN requests :
        packages'[requests'[n].package] = packages[requests[n].package]
  BY DEF Rows, PackagesStay
<1>2. EachCallReviewsItsPackage'
  BY <1>1 DEF Asked, EachCallReviewsItsPackage
<1>3. \A n \in DOMAIN requests' :
        requests'[n].by # Before =>
          requests'[n].by \in Keys /\ receipts'[requests'[n].by]["request"] # NoReceipt
  BY DEF Asked, Fresh
<1> QED
  BY <1>2, <1>3 DEF Asked, Fresh

\* What a step of the call of k leaves.
ChainStep(k) ==
  /\ Rows' /\ HandsOK' /\ EndedStay /\ Based' /\ Moves /\ PackagesStay
  /\ Chained(k)' /\ Versioned(k)' /\ Asked'
  /\ \A j \in Keys \ {k} : calls'[j] = calls[j] /\ receipts'[j] = receipts[j]

\* What holds before it.
ChainReady(k) == Rows /\ HandsOK /\ Based /\ Chained(k) /\ Versioned(k) /\ Asked

\* Only the call goes on: it starts, replays, reads, or ends.
LEMMA CallGoesOn ==
  ASSUME NEW k \in Keys, ChainReady(k), NEW c \in CallRow, ChainOf(c, receipts[k]),
         calls' = [calls EXCEPT ![k] = c], UNCHANGED <<world, receipts>>
  PROVE  ChainStep(k)
<1>1. Rows /\ calls \in [Keys -> CallRow]
  BY DEF ChainReady, Rows
<1>2. /\ UNCHANGED <<task, assignments, uploads, now, packages, requests, receipts>>
      /\ calls' \in [Keys -> CallRow] /\ calls'[k] = c
      /\ \A j \in Keys \ {k} : calls'[j] = calls[j]
  BY <1>1 DEF world
<1>3. Rows'
  BY <1>1, <1>2 DEF Rows
<1>4. HandsOK' /\ EndedStay /\ Based'
  BY <1>2 DEF ChainReady, HandsOK, EndedStay, Based, LastPlan
<1>5. Moves /\ PackagesStay
  BY <1>2 DEF Moves, PackagesStay, WorkIsDone
<1>6. Chained(k)'
  BY <1>2 DEF Chained
<1>7. Versioned(k)'
  BY <1>2, <1>3, <1>5, VersionedKeeps DEF ChainReady, Rows
<1>8. Asked'
  BY <1>2, <1>5, AskedKeeps DEF ChainReady, Fresh
<1> QED
  BY <1>2, <1>3, <1>4, <1>5, <1>6, <1>7, <1>8 DEF ChainStep

\* A command of the chain other than the package and the request writes the Task.
LEMMA CommandWrites ==
  ASSUME NEW k \in Keys, ChainReady(k), NEW c \in CallRow,
         calls' = [calls EXCEPT ![k] = c],
         NEW command \in {"begin", "self_test"}, NEW input, NEW response,
         Record(k, command, input, response), Fresh(k, command),
         [receipts[k] EXCEPT ![command] = <<input, response>>] \in ReceiptRow,
         NEW row \in TaskRow, Write(row), row.package \in {0, task.package},
         HandsOK', EndedStay, Based', UNCHANGED <<packages, requests>>,
         command = "self_test" => receipts[k]["package"] = NoReceipt /\ response[1] = task.version + 1
                                  /\ WorkIsDone',
         ChainOf(c, receipts'[k])
  PROVE  ChainStep(k)
<1>1. Rows /\ calls \in [Keys -> CallRow]
  BY DEF ChainReady, Rows
<1>2. /\ calls' \in [Keys -> CallRow] /\ calls'[k] = c
      /\ \A j \in Keys \ {k} : calls'[j] = calls[j]
  BY <1>1
<1>3. /\ receipts' \in [Keys -> ReceiptRow]
      /\ receipts'[k][command] = <<input, response>>
      /\ \A d \in Commands \ {command} : receipts'[k][d] = receipts[k][d]
      /\ \A j \in Keys \ {k} : receipts'[j] = receipts[j]
  BY <1>1, Recorded DEF Commands
<1>4. /\ task' \in TaskRow /\ task'.version = task.version + 1 /\ task'.version > task.version
      /\ task'.package \in {0, task.package}
  BY <1>1, RowWritten DEF Rows
<1>5. Rows'
  <2>1. task'.package \in 0..Len(packages')
    BY <1>1, <1>4, SequenceFacts DEF Rows
  <2> QED
    BY <1>1, <1>2, <1>3, <1>4, <2>1 DEF Rows
<1>6. Moves /\ PackagesStay
  BY <1>4 DEF Moves, PackagesStay
<1>7. Asked'
  <2>1. \A j \in Keys : receipts'[j]["request"] = receipts[j]["request"]
    BY <1>3 DEF Commands
  <2> QED
    BY <1>1, <1>6, <2>1, AskedKeeps DEF ChainReady, Fresh
<1>8. SawPackage(k)'
  <2>1. receipts'[k]["package"] = receipts[k]["package"]
    BY <1>3 DEF Commands
  <2> SUFFICES ASSUME ~Fresh(k, "package")
               PROVE  SawPackage(k)'
    BY <2>1 DEF SawPackage, Fresh
  <2> DEFINE version == receipts[k]["package"][1][2] + 1
             package == receipts[k]["package"][2]
  <2>2. version \in Nat /\ version <= task.version /\ package \in DOMAIN packages /\ packages[package].by = k
    BY <1>1, ReceiptTypes DEF ChainReady, Versioned, SawPackage
  <2>3. task.version \in Nat /\ task'.version = task.version + 1
    BY <1>1, <1>4 DEF Rows, TaskRow
  <2> HIDE DEF version, package
  <2>4. version <= task'.version /\ version # task'.version
    BY <2>2, <2>3
  <2> QED
    BY <2>1, <2>2, <2>4 DEF SawPackage, version, package
<1>9. SawTest(k)'
  <2>1. CASE command = "self_test"
    <3>1. receipts'[k]["self_test"][2][1] = task'.version /\ WorkIsDone' /\ task'.version \in Nat
      BY <1>3, <1>4, <2>1 DEF TaskRow
    <3> QED
      BY <3>1 DEF SawTest
  <2>2. CASE command = "begin"
    <3>1. receipts'[k]["self_test"] = receipts[k]["self_test"]
      BY <1>3, <2>2 DEF Commands
    <3> SUFFICES ASSUME ~Fresh(k, "self_test") PROVE SawTest(k)'
      BY <3>1 DEF SawTest, Fresh
    <3> DEFINE version == receipts[k]["self_test"][2][1]
    <3>2. version \in Nat /\ version <= task.version
      BY <1>1, ReceiptTypes DEF ChainReady, Versioned, SawTest
    <3>3. task.version \in Nat /\ task'.version = task.version + 1
      BY <1>1, <1>4 DEF Rows, TaskRow
    <3> HIDE DEF version
    <3>4. version <= task'.version /\ version # task'.version
      BY <3>2, <3>3
    <3> QED
      BY <3>1, <3>4 DEF SawTest, version
  <2> QED
    BY <2>1, <2>2
<1>10. Chained(k)'
  BY <1>2 DEF Chained
<1> QED
  BY <1>2, <1>3, <1>5, <1>6, <1>7, <1>8, <1>9, <1>10 DEF ChainStep, Versioned

\* What is so of the receipts whatever the call is at.
LEMMA ChainEnds ==
  ASSUME NEW r, NEW c, NEW d, ChainOf(c, r), d.pc = "idle"
  PROVE  ChainOf(d, r)
BY DEF ChainOf

LEMMA Leaves ==
  ASSUME NEW k \in Keys, ChainReady(k), Leave(k), UNCHANGED <<world, receipts>>
  PROVE  ChainStep(k)
<1>1. NoCall \in CallRow /\ NoCall.pc = "idle"
  BY DEF NoCall, CallRow, Step, Commands
<1>2. ChainOf(NoCall, receipts[k])
  BY <1>1, ChainEnds DEF ChainReady, Chained
<1> QED
  BY <1>1, <1>2, CallGoesOn DEF Leave

LEMMA Calls ==
  ASSUME NEW k \in Keys, ChainReady(k), CallFinal(k) \/ CallRetry(k)
  PROVE  ChainStep(k)
<1>1. \A v \in Versions(k) : v \in Nat
  <2>1. task.version \in Nat
    BY DEF ChainReady, Rows, TaskRow
  <2>2. /\ ~Fresh(k, "begin") => receipts[k]["begin"][1] \in Nat
        /\ ~Fresh(k, "self_test") => receipts[k]["self_test"][1][1] \in Nat
    BY ReceiptTypes DEF ChainReady
  <2> QED
    BY <2>1, <2>2 DEF Versions
<1>2. ASSUME NEW c \in CallRow, c.at = c.first, c.pc = IF c.begin THEN "begin" ELSE "self_test",
             calls' = [calls EXCEPT ![k] = c], UNCHANGED <<world, receipts>>
      PROVE  ChainStep(k)
  <2>1. ChainOf(c, receipts[k])
    BY <1>2 DEF ChainReady, Chained, ChainOf
  <2> QED
    BY <1>2, <2>1, CallGoesOn
<1>3. CASE CallFinal(k)
  <2>1. PICK begin \in BOOLEAN, version \in Versions(k), test \in Tests :
          /\ calls' = [calls EXCEPT ![k] = [NoCall EXCEPT !.pc = IF begin THEN "begin" ELSE "self_test",
                                                          !.begin = begin, !.first = version,
                                                          !.at = version,
                                                          !.test = test, !.results = test]]
          /\ UNCHANGED <<world, receipts>>
    BY <1>3 DEF CallFinal
  <2> DEFINE c == [NoCall EXCEPT !.pc = IF begin THEN "begin" ELSE "self_test",
                                 !.begin = begin, !.first = version, !.at = version,
                                 !.test = test, !.results = test]
  <2>2. c \in CallRow /\ c.at = c.first /\ c.pc = IF c.begin THEN "begin" ELSE "self_test"
    BY <1>1 DEF NoCall, CallRow, Step, Commands, Results
  <2> HIDE DEF c
  <2> QED
    BY <1>2, <2>1, <2>2 DEF c
<1>4. CASE CallRetry(k)
  <2>1. PICK n \in DOMAIN requests, version \in Versions(k) :
          /\ calls' = [calls EXCEPT ![k] = [NoCall EXCEPT !.pc = "begin", !.begin = TRUE,
                                                    !.first = version, !.at = version,
                                                    !.plan = packages[requests[n].package].plan,
                                                    !.test = task.test,
                                                    !.results = packages[requests[n].package].results]]
          /\ UNCHANGED <<world, receipts>>
    BY <1>4 DEF CallRetry
  <2> DEFINE old == packages[requests[n].package]
             c == [NoCall EXCEPT !.pc = "begin", !.begin = TRUE, !.first = version, !.at = version,
                                 !.plan = old.plan, !.test = task.test, !.results = old.results]
  <2>2. old.plan \in Plans \cup {NoPlan} /\ old.results \in Results \cup {NoTest}
        /\ task.test \in Results \cup {NoTest}
    <3>1. old \in PackageRow /\ task \in TaskRow
      BY SequenceFacts DEF ChainReady, Rows
    <3> QED
      BY <3>1 DEF PackageRow, TaskRow
  <2> HIDE DEF old
  <2>3. c \in CallRow /\ c.at = c.first /\ c.pc = IF c.begin THEN "begin" ELSE "self_test"
    BY <1>1, <2>2 DEF NoCall, CallRow, Step, Commands
  <2> HIDE DEF c
  <2> QED
    BY <1>2, <2>1, <2>3 DEF c, old
<1> QED
  BY <1>3, <1>4

LEMMA Begins ==
  ASSUME NEW k \in Keys, ChainReady(k), Begin(k)
  PROVE  ChainStep(k)
<1> DEFINE at == calls[k].at
<1>1. /\ Rows /\ calls[k] \in CallRow /\ receipts[k] \in ReceiptRow
      /\ calls[k].pc = "begin" /\ calls[k].begin /\ calls[k].at = calls[k].first /\ at \in Nat
      /\ task \in TaskRow /\ calls \in [Keys -> CallRow]
  BY ReceiptTypes DEF ChainReady, Begin, Chained, ChainOf, Rows, CallRow
<1>2. ASSUME NEW v \in Nat
      PROVE  LET c == [calls[k] EXCEPT !.pc = "self_test", !.at = v]
             IN  /\ c \in CallRow /\ c.pc = "self_test" /\ c.at = v /\ c.first = at /\ c.begin
                 /\ Goto(k, "self_test", v) => calls' = [calls EXCEPT ![k] = c]
  BY <1>1 DEF CallRow, Step, Commands, Goto
<1>3. CASE Replays(k, "begin", at) /\ Goto(k, "self_test", Response(k, "begin"))
           /\ UNCHANGED <<world, receipts>>
  <2>1. receipts[k]["begin"] = <<at, Response(k, "begin")>> /\ Response(k, "begin") \in Nat
    BY <1>1, <1>3, ReceiptTypes DEF Replays, Response, Fresh
  <2> DEFINE c == [calls[k] EXCEPT !.pc = "self_test", !.at = Response(k, "begin")]
  <2>2. /\ c \in CallRow /\ c.pc = "self_test" /\ c.at = Response(k, "begin") /\ c.first = at /\ c.begin
        /\ calls' = [calls EXCEPT ![k] = c]
    BY <1>2, <1>3, <2>1
  <2> HIDE DEF c
  <2>3. ChainOf(c, receipts[k])
    BY <2>1, <2>2 DEF ChainReady, Chained, ChainOf
  <2> QED
    BY <1>3, <2>2, <2>3, CallGoesOn
<1>4. CASE /\ Fresh(k, "begin") /\ MayBegin(k)
           /\ Write([task EXCEPT !.state = "EXECUTING"])
           /\ IF k \in FinalKeys THEN Offer(task) ELSE UNCHANGED assignments
           /\ Record(k, "begin", at, task.version + 1)
           /\ Goto(k, "self_test", task.version + 1)
           /\ UNCHANGED <<uploads, now, packages, requests>>
  <2> DEFINE version == task.version + 1
             c == [calls[k] EXCEPT !.pc = "self_test", !.at = version]
             row == [task EXCEPT !.state = "EXECUTING"]
  <2>1. version \in Nat /\ task.plan \in Plans \cup {NoPlan}
    BY <1>1 DEF TaskRow
  <2>2. /\ row \in TaskRow /\ row.package = task.package /\ row.plan = task.plan /\ Write(row)
    BY <1>1, <1>4 DEF TaskRow
  <2>3. Record(k, "begin", at, version)
    BY <1>4
  <2> HIDE DEF version, row
  <2>4. /\ c \in CallRow /\ c.pc = "self_test" /\ c.at = version /\ c.first = at /\ c.begin
        /\ calls' = [calls EXCEPT ![k] = c]
    BY <1>2, <1>4, <2>1 DEF version
  <2> HIDE DEF c
  <2>5. [receipts[k] EXCEPT !["begin"] = <<at, version>>] \in ReceiptRow
    BY <1>1, <2>1 DEF ReceiptRow
  <2>6. /\ receipts'[k]["begin"] = <<at, version>>
        /\ \A d \in Commands \ {"begin"} : receipts'[k][d] = receipts[k][d]
    BY <1>1, <2>3, <2>5, Recorded DEF Commands
  <2>7. ChainOf(c, receipts'[k])
    BY <2>4, <2>6 DEF ChainReady, Chained, ChainOf, Commands
  <2>8. HandsOK' /\ EndedStay /\ Based'
    <3>1. task'.plan = task.plan
      BY <1>1, <2>2, RowWritten
    <3>2. CASE k \in FinalKeys
      <4>1. HandsOK' /\ EndedStay /\ Len(assignments') > 0 /\ LastPlan' = task.plan
        BY <1>4, <2>1, <3>2, OfferKeeps DEF ChainReady
      <4> QED
        BY <3>1, <4>1 DEF Based
    <3>3. CASE k \notin FinalKeys
      <4>1. task.state = "ESCALATED" /\ UNCHANGED assignments
        BY <1>4, <3>3 DEF MayBegin
      <4>2. HandsOK' /\ EndedStay /\ LastPlan' = LastPlan /\ Len(assignments') = Len(assignments)
        BY <1>4, <4>1, HandsUnchanged DEF ChainReady
      <4> QED
        BY <3>1, <4>1, <4>2 DEF ChainReady, Based, UnderWay
    <3> QED
      BY <3>2, <3>3
  <2> QED
    BY <1>4, <2>2, <2>3, <2>4, <2>5, <2>7, <2>8, CommandWrites
<1> QED
  BY <1>3, <1>4 DEF Begin, Expected

LEMMA SelfTests ==
  ASSUME NEW k \in Keys, ChainReady(k), SelfTest(k)
  PROVE  ChainStep(k)
<1> DEFINE test == calls[k].test
           input == <<calls[k].at, test>>
<1>1. /\ Rows /\ calls[k] \in CallRow /\ receipts[k] \in ReceiptRow
      /\ calls[k].pc = "self_test" /\ input \in Nat \X (Results \cup {NoTest})
      /\ test \in Results \cup {NoTest}
      /\ task \in TaskRow /\ calls \in [Keys -> CallRow]
  BY ReceiptTypes DEF ChainReady, SelfTest, Rows, CallRow
<1>2. ASSUME NEW v \in Nat, NEW rev \in Nat, Tested(k, v, rev)
      PROVE  \E c \in CallRow : /\ c.pc \in {"snapshot", "package"} /\ c.at = v /\ c.rev = rev
                                /\ calls' = [calls EXCEPT ![k] = c]
  <2> DEFINE c == [calls[k] EXCEPT !.pc = IF k \in FinalKeys THEN "snapshot" ELSE "package",
                                   !.at = v, !.rev = rev]
  <2>1. c \in CallRow /\ c.pc \in {"snapshot", "package"} /\ c.at = v /\ c.rev = rev
    BY <1>1, <1>2 DEF CallRow, Step, Commands
  <2>2. calls' = [calls EXCEPT ![k] = c]
    BY <1>1, <1>2 DEF Tested, CallRow
  <2> QED
    BY <2>1, <2>2
<1>3. CASE /\ Replays(k, "self_test", input)
           /\ Tested(k, Response(k, "self_test")[1], Response(k, "self_test")[2])
           /\ UNCHANGED <<world, receipts>>
  <2> DEFINE v == Response(k, "self_test")[1]
             rev == Response(k, "self_test")[2]
  <2>1. /\ v \in Nat /\ rev \in Nat
        /\ receipts[k]["self_test"] # NoReceipt /\ receipts[k]["self_test"][2] = <<v, rev>>
    BY <1>1, <1>3, ReceiptTypes DEF Replays, Response, Fresh
  <2>2. PICK c \in CallRow : /\ c.pc \in {"snapshot", "package"} /\ c.at = v /\ c.rev = rev
                             /\ calls' = [calls EXCEPT ![k] = c]
    BY <1>2, <1>3, <2>1
  <2> HIDE DEF v, rev
  <2>3. ChainOf(c, receipts[k])
    BY <2>1, <2>2 DEF ChainReady, Chained, ChainOf
  <2> QED
    BY <1>3, <2>2, <2>3, CallGoesOn
<1>4. CASE /\ Fresh(k, "self_test") /\ MaySelfTest(k)
           /\ Write([task EXCEPT !.state = "SELF_TESTING", !.tested = TRUE,
                                 !.test = test, !.package = 0, !.rev = @ + 1])
           /\ Record(k, "self_test", input, <<task.version + 1, task.rev + 1>>)
           /\ Tested(k, task.version + 1, task.rev + 1)
           /\ UNCHANGED <<assignments, uploads, now, packages, requests>>
  <2> DEFINE v == task.version + 1
             rev == task.rev + 1
             row == [task EXCEPT !.state = "SELF_TESTING", !.tested = TRUE, !.test = test,
                                !.package = 0, !.rev = rev]
  <2>1. v \in Nat /\ rev \in Nat
    BY <1>1 DEF TaskRow
  <2>2. /\ row \in TaskRow /\ row.package = 0 /\ row.plan = task.plan /\ Write(row)
    BY <1>1, <1>4, <2>1 DEF TaskRow
  <2>3. Record(k, "self_test", input, <<v, rev>>)
    BY <1>4
  <2>4. PICK c \in CallRow : /\ c.pc \in {"snapshot", "package"} /\ c.at = v /\ c.rev = rev
                             /\ calls' = [calls EXCEPT ![k] = c]
    BY <1>2, <1>4, <2>1
  <2>5. v = task.version + 1
    OBVIOUS
  <2> HIDE DEF v, rev, row, input, test
  <2>6. [receipts[k] EXCEPT !["self_test"] = <<input, <<v, rev>>>>] \in ReceiptRow
    BY <1>1, <2>1 DEF ReceiptRow
  <2>7. /\ receipts'[k]["self_test"] = <<input, <<v, rev>>>>
        /\ \A d \in Commands \ {"self_test"} : receipts'[k][d] = receipts[k][d]
    BY <1>1, <2>3, <2>6, Recorded DEF Commands
  <2>8. receipts[k]["package"] = NoReceipt
    BY <1>4 DEF ChainReady, Chained, ChainOf, Fresh
  <2>9. ChainOf(c, receipts'[k])
    BY <2>4, <2>7, <2>8 DEF ChainReady, Chained, ChainOf, Commands, NoReceipt
  <2>10. HandsOK' /\ EndedStay /\ Based' /\ WorkIsDone'
    <3>1. HandsOK' /\ EndedStay /\ LastPlan' = LastPlan /\ Len(assignments') = Len(assignments)
      BY <1>4, HandsUnchanged DEF ChainReady
    <3>2. task'.plan = task.plan /\ task.state = "EXECUTING" /\ WorkIsDone
      BY <1>1, <1>4, <2>2, RowWritten DEF MaySelfTest
    <3>3. WorkIsDone'
      BY <1>4, <3>2 DEF WorkIsDone
    <3> QED
      BY <3>1, <3>2, <3>3 DEF ChainReady, Based, UnderWay
  <2>11. Fresh(k, "self_test") /\ UNCHANGED <<packages, requests>> /\ <<v, rev>>[1] = task.version + 1
    BY <1>4, <2>5
  <2> QED
    BY <2>2, <2>3, <2>4, <2>6, <2>8, <2>9, <2>10, <2>11, CommandWrites
<1> QED
  BY <1>3, <1>4 DEF SelfTest, Expected

LEMMA Snapshots ==
  ASSUME NEW k \in Keys, ChainReady(k), Snapshot(k)
  PROVE  ChainStep(k)
<1> DEFINE c == [calls[k] EXCEPT !.pc = "package", !.plan = task.plan]
<1>1. calls[k] \in CallRow /\ task.plan \in Plans \cup {NoPlan} /\ calls[k].pc = "snapshot"
      /\ UNCHANGED <<world, receipts>> /\ calls \in [Keys -> CallRow]
  BY DEF ChainReady, Rows, TaskRow, Snapshot
<1>2. c \in CallRow /\ c.pc = "package" /\ c.at = calls[k].at /\ c.rev = calls[k].rev
      /\ calls' = [calls EXCEPT ![k] = c]
  BY <1>1 DEF CallRow, Step, Commands, Snapshot
<1> HIDE DEF c
<1>3. ChainOf(c, receipts[k])
  BY <1>1, <1>2 DEF ChainReady, Chained, ChainOf
<1> QED
  BY <1>1, <1>2, <1>3, CallGoesOn

\* What a package is made of, for PackagedWorkIsFinished.
LEMMA PackageIsFinished ==
  ASSUME NEW k \in Keys, ChainReady(k), calls[k].pc = "package", MayPackage(k)
  PROVE  /\ assignments[Len(assignments)].status = "COMPLETED"
         /\ assignments[Len(assignments)].plan = calls[k].plan
<1>1. ~Fresh(k, "self_test") /\ receipts[k]["self_test"][2][1] = task.version
  BY DEF ChainReady, Chained, ChainOf, MayPackage, Expects, Expected, Fresh
<1>2. WorkIsDone
  BY <1>1 DEF ChainReady, Versioned, SawTest
<1>3. LastPlan = task.plan /\ task.plan = calls[k].plan
  BY DEF ChainReady, Based, UnderWay, MayPackage, PackageOf
<1> QED
  BY <1>2, <1>3 DEF WorkIsDone, LastPlan

LEMMA Submits ==
  ASSUME NEW k \in Keys, ChainReady(k), SubmitPackage(k)
  PROVE  ChainStep(k)
<1> DEFINE at == calls[k].at
           input == <<PackageOf(k), at>>
<1>1. /\ Rows /\ calls[k] \in CallRow /\ receipts[k] \in ReceiptRow
      /\ calls[k].pc = "package" /\ at \in Nat /\ calls[k].rev \in Nat
      /\ task \in TaskRow /\ calls \in [Keys -> CallRow]
      /\ PackageOf(k) \in Submission /\ PackageOf(k).rev = calls[k].rev
  BY ReceiptTypes DEF ChainReady, SubmitPackage, Rows, CallRow, PackageOf, Submission
<1>2. /\ receipts[k]["self_test"] # NoReceipt
      /\ receipts[k]["self_test"][2] = <<at, calls[k].rev>>
  BY <1>1 DEF ChainReady, Chained, ChainOf
<1> DEFINE c == [calls[k] EXCEPT !.pc = "request", !.at = at + 1]
<1>3. /\ c \in CallRow /\ c.pc = "request" /\ c.at = at + 1
      /\ Goto(k, "request", at + 1) => calls' = [calls EXCEPT ![k] = c]
  <2> DEFINE next == at + 1
  <2>1. next \in Nat
    BY <1>1
  <2> HIDE DEF next
  <2>2. LET d == [calls[k] EXCEPT !.pc = "request", !.at = next]
        IN  /\ d \in CallRow /\ d.pc = "request" /\ d.at = next
            /\ Goto(k, "request", next) => calls' = [calls EXCEPT ![k] = d]
    BY <1>1, <2>1 DEF CallRow, Step, Commands, Goto
  <2> QED
    BY <2>2 DEF next
<1> HIDE DEF c
<1>4. CASE /\ Replays(k, "package", input)
           /\ Goto(k, "request", at + 1)
           /\ UNCHANGED <<world, receipts>>
  <2>1. receipts[k]["package"] # NoReceipt /\ receipts[k]["package"][1][2] = at
    BY <1>4 DEF Replays
  <2>2. ChainOf(c, receipts[k])
    BY <1>3, <2>1 DEF ChainReady, Chained, ChainOf
  <2> QED
    BY <1>3, <1>4, <2>2, CallGoesOn
<1>5. CASE /\ Fresh(k, "package") /\ MayPackage(k)
           /\ packages' = Append(packages, [by |-> k, rev |-> calls[k].rev, plan |-> calls[k].plan,
                                            results |-> calls[k].results])
           /\ Write([task EXCEPT !.package = Len(packages) + 1])
           /\ Record(k, "package", input, Len(packages) + 1)
           /\ Goto(k, "request", at + 1)
           /\ UNCHANGED <<assignments, uploads, now, requests>>
  <2> DEFINE n == Len(packages) + 1
             package == [by |-> k, rev |-> calls[k].rev, plan |-> calls[k].plan,
                         results |-> calls[k].results]
             row == [task EXCEPT !.package = n]
             submission == PackageOf(k)
  <2>1. package \in PackageRow /\ package.by = k /\ n \in Nat /\ Len(packages) \in Nat
    BY <1>1, SequenceFacts DEF PackageRow, CallRow, Rows
  <2>2. /\ row \in TaskRow /\ row.package = n /\ row.plan = task.plan /\ row.state = task.state
        /\ Write(row)
    BY <1>1, <1>5, <2>1 DEF TaskRow
  <2>3. Record(k, "package", <<submission, at>>, n) /\ packages' = Append(packages, package)
        /\ submission \in Submission /\ submission.rev = calls[k].rev
    BY <1>1, <1>5
  <2> HIDE DEF package, row, submission
  <2>4. /\ packages' \in Seq(PackageRow) /\ Len(packages') = n /\ DOMAIN packages' = 1..n
        /\ packages'[n] = package /\ n \in DOMAIN packages'
        /\ PackagesStay
    BY <1>1, <2>1, <2>3, SequenceGrows, SequenceFacts DEF PackagesStay, Rows
  <2> HIDE DEF n
  <2>5. [receipts[k] EXCEPT !["package"] = <<<<submission, at>>, n>>] \in ReceiptRow
    BY <1>1, <2>1, <2>3 DEF ReceiptRow
  <2>6. /\ receipts' \in [Keys -> ReceiptRow]
        /\ receipts'[k]["package"] = <<<<submission, at>>, n>>
        /\ \A d \in Commands \ {"package"} : receipts'[k][d] = receipts[k][d]
        /\ \A j \in Keys \ {k} : receipts'[j] = receipts[j]
    BY <1>1, <2>3, <2>5, Recorded DEF Commands
  <2>7. /\ task' \in TaskRow /\ task'.version = task.version + 1 /\ task'.version > task.version
        /\ task'.package = n /\ task'.plan = task.plan /\ task.version = at
        /\ task.state = "SELF_TESTING"
    BY <1>1, <1>5, <2>2, RowWritten DEF MayPackage, Expects, Expected
  <2>8. calls' \in [Keys -> CallRow] /\ calls'[k] = c /\ \A j \in Keys \ {k} : calls'[j] = calls[j]
    BY <1>1, <1>3, <1>5
  <2>9. Rows'
    <3>1. \A m \in DOMAIN requests' : requests'[m].package \in DOMAIN packages'
      BY <1>1, <1>5, <2>4 DEF Rows, PackagesStay
    <3>2. task'.package \in 0..Len(packages')
      BY <2>1, <2>4, <2>7
    <3> QED
      BY <1>1, <1>5, <2>4, <2>6, <2>7, <2>8, <3>1, <3>2 DEF Rows
  <2>10. HandsOK' /\ EndedStay /\ Based'
    <3>1. HandsOK' /\ EndedStay /\ LastPlan' = LastPlan /\ Len(assignments') = Len(assignments)
      BY <1>5, HandsUnchanged DEF ChainReady
    <3> QED
      BY <2>7, <3>1 DEF ChainReady, Based, UnderWay
  <2>11. Moves /\ PackagesStay
    BY <2>4, <2>7 DEF Moves
  <2>12. Chained(k)'
    <3>1. receipts[k]["request"] = NoReceipt
      BY <1>5 DEF ChainReady, Chained, ChainOf, Fresh
    <3> QED
      BY <1>2, <1>3, <2>3, <2>6, <2>8, <3>1 DEF Chained, ChainOf, Commands, NoReceipt
  <2>13. SawPackage(k)'
    <3>1. task'.version = at + 1 /\ at + 1 <= task'.version
      BY <1>1, <2>7
    <3> QED
      BY <2>1, <2>4, <2>6, <2>7, <3>1 DEF SawPackage
  <2>14. SawTest(k)'
    <3>1. receipts'[k]["self_test"] = receipts[k]["self_test"]
      BY <2>6 DEF Commands
    <3>2. receipts[k]["self_test"][2][1] = at /\ at <= task'.version /\ at # task'.version
      BY <1>1, <1>2, <2>7
    <3> QED
      BY <3>1, <3>2 DEF SawTest
  <2>15. Asked'
    <3>1. \A j \in Keys : receipts'[j]["request"] = receipts[j]["request"]
      BY <2>6 DEF Commands
    <3> QED
      BY <1>1, <1>5, <2>11, <3>1, AskedKeeps DEF ChainReady, Fresh
  <2> QED
    BY <2>6, <2>8, <2>9, <2>10, <2>11, <2>12, <2>13, <2>14, <2>15 DEF ChainStep, Versioned
<1> QED
  BY <1>4, <1>5 DEF SubmitPackage, Expected

LEMMA Requests ==
  ASSUME NEW k \in Keys, ChainReady(k), Request(k)
  PROVE  ChainStep(k)
<1> DEFINE at == calls[k].at
<1>1. /\ Rows /\ calls[k] \in CallRow /\ receipts[k] \in ReceiptRow
      /\ calls[k].pc = "request" /\ at \in Nat /\ Leave(k)
      /\ task \in TaskRow /\ calls \in [Keys -> CallRow]
  BY ReceiptTypes DEF ChainReady, Request, Rows, CallRow
<1>2. /\ receipts[k]["package"] # NoReceipt /\ at = receipts[k]["package"][1][2] + 1
      /\ ~Fresh(k, "package")
  BY <1>1 DEF ChainReady, Chained, ChainOf, Fresh
\* The Task has moved on, and the receipt is written, with or without a request.
<1>3. ASSUME NEW row \in TaskRow, Write(row), NEW response \in Nat,
             row.state \in UnderWay, row.package = task.package, row.plan = task.plan,
             task.state = "SELF_TESTING",
             Record(k, "request", at, response),
             UNCHANGED <<assignments, uploads, now, packages>>,
             requests' \in Seq(RequestRow),
             \A n \in DOMAIN requests' : requests'[n].package \in DOMAIN packages,
             (\A j \in Keys : ~Fresh(j, "request") => receipts'[j]["request"] # NoReceipt)
             /\ receipts'[k]["request"] # NoReceipt => Asked'
      PROVE  ChainStep(k)
  <2>1. [receipts[k] EXCEPT !["request"] = <<at, response>>] \in ReceiptRow
    BY <1>1, <1>3 DEF ReceiptRow
  <2>2. /\ receipts' \in [Keys -> ReceiptRow]
        /\ receipts'[k]["request"] = <<at, response>>
        /\ \A d \in Commands \ {"request"} : receipts'[k][d] = receipts[k][d]
        /\ \A j \in Keys \ {k} : receipts'[j] = receipts[j]
    BY <1>1, <1>3, <2>1, Recorded DEF Commands
  <2>3. /\ task' \in TaskRow /\ task'.version > task.version
        /\ task'.package = task.package /\ task'.plan = task.plan
    BY <1>1, <1>3, RowWritten
  <2>4. /\ calls' \in [Keys -> CallRow] /\ calls'[k] = NoCall
        /\ \A j \in Keys \ {k} : calls'[j] = calls[j]
    BY <1>1 DEF Leave, NoCall, CallRow, Step, Commands
  <2>5. Rows'
    BY <1>1, <1>3, <2>2, <2>3, <2>4 DEF Rows
  <2>6. HandsOK' /\ EndedStay /\ Based'
    <3>1. HandsOK' /\ EndedStay /\ LastPlan' = LastPlan /\ Len(assignments') = Len(assignments)
      BY <1>3, HandsUnchanged DEF ChainReady
    <3> QED
      BY <1>3, <2>3, <3>1 DEF ChainReady, Based, UnderWay
  <2>7. Moves /\ PackagesStay
    BY <1>3, <2>3 DEF Moves, PackagesStay
  <2>8. Chained(k)'
    <3>1. NoCall.pc = "idle"
      BY DEF NoCall
    <3> QED
      BY <1>2, <2>2, <2>4, <3>1 DEF ChainReady, Chained, ChainOf, Commands, NoReceipt
  <2>9. Versioned(k)'
    <3>1. task'.version \in Nat /\ task.version \in Nat
      BY <1>1, <2>3 DEF TaskRow
    <3>2. receipts'[k]["self_test"] = receipts[k]["self_test"]
          /\ receipts'[k]["package"] = receipts[k]["package"]
      BY <2>2 DEF Commands
    <3>3. SawTest(k)'
      <4> DEFINE version == receipts[k]["self_test"][2][1]
      <4> SUFFICES ASSUME ~Fresh(k, "self_test") PROVE SawTest(k)'
        BY <3>2 DEF SawTest, Fresh
      <4>1. version \in Nat /\ version <= task.version
        BY <1>1, ReceiptTypes DEF ChainReady, Versioned, SawTest
      <4> HIDE DEF version
      <4>2. version <= task'.version /\ version # task'.version
        BY <2>3, <3>1, <4>1
      <4> QED
        BY <3>2, <4>2 DEF SawTest, version
    <3>4. SawPackage(k)'
      <4> DEFINE version == receipts[k]["package"][1][2] + 1
                 package == receipts[k]["package"][2]
      <4>1. version \in Nat /\ version <= task.version
            /\ package \in DOMAIN packages /\ packages[package].by = k
        BY <1>1, <1>2, ReceiptTypes DEF ChainReady, Versioned, SawPackage
      <4> HIDE DEF version, package
      <4>2. version <= task'.version /\ version # task'.version
        BY <2>3, <3>1, <4>1
      <4> QED
        BY <1>3, <3>2, <4>1, <4>2 DEF SawPackage, version, package
    <3> QED
      BY <3>3, <3>4 DEF Versioned
  <2>10. Asked'
    <3>1. receipts'[k]["request"] # NoReceipt
      BY <2>2 DEF NoReceipt
    <3>2. \A j \in Keys : ~Fresh(j, "request") => receipts'[j]["request"] # NoReceipt
      BY <2>2, <3>1 DEF Fresh
    <3> QED
      BY <1>3, <3>1, <3>2
  <2> QED
    BY <2>2, <2>4, <2>5, <2>6, <2>7, <2>8, <2>9, <2>10 DEF ChainStep
<1>4. CASE Replays(k, "request", at) /\ UNCHANGED <<world, receipts>>
  BY <1>1, <1>4, Leaves
<1>5. CASE /\ Fresh(k, "request") /\ MayRequest(k)
           /\ requests' = Append(requests, [by |-> k, package |-> task.package,
                                            status |-> "PENDING"])
           /\ Write([task EXCEPT !.state = "FINAL_REVIEW_PENDING"])
           /\ Record(k, "request", at, Len(requests) + 1)
           /\ UNCHANGED <<assignments, uploads, now, packages>>
  <2> DEFINE row == [task EXCEPT !.state = "FINAL_REVIEW_PENDING"]
             request == [by |-> k, package |-> task.package, status |-> "PENDING"]
             n == Len(requests) + 1
  <2>1. /\ row \in TaskRow /\ row.state \in UnderWay /\ row.package = task.package
        /\ row.plan = task.plan /\ Write(row)
    BY <1>1, <1>5 DEF TaskRow, UnderWay
  <2>2. /\ request \in RequestRow /\ request.by = k /\ request.package = task.package
        /\ n \in Nat /\ requests \in Seq(RequestRow)
    BY <1>1, SequenceFacts DEF RequestRow, TaskRow, Rows
  <2>3. /\ task.package \in DOMAIN packages /\ packages[task.package].by = k
        /\ task.state = "SELF_TESTING"
    <3>1. task.version = at /\ task.state = "SELF_TESTING"
      BY <1>5 DEF MayRequest, Expects, Expected
    <3> QED
      BY <1>2, <3>1 DEF ChainReady, Versioned, SawPackage
  <2>4. requests' = Append(requests, request) /\ Record(k, "request", at, n)
    BY <1>5
  <2> HIDE DEF row, request
  <2>5. /\ requests' \in Seq(RequestRow) /\ DOMAIN requests' = DOMAIN requests \cup {n}
        /\ n \notin DOMAIN requests /\ requests'[n] = request
        /\ \A m \in DOMAIN requests : requests'[m] = requests[m]
    BY <2>2, <2>4, SequenceGrows
  <2> HIDE DEF n
  <2>6. \A m \in DOMAIN requests' : requests'[m].package \in DOMAIN packages
    BY <1>1, <2>2, <2>3, <2>5 DEF Rows
  <2>7. ASSUME \A j \in Keys : ~Fresh(j, "request") => receipts'[j]["request"] # NoReceipt,
               receipts'[k]["request"] # NoReceipt
        PROVE  Asked'
    <3>1. \A m \in DOMAIN requests : requests[m].by # k
      <4>1. k # Before
        BY ToolConstants DEF Keys
      <4> QED
        BY <1>5, <4>1 DEF ChainReady, Asked
    <3>2. \A m \in DOMAIN requests :
            /\ packages[requests[m].package].by = requests[m].by
            /\ \A l \in DOMAIN requests \ {m} : requests[l].by = requests[m].by => requests[m].by = Before
      BY DEF ChainReady, Asked, EachCallReviewsItsPackage
    <3>3. packages' = packages
      BY <1>5
    <3>4. EachCallReviewsItsPackage'
      <4> SUFFICES ASSUME NEW m \in DOMAIN requests'
                   PROVE  /\ packages[requests'[m].package].by = requests'[m].by
                          /\ \A l \in DOMAIN requests' \ {m} :
                               requests'[l].by = requests'[m].by => requests'[m].by = Before
        BY <3>3 DEF EachCallReviewsItsPackage
      <4>1. CASE m = n
        BY <2>2, <2>3, <2>5, <3>1, <4>1
      <4>2. CASE m \in DOMAIN requests
        BY <2>2, <2>5, <3>1, <3>2, <4>2
      <4> QED
        BY <2>5, <4>1, <4>2
    <3>5. \A m \in DOMAIN requests' :
            requests'[m].by # Before =>
              requests'[m].by \in Keys /\ receipts'[requests'[m].by]["request"] # NoReceipt
      BY <2>2, <2>5, <2>7 DEF ChainReady, Asked
    <3> QED
      BY <3>4, <3>5 DEF Asked, Fresh
  <2> QED
    BY <1>3, <1>5, <2>1, <2>2, <2>3, <2>4, <2>5, <2>6, <2>7
<1>6. CASE /\ Fresh(k, "request") /\ MayRequest(k)
           /\ Write([task EXCEPT !.state = "ESCALATED"])
           /\ Record(k, "request", at, 0)
           /\ UNCHANGED <<assignments, uploads, now, packages, requests>>
  <2> DEFINE row == [task EXCEPT !.state = "ESCALATED"]
  <2>1. /\ row \in TaskRow /\ row.state \in UnderWay /\ row.package = task.package
        /\ row.plan = task.plan /\ Write(row)
    BY <1>1, <1>6 DEF TaskRow, UnderWay
  <2> HIDE DEF row
  <2>2. task.state = "SELF_TESTING" /\ requests' \in Seq(RequestRow)
        /\ \A n \in DOMAIN requests' : requests'[n].package \in DOMAIN packages
    BY <1>1, <1>6 DEF MayRequest, Rows
  <2>3. ASSUME \A j \in Keys : ~Fresh(j, "request") => receipts'[j]["request"] # NoReceipt
        PROVE  Asked'
    BY <1>1, <1>6, <2>3, AskedKeeps DEF ChainReady, PackagesStay, Fresh
  <2> QED
    BY <1>3, <1>6, <2>1, <2>2, <2>3
<1> QED
  BY <1>4, <1>5, <1>6, <1>1 DEF Request, Expected

-----------------------------------------------------------------------------
(***************************************************************************)
(* The invariant, and what it gives.                                       *)
(***************************************************************************)
IInv ==
  /\ Rows /\ HandsOK /\ Based /\ Asked
  /\ \A k \in Keys : Chained(k) /\ Versioned(k)

LEMMA InitOK == Init => IInv
<1> SUFFICES ASSUME Init PROVE IInv
  OBVIOUS
<1>1. /\ assignments = <<>> /\ uploads = <<>> /\ now = 0
      /\ calls = [k \in Keys |-> NoCall]
      /\ receipts = [k \in Keys |-> [c \in Commands |-> NoReceipt]]
  BY DEF Init
<1>2. PICK plan \in Plans, rounds \in 0..FinalLimit, status \in {"COMPLETED", "FAILED"} :
        /\ task = [state |-> "PLAN_APPROVED", version |-> 0, rev |-> rounds, plan |-> plan,
                   tested |-> FALSE, test |-> IF rounds = 0 THEN NoTest ELSE EarlierTest,
                   package |-> 0]
        /\ packages = [n \in 1..rounds |->
                         [by |-> Before, rev |-> n, plan |-> plan, results |-> EarlierTest]]
        /\ requests = [n \in 1..rounds |-> [by |-> Before, package |-> n, status |-> status]]
  BY DEF Init
<1>3. rounds \in Nat
  BY ToolConstants
<1>4. /\ packages \in Seq(PackageRow) /\ Len(packages) \in Nat /\ DOMAIN packages = 1..rounds
      /\ requests \in Seq(RequestRow) /\ DOMAIN requests = 1..rounds
  BY <1>2, <1>3 DEF PackageRow, RequestRow, Results
<1>5. /\ calls \in [Keys -> CallRow] /\ receipts \in [Keys -> ReceiptRow]
      /\ \A k \in Keys : /\ calls[k].pc = "idle"
                         /\ \A c \in Commands : receipts[k][c] = NoReceipt
  BY <1>1 DEF NoCall, CallRow, Step, Commands, ReceiptRow
<1>6. task \in TaskRow /\ task.package = 0 /\ task.state = "PLAN_APPROVED"
  BY <1>2, <1>3 DEF TaskRow, Results
<1>7. Rows
  BY <1>2, <1>4, <1>5, <1>6 DEF Rows
<1>8. HandsOK
  <2>1. LiveIn(assignments) = {} /\ now \in 0..MaxTime
    BY <1>1, Times DEF LiveIn
  <2> QED
    BY <1>1, <2>1 DEF HandsOK, Handed
<1>9. Based
  BY <1>6 DEF Based, UnderWay
<1>10. Asked
  BY <1>2, <1>3, <1>4 DEF Asked, EachCallReviewsItsPackage
<1>11. \A k \in Keys : Chained(k) /\ Versioned(k)
  BY <1>5 DEF Chained, ChainOf, Versioned, SawTest, SawPackage, Fresh, Commands
<1> QED
  BY <1>7, <1>8, <1>9, <1>10, <1>11 DEF IInv

\* A package is added with the last assignment completed, for its plan.
Finished ==
  \A n \in DOMAIN packages' \ DOMAIN packages :
    /\ assignments[Len(assignments)].status = "COMPLETED"
    /\ assignments[Len(assignments)].plan = packages'[n].plan

LEMMA ChainKeeps ==
  ASSUME IInv, NEW k \in Keys, Chain(k)
  PROVE  IInv' /\ EndedStay /\ Finished
<1>1. ChainReady(k)
  BY DEF IInv, ChainReady
<1>2. ChainStep(k)
  <2>1. CASE Break(k)
    BY <1>1, <2>1, Leaves DEF Break
  <2> QED
    BY <1>1, <2>1, Calls, Begins, SelfTests, Snapshots, Submits, Requests DEF Chain
<1>3. IInv' /\ EndedStay
  <2>1. ASSUME NEW j \in Keys \ {k} PROVE Chained(j)' /\ Versioned(j)'
    <3>1. calls'[j] = calls[j] /\ receipts'[j] = receipts[j] /\ Chained(j) /\ Versioned(j)
          /\ Rows /\ task' \in TaskRow /\ Moves /\ PackagesStay
      BY <1>2 DEF ChainStep, IInv, Rows
    <3>2. Versioned(j)'
      BY <3>1, VersionedKeeps
    <3> QED
      BY <3>1, <3>2 DEF Chained
  <2> QED
    BY <1>2, <2>1 DEF ChainStep, IInv
<1>4. Finished
  <2>1. CASE packages' = packages
    BY <2>1 DEF Finished
  <2>2. CASE /\ calls[k].pc = "package" /\ MayPackage(k)
             /\ packages' = Append(packages, [by |-> k, rev |-> calls[k].rev, plan |-> calls[k].plan,
                                              results |-> calls[k].results])
    <3> DEFINE package == [by |-> k, rev |-> calls[k].rev, plan |-> calls[k].plan,
                           results |-> calls[k].results]
    <3>1. package \in PackageRow /\ packages \in Seq(PackageRow) /\ package.plan = calls[k].plan
      BY DEF IInv, Rows, CallRow, PackageRow
    <3> HIDE DEF package
    <3>2. /\ DOMAIN packages' = DOMAIN packages \cup {Len(packages) + 1}
          /\ packages'[Len(packages) + 1] = package
      BY <2>2, <3>1, SequenceGrows DEF package
    <3> QED
      BY <1>1, <2>2, <3>1, <3>2, PackageIsFinished DEF Finished
  <2>3. CASE SubmitPackage(k)
    BY <2>1, <2>2, <2>3 DEF SubmitPackage, world
  <2> QED
    BY <2>1, <2>3 DEF Chain, CallFinal, CallRetry, Begin, SelfTest, Snapshot, Request, Break, world
<1> QED
  BY <1>3, <1>4

\* The steps that are not of a call: calls and receipts stay, and so do the packages.
LEMMA RestKeeps ==
  ASSUME IInv, UNCHANGED <<packages, calls, receipts>>, task' \in TaskRow, Moves,
         task'.package \in {0, task.package},
         requests' \in Seq(RequestRow), DOMAIN requests' = DOMAIN requests,
         \A n \in DOMAIN requests : /\ requests'[n].package = requests[n].package
                                    /\ requests'[n].by = requests[n].by,
         HandsOK', Based'
  PROVE  IInv' /\ Finished
<1>1. PackagesStay /\ Rows
  BY DEF PackagesStay, IInv
<1>2. Rows'
  <2>1. task'.package \in 0..Len(packages')
    BY <1>1, SequenceFacts DEF Rows
  <2> QED
    BY <1>1, <2>1 DEF Rows
<1>3. \A k \in Keys : Chained(k)' /\ Versioned(k)'
  BY <1>1, VersionedKeeps DEF IInv, Chained
<1>4. Asked'
  BY <1>1, AskedKeeps DEF IInv, Fresh
<1> QED
  BY <1>2, <1>3, <1>4 DEF IInv, Finished

LEMMA HandKeeps ==
  ASSUME HandsOK, NEW w \in Workers, Hand(w)
  PROVE  WorkGoesOn
BY ClaimKeeps, ProgressKeeps, SubmitKeeps, CompleteKeeps DEF Hand

LEMMA NextOK == IInv /\ [Next]_vars => IInv' /\ EndedStay /\ Finished
<1> SUFFICES ASSUME IInv, [Next]_vars PROVE IInv' /\ EndedStay /\ Finished
  OBVIOUS
<1>1. Rows /\ HandsOK /\ Based
  BY DEF IInv
<1>2. ASSUME NEW k \in Keys, Chain(k) PROVE IInv' /\ EndedStay /\ Finished
  BY <1>2, ChainKeeps
<1>3. CASE Others
  <2>1. OtherWork /\ UNCHANGED <<packages, calls, receipts>>
    BY <1>1, <1>3, OthersKeep
  <2> QED
    BY <2>1, RestKeeps DEF OtherWork, Moves
<1>4. ASSUME WorkGoesOn, UNCHANGED <<task, packages, requests, calls, receipts>>
      PROVE  IInv' /\ EndedStay /\ Finished
  <2>1. task' \in TaskRow /\ task'.package \in {0, task.package} /\ Moves
    BY <1>1, <1>4 DEF Rows, Moves, WorkGoesOn
  <2>2. Based'
    BY <1>1, <1>4 DEF Based, WorkGoesOn
  <2>3. /\ requests' \in Seq(RequestRow) /\ DOMAIN requests' = DOMAIN requests
        /\ \A n \in DOMAIN requests : /\ requests'[n].package = requests[n].package
                                      /\ requests'[n].by = requests[n].by
    BY <1>1, <1>4, SameRequests
  <2> QED
    BY <1>4, <2>1, <2>2, <2>3, RestKeeps DEF WorkGoesOn
<1>5. ASSUME NEW w \in Workers, Hand(w) PROVE IInv' /\ EndedStay /\ Finished
  <2>1. UNCHANGED <<task, packages, requests, calls, receipts>>
    BY <1>5 DEF Hand
  <2> QED
    BY <1>1, <1>4, <1>5, <2>1, HandKeeps
<1>6. CASE Supervise
  <2>1. UNCHANGED <<task, packages, requests, calls, receipts>> /\ WorkGoesOn
    BY <1>1, <1>6, RecoverKeeps DEF Supervise
  <2> QED
    BY <1>4, <2>1
<1>7. CASE Tick
  <2>1. /\ UNCHANGED <<task, assignments, uploads, packages, requests, calls, receipts>>
        /\ now < MaxTime /\ now' = now + 1
    BY <1>7 DEF Tick
  <2>2. Handed(assignments, uploads, now + 1)
    BY <1>1, <2>1, HandsTypes, TimePasses DEF HandsOK
  <2>3. HandsOK'
    BY <2>1, <2>2 DEF HandsOK
  <2>4. WorkGoesOn
    BY <2>1, <2>3 DEF WorkGoesOn, EndedStay, LastPlan, WorkIsDone
  <2> QED
    BY <1>4, <2>1, <2>4
<1>8. CASE UNCHANGED vars
  <2>1. UNCHANGED <<task, assignments, uploads, now, packages, requests, calls, receipts>>
    BY <1>8 DEF vars, world
  <2>2. HandsOK'
    BY <1>1, <2>1 DEF HandsOK
  <2>3. WorkGoesOn
    BY <2>1, <2>2 DEF WorkGoesOn, EndedStay, LastPlan, WorkIsDone
  <2> QED
    BY <1>4, <2>1, <2>3
<1> QED
  BY <1>2, <1>3, <1>5, <1>6, <1>7, <1>8 DEF Next

LEMMA Inductive == Spec => []IInv
<1>1. IInv /\ [Next]_vars => IInv'
  BY NextOK
<1> QED
  BY InitOK, <1>1, PTL DEF Spec

(***************************************************************************)
(* Every variable keeps its type.                                          *)
(***************************************************************************)
THEOREM ToolTypes == Spec => []TypeOK
<1>1. IInv => TypeOK
  BY HandsTypes DEF IInv, Rows, TypeOK
<1> QED
  BY <1>1, Inductive, PTL

(***************************************************************************)
(* At most one assignment is open to a Worker, the latest one, whatever    *)
(* offers, recoveries, gates and aborts there were.                        *)
(***************************************************************************)
THEOREM OneAtWork == Spec => []OneLiveAssignment
<1>1. IInv => OneLiveAssignment
  BY HandsTypes DEF IInv
<1> QED
  BY <1>1, Inductive, PTL

(***************************************************************************)
(* The evidence of a completed assignment was submitted by its Worker      *)
(* under that very claim, or in the instant of the claim.                  *)
(***************************************************************************)
THEOREM EvidenceIsOfTheClaim == Spec => []EvidenceOfTheClaim
<1>1. IInv => EvidenceOfTheClaim
  BY HandsTypes DEF IInv
<1> QED
  BY <1>1, Inductive, PTL

(***************************************************************************)
(* No late report, completion, recovery or abort changes an assignment     *)
(* that has ended.                                                         *)
(***************************************************************************)
THEOREM EndedIsHistory == Spec => EndedAssignmentsStay
<1>1. IInv /\ [Next]_vars => EndedStay
  BY NextOK
<1>2. IInv /\ [Next]_vars =>
        [\A g \in Generations \ LiveGenerations : assignments'[g] = assignments[g]]_vars
  BY <1>1 DEF EndedStay
<1> QED
  BY <1>2, Inductive, PTL DEF EndedAssignmentsStay, Spec

(***************************************************************************)
(* A review is asked for the package of the call that asks, and once per   *)
(* call, however the commands of concurrent calls interleave.              *)
(***************************************************************************)
THEOREM ReviewsOwnPackage == Spec => []EachCallReviewsItsPackage
<1>1. IInv => EachCallReviewsItsPackage
  BY DEF IInv, Asked
<1> QED
  BY <1>1, Inductive, PTL

(***************************************************************************)
(* A call that has been answered replays when it is repeated as it was:    *)
(* with the version it gave, with the self-test it ran (which a retry      *)
(* takes from the Task as it is when the call begins), and for the plan it *)
(* packaged (which request_final_review reads from the Task of now).       *)
(***************************************************************************)
THEOREM AnsweredReplays == Spec => []AnsweredCallReplays
<1>1. ASSUME IInv, NEW k \in Keys, ~Fresh(k, "request"), calls[k].pc # "idle", SameCall(k)
      PROVE  ~Refused(k)
  <2> DEFINE r == receipts[k]
             c == calls[k]
  <2>1. /\ Chained(k) /\ Rows /\ c \in CallRow
        /\ r["package"] # NoReceipt /\ r["self_test"] # NoReceipt /\ r["request"] # NoReceipt
    BY <1>1 DEF IInv, Rows, Chained, ChainOf, Fresh
  <2>2. c.pc \in {"begin", "self_test", "snapshot", "package", "request"}
    BY <1>1, <2>1 DEF CallRow, Step, Commands
  <2>3. CASE c.pc = "begin"
    <3>1. r["begin"] = <<c.at, r["self_test"][1][1]>>
      BY <1>1, <2>1, <2>3 DEF SameCall, Chained, ChainOf
    <3> QED
      BY <2>3, <3>1 DEF Refused, Fresh, Replays, Expected, NoReceipt
  <2>4. CASE c.pc = "self_test"
    <3>1. r["self_test"][1][1] = c.at /\ r["self_test"][1][2] = c.test
      BY <1>1, <2>1, <2>4, ReceiptTypes DEF SameCall, Chained, ChainOf
    <3>2. r["self_test"][1] = <<c.at, c.test>>
      BY <2>1, <3>1, ReceiptTypes DEF Fresh
    <3> QED
      BY <2>1, <2>4, <3>2 DEF Refused, Fresh, Replays, Expected
  <2>5. CASE c.pc = "snapshot"
    BY <1>1, <2>5 DEF Refused, SameCall
  <2>6. CASE c.pc = "package"
    <3>1. /\ r["package"][1][1] \in Submission
          /\ r["package"][1] = <<r["package"][1][1], r["package"][1][2]>>
      BY <2>1, ReceiptTypes DEF Fresh
    <3>2. r["package"][1][1].rev = c.rev /\ r["package"][1][1].plan = c.plan
          /\ r["package"][1][1].results = c.results /\ r["package"][1][2] = c.at
      BY <1>1, <2>1, <2>6 DEF SameCall, Chained, ChainOf
    <3>3. r["package"][1][1] = PackageOf(k)
      BY <3>1, <3>2 DEF PackageOf, Submission
    <3>4. Replays(k, "package", <<PackageOf(k), Expected(k)>>)
      BY <2>1, <3>1, <3>2, <3>3 DEF Replays, Expected
    <3> QED
      BY <2>1, <2>6, <3>4 DEF Refused, Fresh
  <2>7. CASE c.pc = "request"
    <3>1. r["request"][1] = c.at
      BY <2>1, <2>7 DEF Chained, ChainOf
    <3> QED
      BY <2>1, <2>7, <3>1 DEF Refused, Fresh, Replays, Expected
  <2> QED
    BY <2>2, <2>3, <2>4, <2>5, <2>6, <2>7
<1>2. IInv => AnsweredCallReplays
  BY <1>1 DEF AnsweredCallReplays
<1> QED
  BY <1>2, Inductive, PTL

(***************************************************************************)
(* A package is only made of finished work: of the last assignment,        *)
(* completed, and for the plan the package names.                          *)
(***************************************************************************)
THEOREM PackagesAreFinished == Spec => PackagedWorkIsFinished
<1>1. IInv /\ [Next]_vars =>
        [\A n \in DOMAIN packages' \ DOMAIN packages :
           /\ assignments[Len(assignments)].status = "COMPLETED"
           /\ assignments[Len(assignments)].plan = packages'[n].plan]_vars
  BY NextOK DEF Finished
<1> QED
  BY <1>1, Inductive, PTL DEF PackagedWorkIsFinished, Spec

-----------------------------------------------------------------------------
(***************************************************************************)
(* The hand-over as AssignmentLife has it: of all generations, the latest. *)
(***************************************************************************)
HandStatus == IF assignments = <<>> THEN "NONE" ELSE assignments[Len(assignments)].status

HandLate == /\ assignments # <<>>
            /\ assignments[Len(assignments)].status = "CLAIMED"
            /\ assignments[Len(assignments)].lease <= now

HandOver == INSTANCE AssignmentLife WITH status <- HandStatus, late <- HandLate

\* The latest generation is the one that is live.
LEMMA HandIsLatest ==
  ASSUME HandsOK
  PROVE  /\ \A g \in LiveGenerations :
              /\ HandStatus = assignments[g].status
              /\ HandLate <=> assignments[g].status = "CLAIMED" /\ assignments[g].lease <= now
         /\ LiveGenerations = {} => HandStatus \notin HandOver!Live
         /\ HandStatus \notin HandOver!Live => ~HandLate
<1>1. assignments # <<>> <=> Len(assignments) \in Generations
  BY HandsTypes
<1>2. \A g \in LiveGenerations : g = Len(assignments) /\ g \in Generations
  BY HandsTypes DEF LiveGenerations
<1>3. \A g \in LiveGenerations :
        /\ HandStatus = assignments[g].status
        /\ HandLate <=> assignments[g].status = "CLAIMED" /\ assignments[g].lease <= now
  BY <1>1, <1>2 DEF HandStatus, HandLate
<1>4. LiveGenerations = {} => HandStatus \notin HandOver!Live
  BY <1>1 DEF LiveGenerations, LiveStatus, HandStatus, HandOver!Live
<1>5. HandStatus \notin HandOver!Live => ~HandLate
  BY DEF HandStatus, HandLate, HandOver!Live
<1> QED
  BY <1>3, <1>4, <1>5

\* A new generation is offered.
LEMMA AddedToHand ==
  ASSUME NEW rows \in Seq(Assignment), NEW plan \in Plans, assignments' = Append(rows, Offered(plan))
  PROVE  HandStatus' = "OFFERED" /\ ~HandLate'
<1>1. Offered(plan) \in Assignment
  BY Times DEF Offered, Assignment, LiveStatus
<1>2. /\ assignments' # <<>> /\ Len(assignments') = Len(rows) + 1
      /\ assignments'[Len(rows) + 1] = Offered(plan)
  BY <1>1, SequenceGrows
<1> QED
  BY <1>2 DEF HandStatus, HandLate, Offered

\* The live generation is another row.
LEMMA ChangedInHand ==
  ASSUME HandsOK, NEW g \in LiveGenerations, NEW row \in Assignment,
         assignments' = [assignments EXCEPT ![g] = row]
  PROVE  /\ HandStatus' = row.status
         /\ HandLate' <=> row.status = "CLAIMED" /\ row.lease <= now'
<1>1. g = Len(assignments) /\ g \in Generations
  BY HandsTypes DEF LiveGenerations
<1>2. Len(assignments') = Len(assignments) /\ assignments' # <<>> /\ assignments'[g] = row
  BY <1>1, HandsTypes, SequenceChanges DEF Generations
<1> QED
  BY <1>1, <1>2 DEF HandStatus, HandLate

\* What Builder and Human offer.
LEMMA OfferHands ==
  ASSUME HandsOK, NEW row, row.plan \in Plans \cup {NoPlan}, Offer(row)
  PROVE  HandOver!Next
<1>1. /\ row.plan \in Plans /\ LiveGenerations = {}
      /\ assignments' = Append(assignments, Offered(row.plan))
  BY DEF Offer
<1>2. HandStatus' = "OFFERED" /\ ~HandLate'
  BY <1>1, HandsTypes, AddedToHand
<1> QED
  BY <1>1, <1>2, HandIsLatest DEF HandOver!Next, HandOver!Offer

\* A Worker claims, with the whole lease before it.
LEMMA ClaimHands ==
  ASSUME HandsOK, NEW w \in Workers, Claim(w), UNCHANGED now
  PROVE  HandOver!Next
<1>1. PICK g \in LiveGenerations :
        /\ assignments[g].status = "OFFERED"
        /\ assignments' = [assignments EXCEPT ![g] =
             [assignments[g] EXCEPT !.status = "CLAIMED", !.worker = w, !.lease = now + LeaseTime,
                                    !.claimed = now]]
  BY DEF Claim
<1> DEFINE row == [assignments[g] EXCEPT !.status = "CLAIMED", !.worker = w,
                                         !.lease = now + LeaseTime, !.claimed = now]
<1>2. assignments[g] \in Assignment /\ now \in Time /\ now + LeaseTime \in Time
  BY HandsTypes, Times DEF LiveGenerations
<1>3. row \in Assignment /\ row.status = "CLAIMED" /\ row.lease = now + LeaseTime
  BY <1>2 DEF Assignment, LiveStatus
<1> HIDE DEF row
<1>4. ~(row.lease <= now)
  BY <1>3, HandsTypes, AssignmentConstants
<1>5. HandStatus' = "CLAIMED" /\ ~HandLate'
  BY <1>1, <1>3, <1>4, ChangedInHand DEF row
<1>6. HandLate' \in BOOLEAN
  BY DEF HandLate
<1> QED
  BY <1>1, <1>5, <1>6, HandIsLatest DEF HandOver!Next, HandOver!Claim

\* A report prolongs a lease that still runs, so a claim that is late stays so.
LEMMA ProgressHands ==
  ASSUME HandsOK, NEW w \in Workers, Progress(w), UNCHANGED now
  PROVE  UNCHANGED HandOver!vars
<1>1. PICK g \in Generations :
        /\ InTime(w, g)
        /\ assignments' = [assignments EXCEPT ![g].progress = now, ![g].lease = now + LeaseTime]
  BY DEF Progress
<1> DEFINE row == [assignments[g] EXCEPT !.progress = now, !.lease = now + LeaseTime]
<1>2. /\ assignments[g] \in Assignment /\ g \in LiveGenerations
      /\ assignments[g].status = "CLAIMED" /\ assignments[g].lease > now
  BY <1>1, HandsTypes DEF InTime, Holds, LiveGenerations, LiveStatus
<1>3. now \in Time /\ now + LeaseTime \in Time /\ now \in Nat
  BY HandsTypes, Times
<1>4. row \in Assignment /\ row.status = "CLAIMED" /\ row.lease = now + LeaseTime
  BY <1>2, <1>3 DEF Assignment, LiveStatus
<1>5. assignments' = [assignments EXCEPT ![g] = row]
  BY <1>1, <1>2, HandsTypes DEF Assignment
<1> HIDE DEF row
<1>6. ~(row.lease <= now) /\ ~(assignments[g].lease <= now)
  <2>1. assignments[g].lease \in Int
    BY <1>2, Times DEF Assignment
  <2> QED
    BY <1>2, <1>3, <1>4, <2>1, AssignmentConstants
<1>7. HandStatus' = "CLAIMED" /\ ~HandLate'
  BY <1>2, <1>4, <1>5, <1>6, ChangedInHand
<1>8. HandStatus = "CLAIMED" /\ ~HandLate
  BY <1>2, <1>6, HandIsLatest
<1>9. HandLate' = HandLate
  BY <1>7, <1>8 DEF HandLate
<1> QED
  BY <1>7, <1>8, <1>9 DEF HandOver!vars

\* A claim is completed within its lease.
LEMMA CompleteHands ==
  ASSUME HandsOK, NEW w \in Workers, NEW a \in DOMAIN uploads, Complete(w, a), UNCHANGED now
  PROVE  HandOver!Next
<1>1. PICK g \in Generations :
        /\ InTime(w, g)
        /\ assignments' = [assignments EXCEPT ![g] =
             [assignments[g] EXCEPT !.status = "COMPLETED", !.lease = 0, !.evidence = a]]
  BY DEF Complete
<1> DEFINE row == [assignments[g] EXCEPT !.status = "COMPLETED", !.lease = 0, !.evidence = a]
<1>2. /\ assignments[g] \in Assignment /\ g \in LiveGenerations
      /\ assignments[g].status = "CLAIMED" /\ assignments[g].lease > now
  BY <1>1, HandsTypes DEF InTime, Holds, LiveGenerations, LiveStatus
<1>3. a \in Nat /\ 0 \in Time
  BY HandsTypes, SequenceFacts, Times
<1>4. row \in Assignment /\ row.status = "COMPLETED"
  BY <1>2, <1>3 DEF Assignment, LiveStatus
<1> HIDE DEF row
<1>5. HandStatus' = "COMPLETED" /\ ~HandLate'
  BY <1>1, <1>2, <1>4, ChangedInHand DEF row
<1>6. HandStatus = "CLAIMED" /\ ~HandLate
  <2>1. assignments[g].lease \in Int /\ now \in Int
    BY <1>2, Times, HandsTypes DEF Assignment
  <2> QED
    BY <1>2, <2>1, HandIsLatest
<1> QED
  BY <1>5, <1>6 DEF HandOver!Next, HandOver!Complete

\* The Supervisor fences a claim, and offers its work if the Task executes.
LEMMA RecoverHands ==
  ASSUME HandsOK, Recover, UNCHANGED now
  PROVE  HandOver!Next
<1>1. PICK g \in LiveGenerations :
        /\ assignments[g].status = "CLAIMED" /\ assignments[g].lease <= now
        /\ LET fenced == [assignments EXCEPT ![g].status = "FROZEN", ![g].lease = 0]
           IN  assignments' = IF Executable
                              THEN Append(fenced, Offered(assignments[g].plan)) ELSE fenced
  BY DEF Recover
<1> DEFINE row == [assignments[g] EXCEPT !.status = "FROZEN", !.lease = 0]
           fenced == [assignments EXCEPT ![g] = row]
           plan == assignments[g].plan
<1>2. g \in Generations /\ g \in DOMAIN assignments /\ assignments[g] \in Assignment
  BY HandsTypes DEF LiveGenerations, Generations
<1>3. row \in Assignment /\ row.status = "FROZEN" /\ plan \in Plans
  BY <1>2, Times DEF Assignment, LiveStatus
<1>4. /\ [assignments EXCEPT ![g].status = "FROZEN", ![g].lease = 0] = fenced
      /\ assignments' = IF Executable THEN Append(fenced, Offered(plan)) ELSE fenced
  BY <1>1, <1>2, HandsTypes DEF Assignment
<1> HIDE DEF row, plan
<1>5. HandStatus' \in {"OFFERED", "FROZEN"} /\ ~HandLate'
  <2>1. fenced \in Seq(Assignment)
    BY <1>2, <1>3, HandsTypes, SequenceChanges DEF Generations
  <2>2. CASE Executable
    BY <1>3, <1>4, <2>1, <2>2, AddedToHand
  <2>3. CASE ~Executable
    BY <1>3, <1>4, <2>3, ChangedInHand
  <2> QED
    BY <2>2, <2>3
<1>6. HandStatus = "CLAIMED" /\ HandLate
  BY <1>1, HandIsLatest
<1> QED
  BY <1>5, <1>6 DEF HandOver!Next, HandOver!Recover

\* An abort cancels what is open.
LEMMA CancelHands ==
  ASSUME HandsOK, CancelAssignments, UNCHANGED now
  PROVE  [HandOver!Next]_(HandOver!vars)
<1>1. CASE LiveGenerations = {}
  <2>1. assignments' = assignments
    BY <1>1, HandsTypes DEF CancelAssignments, Generations
  <2> QED
    BY <2>1 DEF HandOver!vars, HandStatus, HandLate
<1>2. ASSUME NEW g \in LiveGenerations PROVE HandOver!Next
  <2> DEFINE row == [assignments[g] EXCEPT !.status = "CANCELLED", !.lease = 0]
  <2>1. /\ LiveGenerations = {g} /\ g \in Generations /\ assignments[g] \in Assignment
        /\ assignments[g].status \in LiveStatus
    BY HandsTypes DEF LiveGenerations
  <2>2. row \in Assignment /\ row.status = "CANCELLED"
    BY <2>1, Times DEF Assignment, LiveStatus
  <2>3. assignments' = [assignments EXCEPT ![g] = row]
    BY <2>1, HandsTypes DEF CancelAssignments, Generations
  <2> HIDE DEF row
  <2>4. HandStatus' = "CANCELLED" /\ ~HandLate'
    BY <2>2, <2>3, ChangedInHand
  <2> QED
    BY <2>1, <2>4, HandIsLatest
       DEF HandOver!Next, HandOver!Cancel, HandOver!Live, LiveStatus
<1> QED
  BY <1>1, <1>2

\* Time lets a lease run out, and no more.
LEMMA TickHands ==
  ASSUME HandsOK, Tick
  PROVE  [HandOver!Next]_(HandOver!vars)
<1>1. UNCHANGED assignments /\ now' = now + 1
  BY DEF Tick
<1>2. HandStatus' = HandStatus
  BY <1>1 DEF HandStatus
<1>3. HandLate => HandLate' /\ HandStatus = "CLAIMED"
  <2>1. HandLate => Len(assignments) \in Generations
    BY HandsTypes DEF HandLate
  <2>2. HandLate => assignments[Len(assignments)].lease \in Int /\ now \in Int
    BY <2>1, HandsTypes, Times DEF Assignment
  <2> QED
    BY <1>1, <2>2 DEF HandLate, HandStatus
<1>4. CASE HandLate' /\ ~HandLate
  <2>1. HandStatus = "CLAIMED"
    BY <1>1, <1>4 DEF HandLate, HandStatus
  <2> QED
    BY <1>2, <1>4, <2>1 DEF HandOver!Next, HandOver!Lapse
<1>5. CASE HandLate' <=> HandLate
  <2>1. HandLate' = HandLate
    BY <1>5 DEF HandLate
  <2> QED
    BY <1>2, <2>1 DEF HandOver!vars
<1> QED
  BY <1>3, <1>4, <1>5

\* Steps that leave assignments and clock alone.
LEMMA SameHands ==
  ASSUME UNCHANGED <<assignments, now>>
  PROVE  UNCHANGED HandOver!vars
BY DEF HandOver!vars, HandStatus, HandLate

\* Every step is one of that life, or none.
LEMMA HandStep ==
  ASSUME IInv, Next
  PROVE  [HandOver!Next]_(HandOver!vars)
<1>1. HandsOK /\ task \in TaskRow
  BY DEF IInv, Rows
<1>2. CASE \E k \in Keys : Chain(k)
  <2>1. PICK k \in Keys : Chain(k)
    BY <1>2
  <2>2. CASE Begin(k) /\ Offer(task) /\ UNCHANGED now
    BY <1>1, <2>2, OfferHands DEF TaskRow
  <2>3. Begin(k) => UNCHANGED now /\ (Offer(task) \/ UNCHANGED assignments)
    BY DEF Begin, world
  <2>4. CASE ~Begin(k)
    <3>1. UNCHANGED <<assignments, now>>
      BY <2>1, <2>4 DEF Chain, CallFinal, CallRetry, SelfTest, Snapshot, SubmitPackage, Request,
         Break, world
    <3> QED
      BY <3>1, SameHands
  <2> QED
    BY <2>2, <2>3, <2>4, SameHands
<1>3. ASSUME NEW w \in Workers, Hand(w) PROVE [HandOver!Next]_(HandOver!vars)
  <2>1. UNCHANGED now
    BY <1>3 DEF Hand
  <2>2. CASE SubmitEvidence(w)
    BY <2>1, <2>2, SameHands DEF SubmitEvidence
  <2> QED
    BY <1>1, <1>3, <2>1, <2>2, ClaimHands, ProgressHands, CompleteHands DEF Hand
<1>4. CASE Supervise
  BY <1>1, <1>4, RecoverHands DEF Supervise
<1>5. CASE Others
  <2>1. UNCHANGED now
    BY <1>5 DEF Others
  <2>2. CASE Abort
    BY <1>1, <2>1, <2>2, CancelHands DEF Abort
  <2>3. ASSUME NEW state, Offer([task EXCEPT !.state = state]) PROVE HandOver!Next
    <3>1. [task EXCEPT !.state = state].plan \in Plans \cup {NoPlan}
      BY <1>1 DEF TaskRow
    <3> QED
      BY <1>1, <2>3, <3>1, OfferHands
  <2>4. CASE \E state : Offer([task EXCEPT !.state = state])
    BY <2>3, <2>4
  <2>5. CASE UNCHANGED assignments
    BY <2>1, <2>5, SameHands
  <2>6. ASSUME NEW state, Rework(state) \/ Continue
        PROVE  UNCHANGED assignments \/ \E s : Offer([task EXCEPT !.state = s])
    BY <2>6 DEF Rework, Continue
  <2> QED
    BY <1>5, <2>2, <2>4, <2>5, <2>6 DEF Others, Reviewed, Replan, FailureGate, Escalate, TakeBack
<1>6. CASE Tick
  BY <1>1, <1>6, TickHands
<1> QED
  BY <1>2, <1>3, <1>4, <1>5, <1>6 DEF Next

(***************************************************************************)
(* For any Workers, keys and clock: the latest assignment lives as         *)
(* AssignmentLife says, whatever tools, gates, recoveries and aborts there *)
(* are: offered when none is open, completed within its lease, offered     *)
(* again only past it, and over when it has ended.                         *)
(***************************************************************************)
THEOREM AssignmentLives == Spec => HandOver!Spec
<1>1. Init => HandOver!Init
  BY DEF Init, HandOver!Init, HandStatus, HandLate
<1>2. IInv /\ [Next]_vars => [HandOver!Next]_(HandOver!vars)
  BY HandStep, SameHands DEF vars, world
<1> QED
  BY <1>1, <1>2, Inductive, PTL DEF Spec, HandOver!Spec
=============================================================================
