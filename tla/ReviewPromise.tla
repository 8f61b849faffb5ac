---------------------------- MODULE ReviewPromise ----------------------------
(***************************************************************************)
(* What the Hub promises the Reviewer and the Human of one Task: at most   *)
(* Limit reviews of each type, one at a time; code only under a plan the   *)
(* Reviewer has passed; a package only of such code; and one outcome, that *)
(* stays.  The Reviewer's PASS of the package is one, the others are the   *)
(* Human's: to accept a package whose review came to an end without a      *)
(* PASS, to override the review of one, or to cancel.                      *)
(*                                                                         *)
(* How a review is asked for, delivered, timed out or given up, who starts *)
(* and stops the work, and what becomes of findings, actions and Workers   *)
(* is not said here.  ReviewLifecycle implements it.                       *)
(***************************************************************************)
EXTENDS Naturals

CONSTANTS Plan,       \* what a Plan review may be about
          NoPlan,     \* the null plan
          NoPackage,  \* the null package
          Limit       \* reviews of each type

VARIABLES asked,      \* the number of reviews of each type
          review,     \* the type of the review that is open
          passed,     \* the plans that were passed
          judged,     \* the packages whose review came to a verdict
          approved,   \* the plan that may be coded
          package,    \* the package of the code
          coding,     \* whether the code may be changed
          outcome

vars == <<asked, review, passed, judged, approved, package, coding, outcome>>

Type == {"PLAN_REVIEW", "FINAL_REVIEW"}

Init ==
  /\ asked = [type \in Type |-> 0] /\ review = "NONE"
  /\ passed = {} /\ judged = {}
  /\ approved = NoPlan /\ package = NoPackage
  /\ coding = FALSE /\ outcome = "open"

Founded == approved \in passed

Ask(type) ==
  /\ review = "NONE" /\ ~coding
  /\ asked[type] < Limit
  /\ type = "FINAL_REVIEW" => package # NoPackage /\ Founded
  /\ asked' = [asked EXCEPT ![type] = @ + 1]
  /\ review' = type
  /\ UNCHANGED <<passed, judged, approved, package, coding, outcome>>

\* Changes are asked for, the review failed or timed out, or it is given up.
Close ==
  /\ review # "NONE"
  /\ review' = "NONE"
  /\ UNCHANGED <<asked, passed, judged, approved, package, coding, outcome>>

PassPlan(plan) ==
  /\ review = "PLAN_REVIEW"
  /\ review' = "NONE"
  /\ passed' = passed \cup {plan} /\ approved' = plan
  /\ UNCHANGED <<asked, judged, package, coding, outcome>>

JudgePackage ==
  /\ review = "FINAL_REVIEW"
  /\ review' = "NONE"
  /\ judged' = judged \cup {package}
  /\ \/ UNCHANGED outcome
     \/ Founded /\ outcome' = "passed"
  /\ UNCHANGED <<asked, passed, approved, package, coding>>

Code ==
  /\ review = "NONE" /\ ~coding
  /\ Founded
  /\ coding' = TRUE
  /\ UNCHANGED <<asked, review, passed, judged, approved, package, outcome>>

Halt ==
  /\ coding
  /\ coding' = FALSE
  /\ UNCHANGED <<asked, review, passed, judged, approved, package, outcome>>

\* The code was tested; no package is of it yet.
Test ==
  /\ coding /\ Founded
  /\ package' = NoPackage
  /\ coding' \in BOOLEAN
  /\ UNCHANGED <<asked, review, passed, judged, approved, outcome>>

Pack ==
  /\ review = "NONE" /\ ~coding
  /\ Founded
  /\ package' # NoPackage
  /\ UNCHANGED <<asked, review, passed, judged, approved, coding, outcome>>

\* A new plan, or none yet: what was approved and packed counts no more.
Replan ==
  /\ review = "NONE" /\ ~coding
  /\ approved' = NoPlan /\ package' = NoPackage
  /\ UNCHANGED <<asked, review, passed, judged, coding, outcome>>

Accept ==
  /\ review = "NONE" /\ ~coding
  /\ Founded /\ package \in judged
  /\ outcome' = "accepted"
  /\ UNCHANGED <<asked, review, passed, judged, approved, package, coding>>

Override ==
  /\ ~coding
  /\ Founded /\ package # NoPackage
  /\ review' = "NONE" /\ outcome' = "overridden"
  /\ UNCHANGED <<asked, passed, judged, approved, package, coding>>

Cancel ==
  /\ review' = "NONE" /\ coding' = FALSE /\ outcome' = "cancelled"
  /\ UNCHANGED <<asked, passed, judged, approved, package>>

Next ==
  /\ outcome = "open"
  /\ \/ \E type \in Type : Ask(type)
     \/ Close \/ \E plan \in Plan : PassPlan(plan)
     \/ JudgePackage
     \/ Code \/ Halt \/ Test \/ Pack
     \/ Replan \/ Accept \/ Override \/ Cancel

Spec == Init /\ [][Next]_vars
=============================================================================
