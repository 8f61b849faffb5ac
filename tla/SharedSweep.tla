----------------------------- MODULE SharedSweep -----------------------------
(***************************************************************************)
(* One Task among the others of the Hub.  Commands and events of different *)
(* Tasks do not meet, but TimeoutService.sweep handles all Tasks in one    *)
(* transaction: a Task whose time-out raises undoes the time-outs of all   *)
(* the others, on every tick, until it is out of the way.  That is a Task  *)
(* that awaits a Human approval past its own deadline, and only cancel     *)
(* ends it (OnlyApprovalDefiesSweep in ReviewSafety_proofs; decide_action  *)
(* needs a live Task).                                                     *)
(*   defiant  the other Tasks that are in this state                       *)
(* The rest of the other Tasks is left out.  Here is what the Supervisor   *)
(* guarantees of the Task that ReviewLifecycle follows, and what not.      *)
(***************************************************************************)
EXTENDS ReviewSafety

CONSTANT Others   \* the other Tasks

VARIABLE defiant

sharedVars == <<vars, defiant>>

SharedInit == Init /\ defiant \in SUBSET Others

\* The deadline of a Task that awaits a Human approval passes.
OtherDefies(t) ==
  /\ defiant' = defiant \cup {t}
  /\ UNCHANGED vars

\* cancel; a later Task may take its place.
OtherCancelled(t) ==
  /\ defiant' = defiant \ {t}
  /\ UNCHANGED vars

\* TimeoutService.sweep, all of it or nothing.
SweepTick == defiant = {} /\ Sweep /\ UNCHANGED defiant

(***************************************************************************)
(* recover_assignments is a transaction of its own.  An exception in the   *)
(* sweep right before it skips it, but a Task may come to defy the sweep   *)
(* between the two, so it may run in any state.                            *)
(***************************************************************************)
SharedNext ==
  \/ (Builder \/ Worker \/ Reviewer \/ Delivery \/ RecoverAssignment \/ Human \/ Clock)
     /\ UNCHANGED defiant
  \/ SweepTick
  \/ \E t \in Others \ defiant : OtherDefies(t)
  \/ \E t \in defiant : OtherCancelled(t)

SharedSpec == SharedInit /\ [][SharedNext]_sharedVars

(***************************************************************************)
(* Time passes, and the Supervisor calls the sweep on every tick whatever  *)
(* it raised before.  No person and no Agent has to act, so a Task may     *)
(* defy the sweep for ever; and nothing is assumed of RecoverAssignment.   *)
(***************************************************************************)
Fairness == /\ WF_vars(TaskDeadline) /\ WF_vars(ReviewDeadline)
            /\ WF_sharedVars(SweepTick)

FairSpec == SharedSpec /\ Fairness

-----------------------------------------------------------------------------
(***************************************************************************)
(* A review never stays open for good: a silent or late Reviewer loses to  *)
(* the deadline and the sweep, unless another Task defies the sweep.  When *)
(* that Task is cancelled the obligation is there again.                   *)
(***************************************************************************)
ReviewEventuallyCloses == task.active # NoRR ~> task.active = NoRR \/ defiant # {}

(***************************************************************************)
(* Left alone, automation always comes back to a person or ends, unless    *)
(* another Task defies the sweep again and again or for good.  A Task that *)
(* awaits a Human approval is with a person already.                       *)
(***************************************************************************)
AtRest == task.state \in Terminal \cup HumanGate \cup {"ESCALATED", "AWAITING_HUMAN_APPROVAL"}

AutomationComesToRest == []<>(AtRest \/ defiant # {})
=============================================================================
