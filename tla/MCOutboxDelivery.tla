-------------------------- MODULE MCOutboxDelivery --------------------------
(***************************************************************************)
(* Small instances of OutboxDelivery for TLC.                              *)
(***************************************************************************)
EXTENDS OutboxDelivery

CONSTANTS supervisor, once

\* The Supervisor's Dispatcher and the one of a dispatch-once command.
TwoDispatchers == {supervisor, once}
=============================================================================
