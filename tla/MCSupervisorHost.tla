-------------------------- MODULE MCSupervisorHost --------------------------
(***************************************************************************)
(* A Supervisor of two workers, and one or two callers of /ready.          *)
(***************************************************************************)
EXTENDS SupervisorHost

CONSTANTS dispatch, recovery, p1

TwoWorkers == <<recovery, dispatch>>
OneProber == {p1}
=============================================================================
