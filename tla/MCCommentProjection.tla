------------------------- MODULE MCCommentProjection -------------------------
(***************************************************************************)
(* A small instance of CommentProjection for TLC.                          *)
(***************************************************************************)
EXTENDS CommentProjection

CONSTANTS worker, once

\* The Supervisor's worker and a project-once command.
TwoProjectors == {worker, once}
=============================================================================
