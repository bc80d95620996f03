-------------------------- MODULE MCProjectBridge --------------------------
(***************************************************************************)
(* Instances of ProjectBridge for TLC.  The constants are small: one cap   *)
(* above 1 so that a chain of follow-ups is seen, one pending task, since  *)
(* a decision only asks whether there is any, and one operator call at a   *)
(* time beside the refresh interval.                                       *)
(***************************************************************************)
EXTENDS ProjectBridge

CONSTANT op1     \* an operator call
=============================================================================
