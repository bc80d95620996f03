----------------------------- MODULE MCInputMode -----------------------------
(***************************************************************************)
(* Three projects, so that a view that selects, a pin and a session it may *)
(* wrongly move to differ; two runs each, so that a run can be taken for   *)
(* its successor.                                                          *)
(***************************************************************************)
EXTENDS InputMode

CONSTANTS a, b, c     \* projects

ThreeProjects == <<a, b, c>>
=============================================================================
