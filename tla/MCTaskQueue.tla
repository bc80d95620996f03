---------------------------- MODULE MCTaskQueue ----------------------------
(***************************************************************************)
(* Instances of TaskQueue for TLC.                                         *)
(***************************************************************************)
EXTENDS TaskQueue

CONSTANTS p1, p2, p3, fix, main

TameFairSpec == TameSpec /\ Fairness

\* Edits overlap with the work of others.
OverlapSpec == Init /\ [][Next /\ Timely /\ PicksAreExact]_vars
=============================================================================
