---------------------------- MODULE MCInputQueue ----------------------------
(***************************************************************************)
(* Two plain lines, whose order can be lost, and one destructive line; two *)
(* runs, so that what one session left meets the next.                     *)
(***************************************************************************)
EXTENDS InputQueue, TLC

CONSTANTS l1, l2, rm     \* lines

Alike == Permutations({l1, l2})
=============================================================================
