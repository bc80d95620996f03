--------------------------- MODULE MCObservedRuns ---------------------------
(***************************************************************************)
(* Instances of ObservedRuns for TLC.                                      *)
(***************************************************************************)
EXTENDS ObservedRuns, TLC
CONSTANTS a, b, r1, r2, t1, t2, p1, p2

\* No two runs are of the same task, and at most one records no pid.
Distinct ==
  \A r, q \in Runs : r # q =>
    origin[r].task # origin[q].task /\ (origin[r].recorded \/ origin[q].recorded)

DistinctInit == Init /\ Distinct
DistinctSpec == DistinctInit /\ [][Next]_vars

Alike == Permutations(Runs) \cup Permutations(Tasks) \cup Permutations(Pids)
=============================================================================
