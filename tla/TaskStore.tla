----------------------------- MODULE TaskStore -----------------------------
(***************************************************************************)
(* What the pending-task file promises to those who use it: a set of tasks *)
(* that changes one task at a time, or all at once when TAKT claims them.  *)
(* There are no locks, no processes and no file here; TaskQueue implements *)
(* this.  A task has the directory, name and branch of its record, and its *)
(* status with the run of TAKT that owns it.                               *)
(***************************************************************************)
EXTENDS Naturals

CONSTANT NoBranch    \* a task without a branch directive

VARIABLES
  tasks,      \* the tasks of the project
  takt,       \* TAKT: which run it is, and whether it is alive
  answered,   \* directories of the tasks reported as enqueued
  dropped     \* directories of the tasks the user chose to delete

vars == <<tasks, takt, answered, dropped>>

\* Pending, or running for a run of TAKT that is alive.
Busy(t) == t.status = "pending" \/ (t.status = "running" /\ takt.up /\ t.owner = takt.run)

Init == tasks = {} /\ takt = [run |-> 0, up |-> FALSE] /\ answered = {} /\ dropped = {}

\* A new task has a name and a directory that no other has, and a branch that no busy task
\* asks for.
Enqueue ==
  \E t \in tasks' :
    /\ tasks' = tasks \cup {t}
    /\ t.status = "pending" /\ t.dir \notin answered \cup dropped
    /\ \A u \in tasks : u.name # t.name /\ u.dir # t.dir
    /\ t.branch # NoBranch => \A u \in tasks : Busy(u) => u.branch # t.branch
    /\ UNCHANGED <<takt, answered, dropped>>

\* Only a task that is stored is reported as enqueued.
Answer ==
  /\ \E t \in tasks : answered' = answered \cup {t.dir}
  /\ UNCHANGED <<tasks, takt, dropped>>

ChooseToDelete ==
  /\ \E d \in dropped' : dropped' = dropped \cup {d}
  /\ UNCHANGED <<tasks, takt, answered>>

\* Only what the user chose goes.
Delete ==
  /\ \E t \in tasks : t.dir \in dropped /\ tasks' = tasks \ {t}
  /\ UNCHANGED <<takt, answered, dropped>>

Reset ==
  /\ \E t \in tasks : tasks' = (tasks \ {t}) \cup {[t EXCEPT !.status = "pending", !.owner = 0]}
  /\ UNCHANGED <<takt, answered, dropped>>

\* TAKT claims what is pending and gives up what a run before it left.
Claim ==
  /\ ~takt.up
  /\ takt' = [run |-> takt.run + 1, up |-> TRUE]
  /\ tasks' = {IF t.status = "pending" THEN [t EXCEPT !.status = "running", !.owner = takt'.run]
               ELSE [t EXCEPT !.status = "done"] : t \in tasks}
  /\ UNCHANGED <<answered, dropped>>

Finish ==
  /\ \E t \in tasks :
       /\ Busy(t) /\ t.status = "running"
       /\ tasks' = (tasks \ {t}) \cup {[t EXCEPT !.status = "done"]}
  /\ UNCHANGED <<takt, answered, dropped>>

Leave ==
  /\ takt.up
  /\ takt' = [takt EXCEPT !.up = FALSE]
  /\ UNCHANGED <<tasks, answered, dropped>>

Next == Enqueue \/ Answer \/ ChooseToDelete \/ Delete \/ Reset \/ Claim \/ Finish \/ Leave

Spec == Init /\ [][Next]_vars
=============================================================================
