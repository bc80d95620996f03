---------------------------- MODULE ObservedRuns ----------------------------
(***************************************************************************)
(* A Pi window beside TAKT processes it does not own: terminals and other  *)
(* windows start runs in the same projects, die, and leave records behind. *)
(* The window reads the records of a project into a summary, refuses a     *)
(* start on it, and closes records on the operator's takt_stop.  The PTY   *)
(* run of the window itself is one of the processes.                       *)
(***************************************************************************)
EXTENDS RunRecords

CONSTANTS
  Projects,   \* projects of the window
  Runs,       \* run slugs; a run starts at most once
  Tasks,      \* task texts
  Pids        \* process ids, each used again after its process is gone

ASSUME PidsAssumption == NoPid \notin Pids
ASSUME RunsAssumption == IsFiniteSet(Runs) /\ "free" \notin Runs /\ "other" \notin Runs
ASSUME ProjectsAssumption == Projects # {}

VARIABLES
  origin,   \* what a run is of: its project, its task text, whether TAKT records its pid
  run,      \* the records of a run on disk, and its process
  proc,     \* the process table
  seen,     \* ManagedProject.summary
  window,   \* ManagedProject.stage and its runner
  call      \* the operator call in flight

vars == <<origin, run, proc, seen, window, call>>

-----------------------------------------------------------------------------
(* Types *)

\* item: the run's entry in the task list.  status: meta.json, "torn" while TAKT
\* replaces it.  age: of the last write.  pid: of the process, whoever records it.
Run == [item: {"none", "running", "closed"},
        status: {"absent", "torn", "running"} \cup FinalStatuses,
        age: Ages, pid: Pids \cup {NoPid}]

Snapshot == [slug: Runs, pid: Pids \cup {NoPid}, status: RunStatuses, session: SessionStatuses]
Item == [pid: Pids \cup {NoPid}, task: Tasks, age: Ages]

Window == [stage: {"idle", "running", "stopping"} \cup TerminalStages,
           running: BOOLEAN, done: BOOLEAN, pid: Pids \cup {NoPid}]

\* items: the task list the call has read.  todo: the records still to be closed.
\* exposed: the recorded, living runs at that time, for the properties only.
Call == [job: {"none", "start", "stop", "force"},
         pc: {"idle", "list", "gate", "spawn", "kill", "read", "rename"},
         project: Projects, items: SUBSET Item, todo: SUBSET Runs, next: SUBSET Runs,
         closed: BOOLEAN, exposed: SUBSET Runs]

TypeOK ==
  /\ origin \in [Runs -> [home: Projects, task: Tasks, recorded: BOOLEAN]]
  /\ run \in [Runs -> Run]
  /\ proc \in [Pids -> Runs \cup {"free", "other"}]
  /\ \A p \in Projects : seen[p] = NoSummary \/
       /\ DOMAIN seen[p] = {"status", "runs", "running", "troubled", "activity", "dated"}
       /\ \A s \in seen[p].runs : s \in Snapshot
       /\ seen[p].status \in SessionStatuses /\ seen[p].running \in 0..Cardinality(Runs)
  /\ window \in [Projects -> Window]
  /\ call.project \in Projects /\ call.todo \cup call.next \cup call.exposed \subseteq Runs

-----------------------------------------------------------------------------
(* TAKT, wherever it was started *)

Alive(r) == run[r].pid # NoPid /\ proc[run[r].pid] = r
AlivePids == {pid \in Pids : proc[pid] # "free"}

Begin(r, pid, item) ==
  /\ run[r].pid = NoPid /\ proc[pid] = "free"
  /\ run' = [run EXCEPT ![r].pid = pid, ![r].item = item, ![r].age = "recent"]
  /\ proc' = [proc EXCEPT ![pid] = r]

\* `takt run` claims a task of the queue, `takt exec` has no entry there.
TaktBegins(r) ==
  /\ \E pid \in Pids, item \in {"none", "running"} : Begin(r, pid, item)
  /\ UNCHANGED <<origin, seen, window, call>>

\* Every write of meta.json replaces it, and a reader may meet the half of it.
TaktTears(r) ==
  /\ Alive(r) /\ run[r].status \in {"absent", "running"}
  /\ run' = [run EXCEPT ![r].status = "torn"]
  /\ UNCHANGED <<origin, proc, seen, window, call>>

TaktWrites(r) ==
  /\ Alive(r) /\ run[r].status = "torn"
  /\ \E s \in {"running", "completed", "failed"} :
       run' = [run EXCEPT ![r].status = s, ![r].age = "recent"]
  /\ UNCHANGED <<origin, proc, seen, window, call>>

TaktClosesItem(r) ==
  /\ Alive(r) /\ run[r].item = "running" /\ run[r].status \in FinalStatuses
  /\ run' = [run EXCEPT ![r].item = "closed"]
  /\ UNCHANGED <<origin, proc, seen, window, call>>

\* onExit of the runner: a stop, or an outcome already settled, keeps the stage.
Exited(p, outcome) ==
  [window EXCEPT ![p].running = FALSE, ![p].done = TRUE, ![p].pid = NoPid,
                 ![p].stage = IF @ \in TerminalStages \cup {"stopping"} THEN @ ELSE outcome]

\* The process ends, in order or not; a file torn by a crash stays torn.
ProcessGone(pid) ==
  /\ proc[pid] # "free"
  /\ proc' = [proc EXCEPT ![pid] = "free"]
  /\ window' \in {IF \E p \in Projects : window[p].pid = pid
                    THEN Exited(CHOOSE p \in Projects : window[p].pid = pid, outcome)
                    ELSE window : outcome \in {"completed", "failed"}}
  /\ UNCHANGED <<origin, run, seen, call>>

\* The operating system gives a free pid to a process that is not TAKT.
PidReused(pid) ==
  /\ proc[pid] = "free" /\ \E r \in Runs : run[r].pid = pid
  /\ proc' = [proc EXCEPT ![pid] = "other"]
  /\ UNCHANGED <<origin, run, seen, window, call>>

Older(age) == IF age = "recent" THEN "old" ELSE age

\* Half an hour without a write.  A call is shorter than that.
TimePasses ==
  /\ call.pc = "idle"
  /\ run' = [r \in Runs |-> [run[r] EXCEPT !.age = Older(@)]]
  /\ seen' = [p \in Projects |->
                IF seen[p] = NoSummary THEN NoSummary
                ELSE [seen[p] EXCEPT !.activity = Older(@), !.dated = Older(@)]]
  /\ UNCHANGED <<origin, proc, window, call>>

-----------------------------------------------------------------------------
(* Reading the records *)

RecordedPid(r) == IF origin[r].recorded THEN run[r].pid ELSE NoPid

\* readTaskItems, its running items.
ItemsOf(p) ==
  {[pid |-> RecordedPid(r), task |-> origin[r].task, age |-> run[r].age] :
     r \in {q \in Runs : origin[q].home = p /\ run[q].item = "running"}}

\* readRunSnapshots: a record that cannot be read is left out of this poll.
Readable(p) == {r \in Runs : origin[r].home = p /\ run[r].status \notin {"absent", "torn"}}

SnapshotsOf(p, items) ==
  {SnapshotOf(r, [status |-> run[r].status, pid |-> RecordedPid(r), task |-> origin[r].task],
              items, AlivePids) : r \in Readable(p)}

Summarised(p, items) ==
  SummaryOf(SnapshotsOf(p, items), items, AlivePids, [r \in Runs |-> run[r].age])

\* The refresh of the interval reads no task list.
Refresh(p) ==
  /\ seen' = [seen EXCEPT ![p] = Summarised(p, {})]
  /\ UNCHANGED <<origin, run, proc, window, call>>

-----------------------------------------------------------------------------
(* startPending: refreshControlState, the gate, the start *)

NoCall(p) == [job |-> "none", pc |-> "idle", project |-> p, items |-> {}, todo |-> {},
              next |-> {}, closed |-> FALSE, exposed |-> {}]
Free == call.pc = "idle"
Done == call' = NoCall(call.project)

CallStart(p) ==
  /\ Free /\ ~window[p].running
  /\ call' = [NoCall(p) EXCEPT !.job = "start", !.pc = "list"]
  /\ UNCHANGED <<origin, run, proc, seen, window>>

\* `takt list` answers, or it fails and the call ends.
ListTasks ==
  /\ call.pc = "list"
  /\ \/ call' = [call EXCEPT !.pc = "gate", !.items = ItemsOf(call.project),
                   !.exposed = {r \in Runs : /\ origin[r].home = call.project
                                             /\ origin[r].recorded /\ Alive(r)
                                             /\ run[r].item = "running" \/ run[r].status = "running"}]
     \/ Done
  /\ UNCHANGED <<origin, run, proc, seen, window>>

\* The rest of the refresh, and blocksNewExecution in the same turn.
PassGate ==
  /\ call.pc = "gate"
  /\ seen' = [seen EXCEPT ![call.project] = Summarised(call.project, call.items)]
  /\ IF Blocks(seen'[call.project]) THEN Done ELSE call' = [call EXCEPT !.pc = "spawn", !.items = {}, !.exposed = {}]
  /\ UNCHANGED <<origin, run, proc, window>>

Started(pid) == [stage |-> "running", running |-> TRUE, done |-> FALSE, pid |-> pid]

Spawn ==
  /\ call.pc = "spawn"
  /\ \/ \E r \in Runs, pid \in Pids, item \in {"none", "running"} :
          /\ origin[r].home = call.project
          /\ Begin(r, pid, item)
          /\ window' = [window EXCEPT ![call.project] = Started(pid)]
     \/ /\ window' = [window EXCEPT ![call.project].stage = "failed"]
        /\ UNCHANGED <<run, proc>>
  /\ Done
  /\ UNCHANGED <<origin, seen>>

-----------------------------------------------------------------------------
(* stopActive *)

\* activeObservedProject, for a window that runs in none of its projects.
Observed ==
  LET active == {p \in Projects : HasRecentActivity(seen[p])}
  IN  IF active # {} THEN active ELSE {p \in Projects : seen[p] # NoSummary}

\* The project of the call: a name, the one with a running PTY, or, to reconcile, the
\* one with observed activity.
StopTargets(force, named) ==
  IF named THEN Projects
  ELSE IF \E p \in Projects : window[p].running THEN {p \in Projects : window[p].running}
  ELSE IF force THEN Observed ELSE {}

Slugs(snapshots) == {s.slug : s \in snapshots}

\* Nothing of its own runs here: with forceObserved the observed records are closed.
StopObserved(force, p) ==
  /\ ~window[p].running /\ force
  /\ seen[p] # NoSummary /\ Reconcilable(seen[p]) # {}
  /\ call' = [NoCall(p) EXCEPT !.job = "force", !.pc = "read",
                               !.todo = Slugs(Reconcilable(seen[p]))]
  /\ UNCHANGED <<seen, window>>

\* The PTY is stopped, and the record with its pid closed afterwards.
StopOwned(p) ==
  /\ window[p].running
  /\ \E tracked \in {{r} : r \in {s \in (IF seen[p] = NoSummary THEN {} ELSE seen[p].runs) :
                                    s.pid = window[p].pid /\ s.status = "running"}} \cup {{}} :
       call' = [NoCall(p) EXCEPT !.job = "stop", !.pc = "kill", !.todo = Slugs(tracked)]
  /\ window' = [window EXCEPT ![p].stage = "stopping"]
  /\ UNCHANGED seen

CallStop ==
  /\ Free
  /\ \E force, named \in BOOLEAN : \E p \in StopTargets(force, named) :
       StopObserved(force, p) \/ StopOwned(p)
  /\ UNCHANGED <<origin, run, proc>>

\* runner.stop, waitForExit, dispose.
Kill ==
  /\ call.pc = "kill"
  /\ LET pid == window[call.project].pid
     IN  proc' = IF pid = NoPid THEN proc ELSE [proc EXCEPT ![pid] = "free"]
  /\ window' = Exited(call.project, "failed")
  /\ call' = [call EXCEPT !.pc = "read"]
  /\ UNCHANGED <<origin, run, seen>>

\* The PTY survives the stop, or takes too long, and the call throws.
KillFails ==
  /\ call.pc = "kill"
  /\ window' = [window EXCEPT ![call.project].stage = "failed"]
  /\ Done
  /\ UNCHANGED <<origin, run, proc, seen>>

\* MUTANT: the record is not looked at again.
ReadAnything(r) == run[r].status # "absent"

\* reconcileRunAsAborted goes on only with a readable record that still says running.
StillRunning(r) == run[r].status = "running"

ReadRecord ==
  /\ call.pc = "read"
  /\ \E r \in call.todo :
       call' = IF StillRunning(r)
                 THEN [call EXCEPT !.pc = "rename", !.next = {r}, !.todo = @ \ {r}]
                 ELSE [call EXCEPT !.todo = @ \ {r}]
  /\ UNCHANGED <<origin, run, proc, seen, window>>

\* What it read, with the status aborted, replaces the file.
RenameRecord ==
  /\ call.pc = "rename"
  /\ run' = [r \in Runs |-> IF r \in call.next
                              THEN [run[r] EXCEPT !.status = "aborted", !.age = "recent"]
                              ELSE run[r]]
  /\ call' = [call EXCEPT !.pc = "read", !.next = {}, !.closed = TRUE]
  /\ UNCHANGED <<origin, proc, seen, window>>

FinishStop ==
  /\ call.pc = "read" /\ call.todo = {}
  /\ seen' = IF call.closed THEN [seen EXCEPT ![call.project] = Summarised(call.project, {})]
             ELSE seen
  /\ window' = IF call.job = "stop" THEN [window EXCEPT ![call.project].stage = "stopped"]
               ELSE window
  /\ Done
  /\ UNCHANGED <<origin, run, proc>>

-----------------------------------------------------------------------------

Init ==
  /\ origin \in [Runs -> [home: Projects, task: Tasks, recorded: BOOLEAN]]
  /\ run = [r \in Runs |-> [item |-> "none", status |-> "absent", age |-> "none", pid |-> NoPid]]
  /\ proc = [pid \in Pids |-> "free"]
  /\ seen = [p \in Projects |-> NoSummary]
  /\ window = [p \in Projects |->
                 [stage |-> "idle", running |-> FALSE, done |-> FALSE, pid |-> NoPid]]
  /\ call = NoCall(CHOOSE p \in Projects : TRUE)

Takt(r) == TaktBegins(r) \/ TaktTears(r) \/ TaktWrites(r) \/ TaktClosesItem(r)

Next ==
  \/ \E r \in Runs : Takt(r)
  \/ \E pid \in Pids : ProcessGone(pid) \/ PidReused(pid)
  \/ TimePasses
  \/ \E p \in Projects : Refresh(p) \/ CallStart(p)
  \/ ListTasks \/ PassGate \/ Spawn
  \/ CallStop \/ Kill \/ KillFails \/ ReadRecord \/ RenameRecord \/ FinishStop

Spec == Init /\ [][Next]_vars

-----------------------------------------------------------------------------
(* Properties *)

\* Another run of the project has the same task text, so findOwnerPid may take its pid.
Confusable(r) ==
  \E q \in Runs \ {r} : origin[q].home = origin[r].home /\ origin[q].task = origin[r].task

Known(r) == origin[r].recorded /\ ~Confusable(r)

\* The bridge never marks as aborted the record of a run whose process is alive, however
\* old the summary is on which the operator forces it (reconcileObservedRuns, stopActive).
ReconcileSparesTheLiving ==
  [][\A r \in Runs : Known(r) /\ run[r].status # "aborted" /\ call.pc = "rename" /\ r \in call.next
       => ~Alive(r)]_vars

\* A record TAKT has finished is not rewritten by the bridge between its read and its
\* rename (reconcileRunAsAborted).
FinishedStaysFinished ==
  [][\A r \in Runs : Known(r) /\ run[r].status \in {"completed", "failed"} /\ RenameRecord
       => run'[r].status = run[r].status]_vars

\* A run that lived and recorded its pid when the start began, and lives and is not
\* finished at the gate, stops the start (startPending, blocksNewExecution); only a
\* meta.json caught half-written, of a run outside the queue, escapes the poll.
LiveRunBlocksStart ==
  [][call.pc = "gate" /\ call'.pc = "spawn" =>
       \A r \in call.exposed :
         Known(r) /\ Alive(r) => run[r].item = "none" /\ run[r].status # "running"]_vars

\* Once the processes of a project are gone, and no other has taken a recorded pid, half
\* an hour later a refresh finds nothing left that blocks a start, whatever records the
\* dead runs left behind (blocksNewExecution: orphaned metadata "must not block every
\* later start forever").
AllGone(p) ==
  \A r \in Runs : origin[r].home = p /\ run[r].pid # NoPid =>
    proc[run[r].pid] = "free" /\ run[r].age = "old"
OrphansStopBlocking ==
  \A p \in Projects : AllGone(p) => ~Blocks(Summarised(p, ItemsOf(p)))

\* The end of the bridge's own PTY never makes the project look finished while the
\* summary knows of live or unaccounted work (resolveProjectSessionSnapshot).
FinishedHidesNothing ==
  \A p \in Projects :
    LET w == window[p]
    IN  w.stage # "stopping" /\ SessionShown(w.stage, w.running, w.done, seen[p]) = "completed"
          => ~Blocks(seen[p])
=============================================================================
