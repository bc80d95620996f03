----------------------------- MODULE RunRecords -----------------------------
(***************************************************************************)
(* What the bridge makes of TAKT's persistent state: the task list of      *)
(* `takt list` and the meta.json of every run (lib/takt-state.ts), and the *)
(* decisions taken on that summary (lib/takt-session-recovery.ts and       *)
(* blocksNewExecution of extensions/index.ts).  Everything here is pure.   *)
(*                                                                         *)
(* A time is only "recent", "old" (quieter than the 30 minutes of          *)
(* DEFAULT_OBSERVED_INACTIVITY_TTL_MS) or "none".  NoPid stands for a pid  *)
(* that is not recorded.  `alive` is the set of pids that have a process.  *)
(***************************************************************************)
EXTENDS Naturals, FiniteSets

CONSTANT NoPid

FinalStatuses == {"completed", "failed", "aborted"}
RunStatuses == FinalStatuses \cup {"running", "stale"}
SessionStatuses == {"live", "stale", "unknown", "completed"}
Ages == {"none", "recent", "old"}

NoSummary == [status |-> "none"]

-----------------------------------------------------------------------------
(* Classification of one record *)

\* findOwnerPid: the pid of the running task item of the same task text comes first.
OwnerPid(meta, items) ==
  LET owners == {i \in items : i.pid # NoPid /\ i.task = meta.task}
  IN  IF owners = {} THEN meta.pid ELSE (CHOOSE i \in owners : TRUE).pid

RunStatus(status, pid, alive) ==
  IF status = "running" /\ pid # NoPid /\ pid \notin alive THEN "stale" ELSE status

OwnerStatus(pid, alive) ==
  IF pid = NoPid THEN "unknown" ELSE IF pid \in alive THEN "live" ELSE "stale"

SnapshotOf(slug, meta, items, alive) ==
  LET pid == OwnerPid(meta, items)
  IN  [slug |-> slug, pid |-> pid,
       status |-> RunStatus(meta.status, pid, alive),
       session |-> IF meta.status = "running" THEN OwnerStatus(pid, alive) ELSE "completed"]

\* isActiveRunRecord
IsActive(run) == run.status \in {"running", "stale"} \/ run.session \in {"live", "stale"}

-----------------------------------------------------------------------------
(* The summary of a project *)

\* MUTANT: a stale record hides a live one.
StaleFirst(statuses) ==
  IF "stale" \in statuses THEN "stale"
  ELSE IF "live" \in statuses THEN "live"
  ELSE IF "completed" \in statuses /\ "unknown" \notin statuses THEN "completed" ELSE "unknown"

\* deriveSummarySessionStatus: the most alarming status wins.
Dominant(statuses) ==
  IF "live" \in statuses THEN "live"
  ELSE IF "stale" \in statuses THEN "stale"
  ELSE IF "completed" \in statuses /\ "unknown" \notin statuses THEN "completed" ELSE "unknown"

Newest(ages) == IF "recent" \in ages THEN "recent" ELSE IF "old" \in ages THEN "old" ELSE "none"

\* MUTANT: the running task items are left out.
SummaryOfRuns(runs, items, alive, age) ==
  [status |-> Dominant({r.session : r \in runs}),
   runs |-> runs,
   running |-> Cardinality({r \in runs : r.status = "running"}),
   troubled |-> \E r \in runs : r.status \in {"failed", "stale"},
   activity |-> Newest({age[r.slug] : r \in runs}),
   dated |-> Newest({age[r.slug] : r \in {s \in runs : IsActive(s)}})]

\* MUTANT: a run with both records counts twice.
SummaryAdds(runs, items, alive, age) ==
  [SummaryOfRuns(runs, items, alive, age) EXCEPT !.running = @ + Cardinality(items)]

\* readTaktSummary; `items` are the running task items, `age` is that of every record.
\* The summary keeps of the times the newest one, and the newest of the active runs.
SummaryOf(runs, items, alive, age) ==
  LET queued == Cardinality(items)
      active == Cardinality({r \in runs : r.status = "running"})
  IN  [status |-> Dominant({r.session : r \in runs} \cup {OwnerStatus(i.pid, alive) : i \in items}),
       runs |-> runs,
       running |-> IF queued > active THEN queued ELSE active,
       troubled |-> \E r \in runs : r.status \in {"failed", "stale"},
       activity |-> Newest({age[r.slug] : r \in runs} \cup {i.age : i \in items}),
       dated |-> Newest({age[r.slug] : r \in {s \in runs : IsActive(s)}})]

\* hasRecentTaktSummaryActivity
HasRecentActivity(summary) ==
  /\ summary # NoSummary
  /\ \/ summary.running > 0
     \/ summary.troubled /\ summary.activity # "old"

-----------------------------------------------------------------------------
(* Decisions *)

\* latestObservedActivityAt: the summary's own time is one of the stamps.
LatestActivity(summary) == Newest({summary.activity, summary.dated})

\* MUTANT: a record nobody owns blocks whatever its age.
UnaccountedForGood(summary) == summary.status = "unknown" /\ summary.running > 0

\* isUnaccountedRunningMetadata
Unaccounted(summary) ==
  /\ summary.status = "unknown" /\ summary.running > 0
  /\ LatestActivity(summary) # "old"

\* blocksNewExecution
Blocks(summary) ==
  summary # NoSummary /\ (summary.status = "live" \/ Unaccounted(summary))

\* MUTANT: reconcileObservedRuns takes every running record.
AllRunning(summary) == {r \in summary.runs : r.status \in {"stale", "running"}}

\* The records reconcileObservedRuns closes.
Reconcilable(summary) ==
  {r \in summary.runs : r.status = "stale" \/ (r.status = "running" /\ r.session = "unknown")}

TerminalStages == {"stopped", "completed", "failed"}

\* MUTANT: a finished PTY hides what is observed.
TerminalIsCompleted(stage, running, done, summary) ==
  IF stage \in TerminalStages THEN "completed"
  ELSE IF running THEN "live"
  ELSE IF done THEN "completed"
  ELSE IF summary # NoSummary THEN summary.status ELSE "unknown"

\* The status of resolveProjectSessionSnapshot: `running` is the bridge's PTY, `done` says
\* that its exit is known.
SessionShown(stage, running, done, summary) ==
  LET known == summary # NoSummary
      live == known /\ summary.status = "live"
      unaccounted == known /\ Unaccounted(summary)
  IN  IF stage \in TerminalStages
        THEN IF live \/ unaccounted THEN summary.status ELSE "completed"
      ELSE IF running THEN "live"
      ELSE IF live \/ (~done /\ known /\ (summary.status = "stale" \/ unaccounted))
        THEN summary.status
      ELSE IF done THEN "completed"
      ELSE IF known THEN summary.status ELSE "unknown"
=============================================================================
