------------------------- MODULE ObservedRunsProofs -------------------------
(***************************************************************************)
(* Proofs about ObservedRuns, for any number of projects, runs, tasks and  *)
(* pids, and without the restriction to distinct tasks of the TLC runs.    *)
(***************************************************************************)
EXTENDS ObservedRuns, FiniteSetTheorems, TLAPS

-----------------------------------------------------------------------------
(* The invariant *)

Summary == [status: SessionStatuses, runs: SUBSET Snapshot, running: 0..Cardinality(Runs),
            troubled: BOOLEAN, activity: Ages, dated: Ages]

Types ==
  /\ origin \in [Runs -> [home: Projects, task: Tasks, recorded: BOOLEAN]]
  /\ run \in [Runs -> Run]
  /\ proc \in [Pids -> Runs \cup {"free", "other"}]
  /\ seen \in [Projects -> Summary \cup {NoSummary}]
  /\ window \in [Projects -> Window]
  /\ call \in Call

\* Records are written by a process, and the task list is closed after meta.json.
RecordsInv ==
  \A r \in Runs :
    /\ run[r].pid = NoPid => run[r].status = "absent" /\ run[r].item = "none"
    /\ run[r].item = "closed" => run[r].status \in FinalStatuses

\* The outcome of the PTY is known only at an end.
WindowInv == \A p \in Projects : window[p].done => window[p].stage \in TerminalStages \cup {"stopping"}

\* A run that began and has no process any more.
Gone(r) == run[r].pid # NoPid /\ proc[run[r].pid] # r

\* A snapshot of a known run has its pid, and calls it stale only once it is gone.
Faithful(s) ==
  Known(s.slug) =>
    /\ s.pid # NoPid /\ s.pid = run[s.slug].pid
    /\ s.session # "unknown"
    /\ s.status = "stale" => Gone(s.slug)

SeenInv == \A p \in Projects : seen[p] # NoSummary => \A s \in seen[p].runs : Faithful(s)

\* A task list that was read holds the pids of runs of the project that have begun.
ListOf(items, p) ==
  /\ items \subseteq Item
  /\ IsFiniteSet(items) /\ Cardinality(items) <= Cardinality(Runs)
  /\ \A i \in items : \E q \in Runs :
       /\ origin[q].home = p /\ origin[q].task = i.task
       /\ i.pid = RecordedPid(q) /\ run[q].pid # NoPid

ExposedInv ==
  \A r \in call.exposed :
    /\ origin[r].home = call.project /\ origin[r].recorded /\ run[r].pid # NoPid
    /\ run[r].item = "none" \/ \E i \in call.items : i.pid = run[r].pid

\* A stop closes the records of its own PTY, or of runs that are gone.
Stopped(r) == run[r].pid # NoPid /\ (Gone(r) \/ run[r].pid = window[call.project].pid)

StopInv ==
  /\ call.pc = "kill" => \A r \in call.todo : Known(r) => Stopped(r)
  /\ call.pc \in {"read", "rename"} => \A r \in call.todo : Known(r) => Gone(r)
  /\ call.pc = "rename" => \A r \in call.next :
       /\ run[r].pid # NoPid
       /\ Known(r) => Gone(r) /\ StillRunning(r)

ObservedInv ==
  /\ Types
  /\ RecordsInv
  /\ WindowInv
  /\ SeenInv
  /\ ListOf(call.items, call.project)
  /\ ExposedInv
  /\ StopInv

-----------------------------------------------------------------------------
(* The operators of RunRecords *)

LEMMA AgesOfSummaries == \A ages : Newest(ages) \in Ages
  BY DEF Newest, Ages

LEMMA DominantIsAStatus == \A statuses : Dominant(statuses) \in SessionStatuses
  BY DEF Dominant, SessionStatuses

\* The owner's pid is the one the record has, or that of an item with its task text.
LEMMA OwnerIsRecorded ==
  ASSUME NEW meta, NEW items
  PROVE  \/ OwnerPid(meta, items) = meta.pid
         \/ \E i \in items : /\ i.pid # NoPid /\ i.task = meta.task
                             /\ OwnerPid(meta, items) = i.pid
  BY DEF OwnerPid

-----------------------------------------------------------------------------
(* A summary that is read now *)

\* The values of a function on a finite set are no more than its arguments.
LEMMA FiniteImage ==
  ASSUME NEW S, IsFiniteSet(S), NEW f
  PROVE  /\ IsFiniteSet({f[x] : x \in S})
         /\ Cardinality({f[x] : x \in S}) <= Cardinality(S)
<1> DEFINE T == {f[x] : x \in S}
           g == [t \in T |-> CHOOSE x \in S : f[x] = t]
<1>1. \A t \in T : g[t] \in S /\ f[g[t]] = t
  OBVIOUS
<1>2. g \in [T -> S]
  BY <1>1
<1> HIDE DEF g, T
<1>3. g \in Injection(T, S)
  BY <1>1, <1>2, SMT DEF Injection, IsInjective
<1>4. IsFiniteSet(T) /\ Cardinality(T) <= Cardinality(S)
  BY <1>3, FS_Injection
<1> QED  BY <1>4 DEF T

Meta(r) == [status |-> run[r].status, pid |-> RecordedPid(r), task |-> origin[r].task]

LEMMA RecordedPids ==
  ASSUME Types, NEW r \in Runs
  PROVE  /\ RecordedPid(r) \in Pids \cup {NoPid}
         /\ Known(r) => RecordedPid(r) = run[r].pid
  BY DEF Types, RecordedPid, Known, Run

\* The pid of a readable record is the one it recorded, or that of a run of its task text.
LEMMA OwnerOfRun ==
  ASSUME Types, NEW p \in Projects, NEW items, ListOf(items, p), NEW r \in Readable(p)
  PROVE  /\ OwnerPid(Meta(r), items) \in Pids \cup {NoPid}
         /\ Known(r) => OwnerPid(Meta(r), items) = run[r].pid
<1>1. r \in Runs /\ origin[r].home = p
  BY DEF Readable
<1>2. Meta(r).pid = RecordedPid(r) /\ Meta(r).task = origin[r].task
  BY DEF Meta
<1>3. CASE OwnerPid(Meta(r), items) = Meta(r).pid
  BY <1>1, <1>2, <1>3, RecordedPids
<1>4. CASE \E i \in items : /\ i.pid # NoPid /\ i.task = Meta(r).task
                            /\ OwnerPid(Meta(r), items) = i.pid
  <2>1. PICK i \in items : /\ i.pid # NoPid /\ i.task = origin[r].task
                           /\ OwnerPid(Meta(r), items) = i.pid
    BY <1>2, <1>4
  <2>2. PICK q \in Runs : /\ origin[q].home = p /\ origin[q].task = i.task
                          /\ i.pid = RecordedPid(q)
    BY <2>1 DEF ListOf
  <2>3. Known(r) => q = r
    BY <1>1, <2>1, <2>2 DEF Known, Confusable
  <2> QED  BY <1>1, <2>1, <2>2, <2>3, RecordedPids
<1> QED  BY <1>3, <1>4, OwnerIsRecorded

LEMMA SnapshotTypes ==
  ASSUME Types, NEW p \in Projects, NEW items, ListOf(items, p), NEW r \in Readable(p)
  PROVE  SnapshotOf(r, Meta(r), items, AlivePids) \in Snapshot
<1> DEFINE pid == OwnerPid(Meta(r), items)
<1>1. r \in Runs /\ run[r].status \in FinalStatuses \cup {"running"}
  BY DEF Readable, Types, Run
<1>2. pid \in Pids \cup {NoPid}
  BY OwnerOfRun
<1>3. Meta(r).status = run[r].status
  BY DEF Meta
<1>4. RunStatus(Meta(r).status, pid, AlivePids) \in RunStatuses
  BY <1>1, <1>3 DEF RunStatus, RunStatuses
<1>5. OwnerStatus(pid, AlivePids) \in SessionStatuses /\ "completed" \in SessionStatuses
  BY DEF OwnerStatus, SessionStatuses
<1> QED  BY <1>1, <1>2, <1>4, <1>5 DEF SnapshotOf, Snapshot

LEMMA SnapshotIsFaithful ==
  ASSUME Types, RecordsInv, NEW p \in Projects, NEW items, ListOf(items, p),
         NEW r \in Readable(p)
  PROVE  Faithful(SnapshotOf(r, Meta(r), items, AlivePids))
<1> DEFINE pid == OwnerPid(Meta(r), items)
           s == SnapshotOf(r, Meta(r), items, AlivePids)
<1>1. r \in Runs /\ run[r].status \notin {"absent", "torn"}
  BY DEF Readable
<1>2. run[r].pid # NoPid /\ run[r].pid \in Pids
  BY <1>1 DEF RecordsInv, Types, Run
<1>3. /\ s.slug = r /\ s.pid = pid
      /\ s.status = RunStatus(run[r].status, pid, AlivePids)
      /\ s.session \in {OwnerStatus(pid, AlivePids), "completed"}
  BY DEF SnapshotOf, Meta
<1>4. SUFFICES ASSUME Known(r)
               PROVE  /\ s.pid # NoPid /\ s.pid = run[r].pid
                      /\ s.session # "unknown"
                      /\ s.status = "stale" => Gone(r)
  BY <1>3 DEF Faithful
<1>5. pid = run[r].pid
  BY <1>4, OwnerOfRun
<1>6. s.session # "unknown"
  BY <1>2, <1>3, <1>5 DEF OwnerStatus
<1>7. ASSUME s.status = "stale"  PROVE Gone(r)
  <2>1. run[r].status # "stale"
    BY <1>1 DEF Types, Run, FinalStatuses
  <2>2. pid \notin AlivePids
    BY <1>3, <1>7, <2>1 DEF RunStatus
  <2>3. proc[run[r].pid] = "free"
    BY <1>2, <1>5, <2>2 DEF AlivePids
  <2> QED  BY <1>1, <1>2, <2>3, RunsAssumption DEF Gone
<1> QED  BY <1>2, <1>3, <1>5, <1>6, <1>7

\* What a poll reads fits the records.
LEMMA SnapshotsOfAPoll ==
  ASSUME Types, RecordsInv, NEW p \in Projects, NEW items, ListOf(items, p)
  PROVE  /\ SnapshotsOf(p, items) \in SUBSET Snapshot
         /\ \A s \in SnapshotsOf(p, items) : Faithful(s)
         /\ IsFiniteSet(SnapshotsOf(p, items))
         /\ Cardinality(SnapshotsOf(p, items)) <= Cardinality(Runs)
         /\ IsFiniteSet(Runs) /\ Cardinality(Runs) \in Nat
<1> DEFINE Shot(r) == SnapshotOf(r, Meta(r), items, AlivePids)
<1>1. SnapshotsOf(p, items) = {Shot(r) : r \in Readable(p)}
  BY DEF SnapshotsOf, Meta
<1>2. \A r \in Readable(p) : Shot(r) \in Snapshot /\ Faithful(Shot(r))
  BY SnapshotTypes, SnapshotIsFaithful
<1>3. IsFiniteSet(Readable(p)) /\ Cardinality(Readable(p)) <= Cardinality(Runs)
  BY RunsAssumption, FS_Subset DEF Readable
<1> HIDE DEF Shot
<1>4. /\ IsFiniteSet({Shot(r) : r \in Readable(p)})
      /\ Cardinality({Shot(r) : r \in Readable(p)}) <= Cardinality(Readable(p))
  <2> DEFINE f == [r \in Readable(p) |-> Shot(r)]
  <2>1. {Shot(r) : r \in Readable(p)} = {f[r] : r \in Readable(p)}
    OBVIOUS
  <2> HIDE DEF f
  <2> QED  BY <1>3, <2>1, FiniteImage
<1>5. /\ Cardinality(Readable(p)) \in Nat /\ Cardinality(Runs) \in Nat
      /\ Cardinality({Shot(r) : r \in Readable(p)}) \in Nat
  BY <1>3, <1>4, RunsAssumption, FS_CardinalityType
<1> QED  BY <1>1, <1>2, <1>3, <1>4, <1>5, RunsAssumption

LEMMA SummaryTypes ==
  ASSUME Types, RecordsInv, NEW p \in Projects, NEW items, ListOf(items, p)
  PROVE  /\ Summarised(p, items) \in Summary
         /\ Summarised(p, items).runs = SnapshotsOf(p, items)
<1> DEFINE shots == SnapshotsOf(p, items)
           sum == Summarised(p, items)
           running == {r \in shots : r.status = "running"}
<1>1. IsFiniteSet(running) /\ Cardinality(running) <= Cardinality(shots)
  BY SnapshotsOfAPoll, FS_Subset
<1>2. /\ Cardinality(running) \in 0..Cardinality(Runs)
      /\ Cardinality(items) \in 0..Cardinality(Runs)
  <2>1. /\ Cardinality(running) \in Nat /\ Cardinality(shots) \in Nat
        /\ Cardinality(items) \in Nat
    BY <1>1, SnapshotsOfAPoll, FS_CardinalityType DEF ListOf
  <2> QED  BY <1>1, <2>1, SnapshotsOfAPoll DEF ListOf
<1>3. /\ DOMAIN sum = {"status", "runs", "running", "troubled", "activity", "dated"}
      /\ sum.runs = shots
      /\ sum.running \in {Cardinality(items), Cardinality(running)}
  BY DEF Summarised, SummaryOf
<1>4. sum.troubled \in BOOLEAN
  BY DEF Summarised, SummaryOf
<1>5. sum.status \in SessionStatuses
  BY DominantIsAStatus DEF Summarised, SummaryOf
<1>6. sum.activity \in Ages /\ sum.dated \in Ages
  BY AgesOfSummaries DEF Summarised, SummaryOf
<1>7. sum = [status |-> sum.status, runs |-> sum.runs, running |-> sum.running,
             troubled |-> sum.troubled, activity |-> sum.activity, dated |-> sum.dated]
  BY DEF Summarised, SummaryOf
<1>8. shots \in SUBSET Snapshot
  BY SnapshotsOfAPoll
<1> HIDE DEF sum, shots, running
<1>9. sum \in Summary
  BY <1>2, <1>3, <1>4, <1>5, <1>6, <1>7, <1>8 DEF Summary
<1> QED  BY <1>3, <1>9 DEF sum, shots

-----------------------------------------------------------------------------
(* What no step takes back *)

\* A run has one process in its life, and enters the task list with it or never.
Persists ==
  /\ origin' = origin
  /\ \A r \in Runs : run[r].pid # NoPid =>
       /\ run'[r].pid = run[r].pid
       /\ proc[run[r].pid] # r => proc'[run[r].pid] # r
       /\ run[r].item = "none" => run'[r].item = "none"

LEMMA BeginTypes ==
  ASSUME Types, RecordsInv, NEW r \in Runs, NEW pid \in Pids,
         NEW item \in {"none", "running"}, Begin(r, pid, item), origin' = origin
  PROVE  /\ run' \in [Runs -> Run]
         /\ proc' \in [Pids -> Runs \cup {"free", "other"}]
         /\ RecordsInv'
         /\ Persists
<1>1. /\ run[r].pid = NoPid /\ proc[pid] = "free"
      /\ run' = [run EXCEPT ![r].pid = pid, ![r].item = item, ![r].age = "recent"]
      /\ proc' = [proc EXCEPT ![pid] = r]
  BY DEF Begin
<1>2. /\ \A q \in Runs \ {r} : run'[q] = run[q]
      /\ run'[r].pid = pid /\ run'[r].item = item /\ run'[r].status = run[r].status
  BY <1>1 DEF Types, Run
<1>3. run' \in [Runs -> Run] /\ proc' \in [Pids -> Runs \cup {"free", "other"}]
  <2>1. [run[r] EXCEPT !.pid = pid, !.item = item, !.age = "recent"] \in Run
    BY DEF Types, Run, Ages
  <2>2. run' = [run EXCEPT ![r] = [run[r] EXCEPT !.pid = pid, !.item = item, !.age = "recent"]]
    BY <1>1 DEF Types, Run
  <2>3. run' \in [Runs -> Run]
    BY <2>1, <2>2 DEF Types
  <2> QED  BY <1>1, <2>3 DEF Types
<1>4. RecordsInv'
  BY <1>2, PidsAssumption DEF RecordsInv
<1>5. \A q \in Runs \ {r} : \A c \in Pids : proc[c] # q => proc'[c] # q
  BY <1>1 DEF Types
<1>6. \A q \in Runs : run[q].pid \in Pids \cup {NoPid}
  BY DEF Types, Run
<1>7. Persists
  BY <1>1, <1>2, <1>5, <1>6 DEF Persists
<1> QED  BY <1>3, <1>4, <1>7

\* A step that writes a record leaves its process alone.
LEMMA RewriteTypes ==
  ASSUME Types, RecordsInv, NEW r \in Runs, NEW q \in Run,
         run' = [run EXCEPT ![r] = q], UNCHANGED <<origin, proc>>,
         q.pid = run[r].pid, run[r].pid # NoPid,
         run[r].item = "none" => q.item = "none",
         q.item = "closed" => q.status \in FinalStatuses
  PROVE  /\ run' \in [Runs -> Run]
         /\ RecordsInv'
         /\ Persists
<1>1. run' \in [Runs -> Run] /\ run'[r] = q /\ \A x \in Runs \ {r} : run'[x] = run[x]
  BY DEF Types
<1>2. RecordsInv'
  BY <1>1 DEF RecordsInv
<1>3. Persists
  BY <1>1 DEF Persists
<1> QED  BY <1>1, <1>2, <1>3

LEMMA AbortTypes ==
  ASSUME Types, RecordsInv, RenameRecord, \A r \in call.next : run[r].pid # NoPid
  PROVE  /\ run' \in [Runs -> Run]
         /\ RecordsInv'
         /\ Persists
<1> DEFINE Closed(r) == [run[r] EXCEPT !.status = "aborted", !.age = "recent"]
<1>1. /\ run' = [r \in Runs |-> IF r \in call.next THEN Closed(r) ELSE run[r]]
      /\ UNCHANGED <<origin, proc>>
  BY DEF RenameRecord
<1>2. \A r \in Runs : /\ Closed(r) \in Run
                      /\ Closed(r).pid = run[r].pid /\ Closed(r).item = run[r].item
                      /\ Closed(r).status = "aborted"
  BY DEF Types, Run, Ages, FinalStatuses
<1> HIDE DEF Closed
<1>3. run' \in [Runs -> Run]
  BY <1>1, <1>2 DEF Types
<1>4. RecordsInv'
  BY <1>1, <1>2 DEF RecordsInv, FinalStatuses
<1>5. Persists
  BY <1>1, <1>2 DEF Persists
<1> QED  BY <1>3, <1>4, <1>5

\* Half an hour changes only the ages.
LEMMA AgeTypes ==
  ASSUME ObservedInv, TimePasses
  PROVE  /\ run' \in [Runs -> Run]
         /\ seen' \in [Projects -> Summary \cup {NoSummary}]
         /\ RecordsInv'
         /\ Persists
         /\ \A p \in Projects : seen'[p] # NoSummary =>
              seen[p] # NoSummary /\ seen'[p].runs = seen[p].runs
<1> DEFINE Aged(r) == [run[r] EXCEPT !.age = Older(@)]
           Later(p) == [seen[p] EXCEPT !.activity = Older(@), !.dated = Older(@)]
<1>1. /\ run' = [r \in Runs |-> Aged(r)]
      /\ seen' = [p \in Projects |-> IF seen[p] = NoSummary THEN NoSummary ELSE Later(p)]
      /\ UNCHANGED <<origin, proc>>
  BY DEF TimePasses
<1>2. \A age \in Ages : Older(age) \in Ages
  BY DEF Older, Ages
<1>3. \A r \in Runs : /\ Aged(r) \in Run
                      /\ Aged(r).pid = run[r].pid /\ Aged(r).item = run[r].item
                      /\ Aged(r).status = run[r].status
  BY <1>2 DEF ObservedInv, Types, Run
<1>4. \A p \in Projects : seen[p] # NoSummary =>
        Later(p) \in Summary /\ Later(p).runs = seen[p].runs
  <2> SUFFICES ASSUME NEW p \in Projects, seen[p] # NoSummary
               PROVE  Later(p) \in Summary /\ Later(p).runs = seen[p].runs
    OBVIOUS
  <2>1. seen[p] \in Summary
    BY DEF ObservedInv, Types
  <2> QED  BY <1>2, <2>1 DEF Summary
<1> HIDE DEF Aged, Later
<1>5. run' \in [Runs -> Run]
  BY <1>1, <1>3
<1>6. seen' \in [Projects -> Summary \cup {NoSummary}]
  BY <1>1, <1>4
<1>7. RecordsInv'
  BY <1>1, <1>3 DEF ObservedInv, RecordsInv
<1>8. Persists
  BY <1>1, <1>3 DEF Persists
<1>9. \A p \in Projects : seen'[p] # NoSummary =>
        seen[p] # NoSummary /\ seen'[p].runs = seen[p].runs
  BY <1>1, <1>4
<1> QED  BY <1>5, <1>6, <1>7, <1>8, <1>9

-----------------------------------------------------------------------------
(* What persists keeps what was read true *)

LEMMA GonePersists ==
  ASSUME Types, Persists, NEW r \in Runs, Gone(r)
  PROVE  Gone(r)'
  BY DEF Gone, Persists

LEMMA KnownPersists ==
  ASSUME Persists, NEW r \in Runs
  PROVE  /\ Known(r)' <=> Known(r)
         /\ run[r].pid # NoPid => RecordedPid(r)' = RecordedPid(r)
  BY DEF Persists, Known, Confusable, RecordedPid

LEMMA FaithfulPersists ==
  ASSUME Types, Persists, NEW s \in Snapshot, Faithful(s)
  PROVE  Faithful(s)'
<1>1. s.slug \in Runs
  BY DEF Snapshot
<1>2. SUFFICES ASSUME Known(s.slug)'
               PROVE  /\ s.pid # NoPid /\ s.pid = run'[s.slug].pid
                      /\ s.session # "unknown"
                      /\ s.status = "stale" => Gone(s.slug)'
  BY DEF Faithful
<1>3. Known(s.slug)
  BY <1>1, <1>2, KnownPersists
<1>4. /\ s.pid # NoPid /\ s.pid = run[s.slug].pid
      /\ s.session # "unknown"
      /\ s.status = "stale" => Gone(s.slug)
  BY <1>3 DEF Faithful
<1>5. run'[s.slug].pid = run[s.slug].pid
  BY <1>1, <1>4 DEF Persists
<1> QED  BY <1>1, <1>4, <1>5, GonePersists

\* The summaries of the window are those it had, or one that was read just now.
LEMMA SeenPersists ==
  ASSUME Types, SeenInv, Persists,
         \A p \in Projects : seen'[p] # NoSummary =>
           seen[p] # NoSummary /\ seen'[p].runs = seen[p].runs
  PROVE  SeenInv'
<1> SUFFICES ASSUME NEW p \in Projects, seen'[p] # NoSummary, NEW s \in seen'[p].runs
             PROVE  Faithful(s)'
  BY DEF SeenInv
<1>1. seen[p] # NoSummary /\ s \in seen[p].runs
  OBVIOUS
<1>2. seen[p] \in Summary
  BY <1>1 DEF Types
<1>3. s \in Snapshot
  BY <1>1, <1>2 DEF Summary
<1>4. Faithful(s)
  BY <1>1 DEF SeenInv
<1> QED  BY <1>3, <1>4, FaithfulPersists

LEMMA SeenIsRead ==
  ASSUME Types, RecordsInv, SeenInv, UNCHANGED <<origin, run, proc>>,
         NEW p \in Projects, NEW items, ListOf(items, p),
         seen' = [seen EXCEPT ![p] = Summarised(p, items)]
  PROVE  /\ seen' \in [Projects -> Summary \cup {NoSummary}]
         /\ SeenInv'
<1>1. Summarised(p, items) \in Summary
      /\ \A s \in Summarised(p, items).runs : Faithful(s)
  BY SummaryTypes, SnapshotsOfAPoll
<1>2. /\ seen'[p] = Summarised(p, items)
      /\ \A q \in Projects \ {p} : seen'[q] = seen[q]
      /\ seen' \in [Projects -> Summary \cup {NoSummary}]
  BY <1>1 DEF Types
<1>3. \A s : Faithful(s)' <=> Faithful(s)
  BY DEF Faithful, Known, Confusable, Gone
<1>4. SeenInv'
  BY <1>1, <1>2, <1>3 DEF SeenInv
<1> QED  BY <1>2, <1>4

LEMMA ListPersists ==
  ASSUME Persists, UNCHANGED call, ListOf(call.items, call.project)
  PROVE  ListOf(call.items, call.project)'
<1>1. \A q \in Runs : run[q].pid # NoPid =>
        /\ RecordedPid(q)' = RecordedPid(q) /\ run'[q].pid # NoPid
        /\ origin'[q] = origin[q]
  BY KnownPersists DEF Persists
<1> QED  BY <1>1 DEF ListOf

\* The call in flight is untouched; the PTY it stops may end.
LEMMA CallPersists ==
  ASSUME Types, Persists, UNCHANGED call, ListOf(call.items, call.project), ExposedInv, StopInv,
         \A r \in Runs : StillRunning(r) /\ Gone(r) => StillRunning(r)',
         \A r \in Runs : run[r].pid # NoPid /\ run[r].pid = window[call.project].pid =>
           Gone(r)' \/ window'[call.project].pid = window[call.project].pid
  PROVE  /\ ListOf(call.items, call.project)'
         /\ ExposedInv'
         /\ StopInv'
<1>1. call.todo \subseteq Runs /\ call.next \subseteq Runs /\ call.exposed \subseteq Runs
  BY DEF Types, Call
<1>2. ListOf(call.items, call.project)'
  BY ListPersists
<1>3. ExposedInv'
  BY <1>1 DEF ExposedInv, Persists
<1>4. \A r \in Runs : Known(r)' => Known(r)
  BY KnownPersists
<1>5. \A r \in Runs : /\ Stopped(r) => Stopped(r)'
                      /\ Gone(r) => Gone(r)'
                      /\ run[r].pid # NoPid => run'[r].pid # NoPid
  BY GonePersists DEF Stopped, Persists
<1>6. call.pc = "kill" => \A r \in call.todo : Known(r)' => Stopped(r)'
  BY <1>1, <1>4, <1>5 DEF StopInv
<1>7. call.pc \in {"read", "rename"} => \A r \in call.todo : Known(r)' => Gone(r)'
  BY <1>1, <1>4, <1>5 DEF StopInv
<1>8. call.pc = "rename" => \A r \in call.next :
        run'[r].pid # NoPid /\ (Known(r)' => Gone(r)' /\ StillRunning(r)')
  BY <1>1, <1>4, <1>5 DEF StopInv
<1>9. StopInv'
  BY <1>6, <1>7, <1>8 DEF StopInv
<1> QED  BY <1>2, <1>3, <1>9

-----------------------------------------------------------------------------
(* Steps outside the operator's calls *)

LEMMA ExitedTypes ==
  ASSUME Types, WindowInv, NEW p \in Projects, NEW outcome \in {"completed", "failed"}
  PROVE  /\ Exited(p, outcome) \in [Projects -> Window]
         /\ \A q \in Projects : Exited(p, outcome)[q].done =>
              Exited(p, outcome)[q].stage \in TerminalStages \cup {"stopping"}
         /\ \A q \in Projects \ {p} : Exited(p, outcome)[q] = window[q]
<1> DEFINE stage == IF window[p].stage \in TerminalStages \cup {"stopping"}
                      THEN window[p].stage ELSE outcome
           w == [window[p] EXCEPT !.running = FALSE, !.done = TRUE, !.pid = NoPid,
                                  !.stage = stage]
<1>1. stage \in TerminalStages \cup {"stopping"}
  BY DEF TerminalStages
<1>2. w \in Window /\ w.stage = stage
  BY <1>1 DEF Types, Window
<1>3. Exited(p, outcome) = [window EXCEPT ![p] = w]
  BY DEF Types, Window, Exited
<1> HIDE DEF w, stage
<1> QED  BY <1>1, <1>2, <1>3 DEF Types, WindowInv

\* A step of TAKT or of the operating system that the window does not see.
LEMMA UnseenStep ==
  ASSUME ObservedInv, Persists, RecordsInv',
         run' \in [Runs -> Run],
         proc' \in [Pids -> Runs \cup {"free", "other"}],
         UNCHANGED <<seen, window, call>>,
         \A r \in Runs : StillRunning(r) /\ Gone(r) => StillRunning(r)'
  PROVE  ObservedInv'
<1>1. Types'
  BY DEF ObservedInv, Types, Persists
<1>2. WindowInv'
  BY DEF ObservedInv, WindowInv
<1>3. SeenInv'
  BY SeenPersists DEF ObservedInv
<1>4. /\ ListOf(call.items, call.project)' /\ ExposedInv' /\ StopInv'
  BY CallPersists DEF ObservedInv
<1> QED  BY <1>1, <1>2, <1>3, <1>4 DEF ObservedInv

LEMMA TaktBeginsStep ==
  ASSUME ObservedInv, NEW r \in Runs, TaktBegins(r)
  PROVE  ObservedInv'
<1>1. PICK pid \in Pids, item \in {"none", "running"} : Begin(r, pid, item)
  BY DEF TaktBegins
<1>2. UNCHANGED <<origin, seen, window, call>>
  BY DEF TaktBegins
<1>3. /\ run' \in [Runs -> Run]
      /\ proc' \in [Pids -> Runs \cup {"free", "other"}]
      /\ RecordsInv'
      /\ Persists
  BY <1>1, <1>2, BeginTypes DEF ObservedInv
<1>4. \A q \in Runs : StillRunning(q) => StillRunning(q)'
  BY <1>1 DEF Begin, StillRunning, ObservedInv, Types, Run
<1> QED  BY <1>2, <1>3, <1>4, UnseenStep

LEMMA TaktRewrites ==
  ASSUME ObservedInv, NEW r \in Runs, TaktTears(r) \/ TaktWrites(r) \/ TaktClosesItem(r)
  PROVE  ObservedInv'
<1>1. /\ run[r] \in Run /\ Alive(r) /\ run[r].pid # NoPid
      /\ UNCHANGED <<origin, proc, seen, window, call>>
      /\ run[r].item = "closed" => run[r].status \in FinalStatuses
  BY DEF TaktTears, TaktWrites, TaktClosesItem, ObservedInv, Types, Alive, RecordsInv
<1>2. \E q \in Run :
        /\ run' = [run EXCEPT ![r] = q]
        /\ q.pid = run[r].pid
        /\ run[r].item = "none" => q.item = "none"
        /\ q.item = "closed" => q.status \in FinalStatuses
  <2>1. CASE TaktTears(r)
    <3> DEFINE q == [run[r] EXCEPT !.status = "torn"]
    <3>1. q \in Run /\ q.pid = run[r].pid /\ q.item = run[r].item
      BY <1>1 DEF Run
    <3>2. run' = [run EXCEPT ![r] = q]
      BY <2>1 DEF TaktTears
    <3>3. run[r].item # "closed"
      BY <1>1, <2>1 DEF TaktTears, FinalStatuses
    <3> QED  BY <3>1, <3>2, <3>3
  <2>2. CASE TaktWrites(r)
    <3>1. PICK s \in {"running", "completed", "failed"} :
            run' = [run EXCEPT ![r].status = s, ![r].age = "recent"]
      BY <2>2 DEF TaktWrites
    <3> DEFINE q == [run[r] EXCEPT !.status = s, !.age = "recent"]
    <3>2. q \in Run /\ q.pid = run[r].pid /\ q.item = run[r].item
      BY <1>1 DEF Run, Ages, FinalStatuses
    <3>3. run' = [run EXCEPT ![r] = q]
      BY <1>1, <3>1 DEF Run, ObservedInv, Types
    <3>4. run[r].item # "closed"
      BY <1>1, <2>2 DEF TaktWrites, FinalStatuses
    <3> QED  BY <3>2, <3>3, <3>4
  <2>3. CASE TaktClosesItem(r)
    <3> DEFINE q == [run[r] EXCEPT !.item = "closed"]
    <3>1. q \in Run /\ q.pid = run[r].pid /\ q.status \in FinalStatuses
      BY <1>1, <2>3 DEF Run, TaktClosesItem
    <3>2. run' = [run EXCEPT ![r] = q] /\ run[r].item # "none"
      BY <2>3 DEF TaktClosesItem
    <3> QED  BY <3>1, <3>2
  <2> QED  BY <2>1, <2>2, <2>3
<1>3. /\ run' \in [Runs -> Run]
      /\ RecordsInv'
      /\ Persists
  BY <1>1, <1>2, RewriteTypes DEF ObservedInv
<1>4. \A q \in Runs : StillRunning(q) /\ Gone(q) => StillRunning(q)'
  BY <1>1, <1>2 DEF StillRunning, Gone, Alive, ObservedInv, Types
<1>5. proc' \in [Pids -> Runs \cup {"free", "other"}]
  BY <1>1 DEF ObservedInv, Types
<1> QED  BY <1>1, <1>3, <1>4, <1>5, UnseenStep

LEMMA PidReusedStep ==
  ASSUME ObservedInv, NEW pid \in Pids, PidReused(pid)
  PROVE  ObservedInv'
<1>1. /\ proc' = [proc EXCEPT ![pid] = "other"]
      /\ UNCHANGED <<origin, run, seen, window, call>>
  BY DEF PidReused
<1>2. proc' \in [Pids -> Runs \cup {"free", "other"}]
  BY <1>1 DEF ObservedInv, Types
<1>3. Persists
  BY <1>1, RunsAssumption DEF Persists, ObservedInv, Types, Run
<1>4. RecordsInv' /\ run' \in [Runs -> Run]
  BY <1>1 DEF ObservedInv, RecordsInv, Types
<1>5. \A r \in Runs : StillRunning(r) => StillRunning(r)'
  BY <1>1 DEF StillRunning
<1> QED  BY <1>1, <1>2, <1>3, <1>4, <1>5, UnseenStep

LEMMA ProcessGoneStep ==
  ASSUME ObservedInv, NEW pid \in Pids, ProcessGone(pid)
  PROVE  ObservedInv'
<1>1. /\ proc' = [proc EXCEPT ![pid] = "free"]
      /\ UNCHANGED <<origin, run, seen, call>>
  BY DEF ProcessGone
<1>2. proc' \in [Pids -> Runs \cup {"free", "other"}]
  BY <1>1 DEF ObservedInv, Types
<1>3. Persists
  BY <1>1, RunsAssumption DEF Persists, ObservedInv, Types, Run
<1>4. RecordsInv' /\ run' \in [Runs -> Run]
  BY <1>1 DEF ObservedInv, RecordsInv, Types
<1>5. /\ window' \in [Projects -> Window]
      /\ WindowInv'
      /\ \A p \in Projects : window'[p] = window[p] \/ window[p].pid = pid
  <2>1. CASE \E p \in Projects : window[p].pid = pid
    <3> DEFINE own == CHOOSE p \in Projects : window[p].pid = pid
    <3>1. own \in Projects /\ window[own].pid = pid
      BY <2>1
    <3>2. PICK outcome \in {"completed", "failed"} : window' = Exited(own, outcome)
      BY <2>1 DEF ProcessGone
    <3> HIDE DEF own
    <3> QED  BY <3>1, <3>2, ExitedTypes DEF ObservedInv, WindowInv
  <2>2. CASE ~\E p \in Projects : window[p].pid = pid
    <3>1. window' = window
      BY <2>2 DEF ProcessGone
    <3> QED  BY <3>1 DEF ObservedInv, Types, WindowInv
  <2> QED  BY <2>1, <2>2
<1>6. \A r \in Runs : run[r].pid # NoPid /\ run[r].pid = window[call.project].pid =>
        Gone(r)' \/ window'[call.project].pid = window[call.project].pid
  <2>1. call.project \in Projects
    BY DEF ObservedInv, Types, Call
  <2>2. proc'[pid] = "free"
    BY <1>1 DEF ObservedInv, Types
  <2> QED  BY <1>1, <1>5, <2>1, <2>2, RunsAssumption DEF Gone
<1>7. Types'
  BY <1>1, <1>2, <1>4, <1>5 DEF ObservedInv, Types
<1>8. SeenInv'
  BY <1>1, <1>3, SeenPersists DEF ObservedInv
<1>9. \A r \in Runs : StillRunning(r) => StillRunning(r)'
  BY <1>1 DEF StillRunning
<1>10. /\ ListOf(call.items, call.project)' /\ ExposedInv' /\ StopInv'
  BY <1>1, <1>3, <1>6, <1>9, CallPersists DEF ObservedInv
<1> QED  BY <1>4, <1>5, <1>7, <1>8, <1>10 DEF ObservedInv

LEMMA TimePassesStep ==
  ASSUME ObservedInv, TimePasses
  PROVE  ObservedInv'
<1>1. UNCHANGED <<origin, proc, window, call>>
  BY DEF TimePasses
<1>2. Types'
  BY <1>1, AgeTypes DEF ObservedInv, Types
<1>3. WindowInv'
  BY <1>1 DEF ObservedInv, WindowInv
<1>4. SeenInv'
  BY AgeTypes, SeenPersists DEF ObservedInv
<1>5. \A r \in Runs : StillRunning(r) => StillRunning(r)'
  BY DEF TimePasses, StillRunning, ObservedInv, Types, Run
<1>6. /\ ListOf(call.items, call.project)' /\ ExposedInv' /\ StopInv'
  BY <1>1, <1>5, AgeTypes, CallPersists DEF ObservedInv
<1> QED  BY <1>2, <1>3, <1>4, <1>6, AgeTypes DEF ObservedInv

\* The refresh of the interval: its task list is empty.
LEMMA NoItems ==
  ASSUME NEW p
  PROVE  ListOf({}, p)
  BY FS_EmptySet, FS_CardinalityType, RunsAssumption DEF ListOf

LEMMA RefreshStep ==
  ASSUME ObservedInv, NEW p \in Projects, Refresh(p)
  PROVE  ObservedInv'
<1>1. /\ seen' = [seen EXCEPT ![p] = Summarised(p, {})]
      /\ UNCHANGED <<origin, run, proc, window, call>>
  BY DEF Refresh
<1>2. seen' \in [Projects -> Summary \cup {NoSummary}] /\ SeenInv'
  BY <1>1, NoItems, SeenIsRead DEF ObservedInv
<1>3. Types' /\ RecordsInv' /\ WindowInv'
  BY <1>1, <1>2 DEF ObservedInv, Types, RecordsInv, WindowInv
<1>4. Persists /\ \A r \in Runs : StillRunning(r) => StillRunning(r)'
  BY <1>1 DEF Persists, StillRunning
<1>5. /\ ListOf(call.items, call.project)' /\ ExposedInv' /\ StopInv'
  BY <1>1, <1>4, CallPersists DEF ObservedInv
<1> QED  BY <1>2, <1>3, <1>5 DEF ObservedInv

-----------------------------------------------------------------------------
(* The operator's calls *)

LEMMA NoCallTypes == \A p \in Projects : NoCall(p) \in Call
  BY DEF NoCall, Call

\* A call that is over, or that has just begun to list, owes nothing.
LEMMA NothingOwed ==
  ASSUME NEW p \in Projects,
         call' = NoCall(p) \/ call' = [NoCall(p) EXCEPT !.job = "start", !.pc = "list"]
  PROVE  ListOf(call.items, call.project)' /\ ExposedInv' /\ StopInv'
<1>1. /\ NoCall(p) \in Call
      /\ NoCall(p).items = {} /\ NoCall(p).exposed = {}
      /\ NoCall(p).todo = {} /\ NoCall(p).next = {}
  BY NoCallTypes DEF NoCall
<1>2. call'.items = {} /\ call'.exposed = {} /\ call'.todo = {} /\ call'.next = {}
  BY <1>1 DEF Call
<1>3. ListOf(call.items, call.project)'
  BY <1>2, FS_EmptySet, FS_CardinalityType, RunsAssumption DEF ListOf
<1> QED  BY <1>2, <1>3 DEF ExposedInv, StopInv

\* A step of the call that reads or waits changes neither records nor processes.
LEMMA ReadingStep ==
  ASSUME ObservedInv, UNCHANGED <<origin, run, proc, seen>>,
         window' \in [Projects -> Window], WindowInv', call' \in Call,
         ListOf(call.items, call.project)', ExposedInv', StopInv'
  PROVE  ObservedInv'
<1>1. Types' /\ RecordsInv'
  BY DEF ObservedInv, Types, RecordsInv
<1>2. SeenInv'
  BY DEF ObservedInv, SeenInv, Faithful, Known, Confusable, Gone
<1> QED  BY <1>1, <1>2 DEF ObservedInv

LEMMA CallStartStep ==
  ASSUME ObservedInv, NEW p \in Projects, CallStart(p)
  PROVE  ObservedInv'
<1>1. /\ call' = [NoCall(p) EXCEPT !.job = "start", !.pc = "list"]
      /\ UNCHANGED <<origin, run, proc, seen, window>>
  BY DEF CallStart
<1>2. call' \in Call
  <2>1. NoCall(p) \in Call
    BY NoCallTypes
  <2> QED  BY <1>1, <2>1 DEF Call
<1>3. window' \in [Projects -> Window] /\ WindowInv'
  BY <1>1 DEF ObservedInv, Types, WindowInv
<1> QED  BY <1>1, <1>2, <1>3, NothingOwed, ReadingStep

\* The task list of a project, as it is now.
LEMMA ItemsAreListed ==
  ASSUME Types, RecordsInv, NEW p \in Projects
  PROVE  ListOf(ItemsOf(p), p)
<1> DEFINE Q == {q \in Runs : origin[q].home = p /\ run[q].item = "running"}
           f == [r \in Q |-> [pid |-> RecordedPid(r), task |-> origin[r].task,
                              age |-> run[r].age]]
<1>1. ItemsOf(p) = {f[r] : r \in Q}
  BY DEF ItemsOf
<1>2. \A r \in Q : /\ f[r] \in Item /\ f[r].task = origin[r].task
                   /\ f[r].pid = RecordedPid(r)
                   /\ run[r].pid # NoPid
  BY RecordedPids DEF Types, Run, Item, RecordsInv
<1>3. IsFiniteSet(Q) /\ Cardinality(Q) <= Cardinality(Runs)
  BY RunsAssumption, FS_Subset
<1>4. \A r \in Q : r \in Runs /\ origin[r].home = p
  OBVIOUS
<1> HIDE DEF f, Q
<1>5. IsFiniteSet(ItemsOf(p)) /\ Cardinality(ItemsOf(p)) <= Cardinality(Q)
  BY <1>1, <1>3, FiniteImage
<1>6. /\ Cardinality(Q) \in Nat /\ Cardinality(Runs) \in Nat
      /\ Cardinality(ItemsOf(p)) \in Nat
  BY <1>3, <1>5, FS_CardinalityType, RunsAssumption
<1>7. Cardinality(ItemsOf(p)) <= Cardinality(Runs)
  BY <1>3, <1>5, <1>6
<1>8. ItemsOf(p) \subseteq Item
  BY <1>1, <1>2
<1>9. \A i \in ItemsOf(p) : \E q \in Runs :
        /\ origin[q].home = p /\ origin[q].task = i.task
        /\ i.pid = RecordedPid(q) /\ run[q].pid # NoPid
  BY <1>1, <1>2, <1>4
<1> QED  BY <1>5, <1>7, <1>8, <1>9 DEF ListOf

LEMMA ListTasksStep ==
  ASSUME ObservedInv, ListTasks
  PROVE  ObservedInv'
<1> DEFINE p == call.project
           met == {r \in Runs : /\ origin[r].home = p
                                /\ origin[r].recorded /\ Alive(r)
                                /\ run[r].item = "running" \/ run[r].status = "running"}
<1>1. p \in Projects /\ call \in Call
  BY DEF ObservedInv, Types, Call
<1>2. UNCHANGED <<origin, run, proc, seen, window>>
  BY DEF ListTasks
<1>3. window' \in [Projects -> Window] /\ WindowInv'
  BY <1>2 DEF ObservedInv, Types, WindowInv
<1>4. CASE Done
  BY <1>1, <1>2, <1>3, <1>4, NoCallTypes, NothingOwed, ReadingStep DEF Done
<1>5. CASE call' = [call EXCEPT !.pc = "gate", !.items = ItemsOf(p), !.exposed = met]
  <2>1. ListOf(ItemsOf(p), p)
    BY <1>1, ItemsAreListed DEF ObservedInv
  <2>2. ItemsOf(p) \subseteq Item /\ met \subseteq Runs
    BY <2>1 DEF ListOf
  <2> HIDE DEF met
  <2>3. /\ call'.items = ItemsOf(p) /\ call'.exposed = met /\ call'.project = p
        /\ call'.pc = "gate" /\ call' \in Call
    BY <1>1, <1>5, <2>2 DEF Call
  <2>4. ListOf(call.items, call.project)'
    BY <1>2, <2>1, <2>3 DEF ListOf, RecordedPid
  <2>5. ASSUME NEW r \in met
        PROVE  /\ origin[r].home = p /\ origin[r].recorded /\ run[r].pid # NoPid
               /\ run[r].item = "none" \/ \E i \in ItemsOf(p) : i.pid = run[r].pid
    <3>1. /\ r \in Runs /\ origin[r].home = p /\ origin[r].recorded /\ run[r].pid # NoPid
          /\ run[r].item = "running" \/ run[r].status = "running"
      BY DEF met, Alive
    <3>2. run[r].item \in {"none", "running"}
      BY <3>1 DEF ObservedInv, Types, Run, RecordsInv, FinalStatuses
    <3>3. ASSUME run[r].item = "running"  PROVE \E i \in ItemsOf(p) : i.pid = run[r].pid
      <4> DEFINE i == [pid |-> RecordedPid(r), task |-> origin[r].task, age |-> run[r].age]
      <4>1. i \in ItemsOf(p)
        BY <3>1, <3>3 DEF ItemsOf
      <4>2. i.pid = run[r].pid
        BY <3>1 DEF RecordedPid
      <4> QED  BY <4>1, <4>2
    <3> QED  BY <3>1, <3>2, <3>3
  <2>6. ExposedInv'
    BY <1>2, <2>3, <2>5 DEF ExposedInv
  <2>7. StopInv'
    BY <2>3 DEF StopInv
  <2> QED  BY <1>2, <1>3, <2>3, <2>4, <2>6, <2>7, ReadingStep
<1> QED  BY <1>4, <1>5 DEF ListTasks

LEMMA PassGateStep ==
  ASSUME ObservedInv, PassGate
  PROVE  ObservedInv'
<1> DEFINE p == call.project
<1>1. p \in Projects /\ call \in Call
  BY DEF ObservedInv, Types, Call
<1>2. /\ seen' = [seen EXCEPT ![p] = Summarised(p, call.items)]
      /\ UNCHANGED <<origin, run, proc, window>>
      /\ call' = NoCall(p)
         \/ call' = [call EXCEPT !.pc = "spawn", !.items = {}, !.exposed = {}]
  BY DEF PassGate, Done
<1>3. ListOf(call.items, p)
  BY DEF ObservedInv
<1>4. seen' \in [Projects -> Summary \cup {NoSummary}] /\ SeenInv'
  <2>1. \A items : ListOf(items, p) /\ seen' = [seen EXCEPT ![p] = Summarised(p, items)] =>
          seen' \in [Projects -> Summary \cup {NoSummary}] /\ SeenInv'
    BY <1>1, <1>2, SeenIsRead DEF ObservedInv
  <2> QED  BY <1>2, <1>3, <2>1
<1>5. call' \in Call
  BY <1>1, <1>2, NoCallTypes DEF Call
<1>6. ListOf(call.items, call.project)' /\ ExposedInv' /\ StopInv'
  <2>1. CASE call' = NoCall(p)
    BY <1>1, <2>1, NothingOwed
  <2>2. CASE call' = [call EXCEPT !.pc = "spawn", !.items = {}, !.exposed = {}]
    <3>1. call'.items = {} /\ call'.exposed = {} /\ call'.pc = "spawn"
      BY <1>1, <2>2 DEF Call
    <3>2. ListOf(call.items, call.project)'
      BY <3>1, FS_EmptySet, FS_CardinalityType, RunsAssumption DEF ListOf
    <3> QED  BY <3>1, <3>2 DEF ExposedInv, StopInv
  <2> QED  BY <1>2, <2>1, <2>2
<1>7. Types' /\ RecordsInv' /\ WindowInv'
  BY <1>2, <1>4, <1>5 DEF ObservedInv, Types, RecordsInv, WindowInv
<1> QED  BY <1>4, <1>6, <1>7 DEF ObservedInv

\* A start that fails, a stop that fails or ends.
LEMMA FailedTypes ==
  ASSUME Types, WindowInv, NEW p \in Projects,
         NEW stage \in TerminalStages, window' = [window EXCEPT ![p].stage = stage]
  PROVE  window' \in [Projects -> Window] /\ WindowInv'
<1> DEFINE w == [window[p] EXCEPT !.stage = stage]
<1>1. w \in Window /\ w.stage = stage
  BY DEF Types, Window
<1>2. window' = [window EXCEPT ![p] = w]
  OBVIOUS
<1> HIDE DEF w
<1> QED  BY <1>1, <1>2 DEF Types, WindowInv

LEMMA SpawnStep ==
  ASSUME ObservedInv, Spawn
  PROVE  ObservedInv'
<1> DEFINE p == call.project
<1>1. p \in Projects /\ call' = NoCall(p) /\ UNCHANGED <<origin, seen>>
  BY DEF ObservedInv, Types, Call, Spawn, Done
<1>2. call' \in Call /\ ListOf(call.items, call.project)' /\ ExposedInv' /\ StopInv'
  BY <1>1, NoCallTypes, NothingOwed
<1>3. /\ window' \in [Projects -> Window] /\ WindowInv'
      /\ run' \in [Runs -> Run] /\ RecordsInv'
      /\ proc' \in [Pids -> Runs \cup {"free", "other"}]
      /\ Persists
  <2>1. ASSUME NEW r \in Runs, NEW pid \in Pids, NEW item \in {"none", "running"},
               Begin(r, pid, item),
               window' = [window EXCEPT ![p] = Started(pid)]
        PROVE  /\ window' \in [Projects -> Window] /\ WindowInv'
               /\ run' \in [Runs -> Run] /\ RecordsInv'
               /\ proc' \in [Pids -> Runs \cup {"free", "other"}]
               /\ Persists
    <3>1. Started(pid) \in Window /\ ~Started(pid).done
      BY DEF Window, Started
    <3>2. window' \in [Projects -> Window] /\ WindowInv'
      BY <1>1, <2>1, <3>1 DEF ObservedInv, Types, WindowInv
    <3> QED  BY <1>1, <2>1, <3>2, BeginTypes DEF ObservedInv
  <2>2. CASE window' = [window EXCEPT ![p].stage = "failed"] /\ UNCHANGED <<run, proc>>
    <3>1. window' \in [Projects -> Window] /\ WindowInv'
      BY <1>1, <2>2, FailedTypes DEF ObservedInv, TerminalStages
    <3> QED  BY <1>1, <2>2, <3>1 DEF ObservedInv, Types, RecordsInv, Persists
  <2> QED  BY <2>1, <2>2 DEF Spawn
<1>4. Types'
  BY <1>1, <1>2, <1>3 DEF ObservedInv, Types
<1>5. SeenInv'
  BY <1>1, <1>3, SeenPersists DEF ObservedInv
<1> QED  BY <1>2, <1>3, <1>4, <1>5 DEF ObservedInv

\* The records a forced stop closes are those of runs that are gone.
LEMMA StopObservedStep ==
  ASSUME ObservedInv, NEW p \in Projects, NEW force, StopObserved(force, p),
         UNCHANGED <<origin, run, proc>>
  PROVE  ObservedInv'
<1> DEFINE shots == Reconcilable(seen[p])
<1>1. /\ seen[p] # NoSummary /\ UNCHANGED <<seen, window>>
      /\ call' = [NoCall(p) EXCEPT !.job = "force", !.pc = "read", !.todo = Slugs(shots)]
  BY DEF StopObserved
<1>2. seen[p] \in Summary
  BY <1>1 DEF ObservedInv, Types
<1>3. \A s \in shots : /\ s \in Snapshot /\ Faithful(s)
                       /\ s.status = "stale" \/ s.session = "unknown"
  BY <1>1, <1>2 DEF Reconcilable, Summary, ObservedInv, SeenInv
<1>4. \A r \in Slugs(shots) : r \in Runs /\ (Known(r) => Gone(r))
  BY <1>3 DEF Slugs, Snapshot, Faithful
<1> HIDE DEF shots
<1>5. /\ NoCall(p) \in Call /\ NoCall(p).items = {} /\ NoCall(p).exposed = {}
  BY NoCallTypes DEF NoCall
<1>6. /\ call' \in Call /\ call'.items = {} /\ call'.exposed = {}
      /\ call'.pc = "read" /\ call'.todo = Slugs(shots)
  BY <1>1, <1>4, <1>5 DEF Call
<1>7. ListOf(call.items, call.project)' /\ ExposedInv'
  BY <1>6, FS_EmptySet, FS_CardinalityType, RunsAssumption DEF ListOf, ExposedInv
<1>8. \A r \in Runs : Known(r)' = Known(r) /\ Gone(r)' = Gone(r)
  BY DEF Known, Confusable, Gone
<1>9. StopInv'
  BY <1>4, <1>6, <1>8 DEF StopInv
<1>10. window' \in [Projects -> Window] /\ WindowInv'
  BY <1>1 DEF ObservedInv, Types, WindowInv
<1> QED  BY <1>1, <1>6, <1>7, <1>9, <1>10, ReadingStep

\* The record a stop closes after its PTY has the pid of that PTY.
LEMMA StopOwnedStep ==
  ASSUME ObservedInv, NEW p \in Projects, StopOwned(p), UNCHANGED <<origin, run, proc>>
  PROVE  ObservedInv'
<1> DEFINE runs == IF seen[p] = NoSummary THEN {} ELSE seen[p].runs
           own == {s \in runs : s.pid = window[p].pid /\ s.status = "running"}
<1>1. PICK tracked \in {{r} : r \in own} \cup {{}} :
        call' = [NoCall(p) EXCEPT !.job = "stop", !.pc = "kill", !.todo = Slugs(tracked)]
  BY DEF StopOwned
<1>2. window' = [window EXCEPT ![p].stage = "stopping"] /\ UNCHANGED seen
  BY DEF StopOwned
<1>3. \A s \in own : s \in Snapshot /\ Faithful(s) /\ s.pid = window[p].pid
  <2> SUFFICES ASSUME NEW s \in own  PROVE s \in Snapshot /\ Faithful(s)
    OBVIOUS
  <2>1. seen[p] # NoSummary /\ s \in seen[p].runs
    OBVIOUS
  <2>2. seen[p] \in Summary
    BY <2>1 DEF ObservedInv, Types
  <2> QED  BY <2>1, <2>2 DEF Summary, ObservedInv, SeenInv
<1>4. tracked \subseteq own
  OBVIOUS
<1>5. \A r \in Slugs(tracked) :
        r \in Runs /\ (Known(r) => run[r].pid # NoPid /\ run[r].pid = window[p].pid)
  BY <1>3, <1>4 DEF Slugs, Snapshot, Faithful
<1> HIDE DEF own, runs
<1>6. /\ NoCall(p) \in Call /\ NoCall(p).items = {} /\ NoCall(p).exposed = {}
      /\ NoCall(p).project = p
  BY NoCallTypes DEF NoCall
<1>7. /\ call' \in Call /\ call'.items = {} /\ call'.exposed = {} /\ call'.project = p
      /\ call'.pc = "kill" /\ call'.todo = Slugs(tracked)
  BY <1>1, <1>5, <1>6 DEF Call
<1>8. ListOf(call.items, call.project)' /\ ExposedInv'
  BY <1>7, FS_EmptySet, FS_CardinalityType, RunsAssumption DEF ListOf, ExposedInv
<1>9. /\ window' \in [Projects -> Window] /\ WindowInv'
      /\ window'[p].pid = window[p].pid
  <2> DEFINE w == [window[p] EXCEPT !.stage = "stopping"]
  <2>1. w \in Window /\ w.stage = "stopping" /\ w.pid = window[p].pid
    BY DEF ObservedInv, Types, Window
  <2>2. window' = [window EXCEPT ![p] = w]
    BY <1>2
  <2> HIDE DEF w
  <2> QED  BY <2>1, <2>2 DEF ObservedInv, Types, WindowInv
<1>10. \A r \in Runs : Known(r)' = Known(r)
  BY DEF Known, Confusable
<1>11. StopInv'
  BY <1>5, <1>7, <1>9, <1>10 DEF StopInv, Stopped
<1> QED  BY <1>2, <1>7, <1>8, <1>9, <1>11, ReadingStep

LEMMA CallStopStep ==
  ASSUME ObservedInv, CallStop
  PROVE  ObservedInv'
<1>1. Observed \subseteq Projects
  BY DEF Observed
<1>2. PICK force \in BOOLEAN, named \in BOOLEAN : \E p \in StopTargets(force, named) :
        StopObserved(force, p) \/ StopOwned(p)
  BY DEF CallStop
<1>3. StopTargets(force, named) \subseteq Projects
  BY <1>1 DEF StopTargets
<1> QED  BY <1>2, <1>3, StopObservedStep, StopOwnedStep DEF CallStop

LEMMA KillStep ==
  ASSUME ObservedInv, Kill
  PROVE  ObservedInv'
<1> DEFINE p == call.project
           pid == window[p].pid
<1>1. p \in Projects /\ call \in Call /\ pid \in Pids \cup {NoPid}
  BY DEF ObservedInv, Types, Call, Window
<1>2. /\ proc' = IF pid = NoPid THEN proc ELSE [proc EXCEPT ![pid] = "free"]
      /\ window' = Exited(p, "failed")
      /\ call' = [call EXCEPT !.pc = "read"] /\ call.pc = "kill"
      /\ UNCHANGED <<origin, run, seen>>
  BY DEF Kill
<1> HIDE DEF pid
<1>3. proc' \in [Pids -> Runs \cup {"free", "other"}]
  BY <1>1, <1>2 DEF ObservedInv, Types
<1>4. Persists
  BY <1>1, <1>2, RunsAssumption DEF Persists, ObservedInv, Types, Run
<1>5. window' \in [Projects -> Window] /\ WindowInv'
  BY <1>1, <1>2, ExitedTypes DEF ObservedInv, WindowInv
<1>6. /\ call' \in Call /\ call'.pc = "read" /\ call'.project = p
      /\ call'.todo = call.todo /\ call'.items = call.items /\ call'.exposed = call.exposed
  BY <1>1, <1>2 DEF Call
<1>7. Types' /\ RecordsInv'
  BY <1>2, <1>3, <1>5, <1>6 DEF ObservedInv, Types, RecordsInv
<1>8. SeenInv'
  BY <1>2, <1>4, SeenPersists DEF ObservedInv
<1>9. ListOf(call.items, call.project)' /\ ExposedInv'
  BY <1>2, <1>6 DEF ObservedInv, ListOf, ExposedInv, RecordedPid
<1>10. StopInv'
  <2>1. \A r \in call.todo : r \in Runs /\ (Known(r) => Stopped(r))
    BY <1>1, <1>2 DEF ObservedInv, StopInv, Call
  <2>2. \A r \in Runs : Known(r)' = Known(r)
    BY <1>2 DEF Known, Confusable
  <2>3. \A r \in Runs : Stopped(r) => Gone(r)'
    <3> SUFFICES ASSUME NEW r \in Runs, Stopped(r)  PROVE Gone(r)'
      OBVIOUS
    <3>1. run'[r].pid # NoPid /\ run'[r].pid = run[r].pid
      BY <1>2 DEF Stopped
    <3>2. CASE Gone(r)
      BY <3>2, <1>4, GonePersists DEF ObservedInv
    <3>3. CASE run[r].pid = pid
      <4>1. proc'[pid] = "free"
        BY <1>1, <1>2, <3>1, <3>3 DEF ObservedInv, Types
      <4> QED  BY <3>1, <3>3, <4>1, RunsAssumption DEF Gone
    <3> QED  BY <3>2, <3>3 DEF Stopped, pid
  <2> QED  BY <1>6, <2>1, <2>2, <2>3 DEF StopInv
<1> QED  BY <1>5, <1>7, <1>8, <1>9, <1>10 DEF ObservedInv

LEMMA KillFailsStep ==
  ASSUME ObservedInv, KillFails
  PROVE  ObservedInv'
<1>1. /\ call.project \in Projects
      /\ call' = NoCall(call.project) /\ UNCHANGED <<origin, run, proc, seen>>
      /\ window' = [window EXCEPT ![call.project].stage = "failed"]
  BY DEF ObservedInv, Types, Call, KillFails, Done
<1>2. window' \in [Projects -> Window] /\ WindowInv'
  BY <1>1, FailedTypes DEF ObservedInv, TerminalStages
<1> QED  BY <1>1, <1>2, NoCallTypes, NothingOwed, ReadingStep

LEMMA ReadRecordStep ==
  ASSUME ObservedInv, ReadRecord
  PROVE  ObservedInv'
<1>1. call \in Call /\ call.pc = "read" /\ UNCHANGED <<origin, run, proc, seen, window>>
  BY DEF ReadRecord, ObservedInv, Types
<1>2. PICK r \in call.todo :
        call' = IF StillRunning(r)
                  THEN [call EXCEPT !.pc = "rename", !.next = {r}, !.todo = @ \ {r}]
                  ELSE [call EXCEPT !.todo = @ \ {r}]
  BY DEF ReadRecord
<1>3. r \in Runs
  BY <1>1 DEF Call
<1>4. /\ call' \in Call /\ call'.todo \subseteq call.todo
      /\ call'.items = call.items /\ call'.exposed = call.exposed
      /\ call'.project = call.project
      /\ call'.pc \in {"read", "rename"}
      /\ call'.pc = "rename" => call'.next = {r} /\ StillRunning(r)
  BY <1>1, <1>2, <1>3 DEF Call
<1>5. window' \in [Projects -> Window] /\ WindowInv'
  BY <1>1 DEF ObservedInv, Types, WindowInv
<1>6. ListOf(call.items, call.project)' /\ ExposedInv'
  BY <1>1, <1>4 DEF ObservedInv, ListOf, ExposedInv, RecordedPid
<1>7. \A q \in call.todo : Known(q) => Gone(q)
  BY <1>1 DEF ObservedInv, StopInv
<1>8. \A q : Known(q)' = Known(q) /\ Gone(q)' = Gone(q) /\ StillRunning(q)' = StillRunning(q)
  BY <1>1 DEF Known, Confusable, Gone, StillRunning
<1>9. StillRunning(r) => run[r].pid # NoPid
  BY <1>3 DEF StillRunning, ObservedInv, RecordsInv
<1>10. StopInv'
  BY <1>1, <1>4, <1>7, <1>8, <1>9 DEF StopInv
<1> QED  BY <1>1, <1>4, <1>5, <1>6, <1>10, ReadingStep

LEMMA RenameRecordStep ==
  ASSUME ObservedInv, RenameRecord
  PROVE  ObservedInv'
<1>1. /\ call \in Call /\ call.pc = "rename"
      /\ call' = [call EXCEPT !.pc = "read", !.next = {}, !.closed = TRUE]
      /\ UNCHANGED <<origin, proc, seen, window>>
  BY DEF RenameRecord, ObservedInv, Types
<1>2. \A r \in call.next : run[r].pid # NoPid
  BY <1>1 DEF ObservedInv, StopInv
<1>3. run' \in [Runs -> Run] /\ RecordsInv' /\ Persists
  BY <1>2, AbortTypes DEF ObservedInv
<1>4. /\ call' \in Call /\ call'.pc = "read" /\ call'.todo = call.todo
      /\ call'.items = call.items /\ call'.exposed = call.exposed
      /\ call'.project = call.project
  BY <1>1 DEF Call
<1>5. Types' /\ WindowInv'
  BY <1>1, <1>3, <1>4 DEF ObservedInv, Types, WindowInv
<1>6. SeenInv'
  BY <1>1, <1>3, SeenPersists DEF ObservedInv
<1>7. ListOf(call.items, call.project)'
  <2>1. \A q \in Runs : run[q].pid # NoPid =>
          /\ RecordedPid(q)' = RecordedPid(q) /\ run'[q].pid # NoPid
          /\ origin'[q] = origin[q]
    BY <1>3, KnownPersists DEF Persists
  <2> QED  BY <1>4, <2>1 DEF ObservedInv, ListOf
<1>8. ExposedInv'
  BY <1>1, <1>3, <1>4 DEF ObservedInv, ExposedInv, Persists, Call
<1>9. \A r \in call.todo : r \in Runs /\ (Known(r) => Gone(r))
  BY <1>1 DEF ObservedInv, StopInv, Call
<1>10. \A r \in Runs : (Known(r)' => Known(r)) /\ (Gone(r) => Gone(r)')
  BY <1>3, KnownPersists, GonePersists DEF ObservedInv
<1>11. StopInv'
  BY <1>4, <1>9, <1>10 DEF StopInv
<1> QED  BY <1>3, <1>5, <1>6, <1>7, <1>8, <1>11 DEF ObservedInv

LEMMA FinishStopStep ==
  ASSUME ObservedInv, FinishStop
  PROVE  ObservedInv'
<1> DEFINE p == call.project
<1>1. p \in Projects /\ call' = NoCall(p) /\ UNCHANGED <<origin, run, proc>>
  BY DEF ObservedInv, Types, Call, FinishStop, Done
<1>2. call' \in Call /\ ListOf(call.items, call.project)' /\ ExposedInv' /\ StopInv'
  BY <1>1, NoCallTypes, NothingOwed
<1>3. seen' \in [Projects -> Summary \cup {NoSummary}] /\ SeenInv'
  <2>1. CASE seen' = [seen EXCEPT ![p] = Summarised(p, {})]
    BY <1>1, <2>1, NoItems, SeenIsRead DEF ObservedInv
  <2>2. CASE seen' = seen
    BY <1>1, <2>2 DEF ObservedInv, Types, SeenInv, Faithful, Known, Confusable, Gone
  <2> QED  BY <2>1, <2>2 DEF FinishStop
<1>4. window' \in [Projects -> Window] /\ WindowInv'
  <2>1. CASE window' = [window EXCEPT ![p].stage = "stopped"]
    BY <1>1, <2>1, FailedTypes DEF ObservedInv, TerminalStages
  <2>2. CASE window' = window
    BY <2>2 DEF ObservedInv, Types, WindowInv
  <2> QED  BY <2>1, <2>2 DEF FinishStop
<1>5. Types' /\ RecordsInv'
  BY <1>1, <1>2, <1>3, <1>4 DEF ObservedInv, Types, RecordsInv
<1> QED  BY <1>2, <1>3, <1>4, <1>5 DEF ObservedInv

-----------------------------------------------------------------------------
(* The invariant holds *)

LEMMA ObservedInit == Init => ObservedInv
<1> SUFFICES ASSUME Init  PROVE ObservedInv
  OBVIOUS
<1> DEFINE first == CHOOSE p \in Projects : TRUE
           fresh == [item |-> "none", status |-> "absent", age |-> "none", pid |-> NoPid]
           idle == [stage |-> "idle", running |-> FALSE, done |-> FALSE, pid |-> NoPid]
<1>1. first \in Projects /\ call = NoCall(first)
  BY ProjectsAssumption DEF Init
<1>2. /\ NoCall(first) \in Call
      /\ call.items = {} /\ call.exposed = {} /\ call.pc = "idle"
  BY <1>1, NoCallTypes DEF NoCall
<1>3. fresh \in Run /\ idle \in Window /\ ~idle.done
  BY DEF Run, Ages, Window
<1>4. run = [r \in Runs |-> fresh] /\ window = [p \in Projects |-> idle]
  BY DEF Init
<1>5. Types
  BY <1>1, <1>2, <1>3, <1>4 DEF Init, Types
<1>6. RecordsInv
  BY <1>4 DEF RecordsInv
<1>7. WindowInv
  BY <1>3, <1>4 DEF WindowInv
<1>8. SeenInv
  BY DEF Init, SeenInv
<1>9. ListOf(call.items, call.project)
  BY <1>2, NoItems
<1> QED  BY <1>2, <1>5, <1>6, <1>7, <1>8, <1>9 DEF ObservedInv, ExposedInv, StopInv

LEMMA ObservedStep == ObservedInv /\ [Next]_vars => ObservedInv'
<1> SUFFICES ASSUME ObservedInv, [Next]_vars  PROVE ObservedInv'
  OBVIOUS
<1>1. ASSUME NEW r \in Runs, Takt(r)  PROVE ObservedInv'
  BY <1>1, TaktBeginsStep, TaktRewrites DEF Takt
<1>2. ASSUME NEW pid \in Pids, ProcessGone(pid) \/ PidReused(pid)  PROVE ObservedInv'
  BY <1>2, ProcessGoneStep, PidReusedStep
<1>3. ASSUME NEW p \in Projects, Refresh(p) \/ CallStart(p)  PROVE ObservedInv'
  BY <1>3, RefreshStep, CallStartStep
<1>4. CASE ListTasks \/ PassGate \/ Spawn
  BY <1>4, ListTasksStep, PassGateStep, SpawnStep
<1>5. CASE CallStop \/ Kill \/ KillFails
  BY <1>5, CallStopStep, KillStep, KillFailsStep
<1>6. CASE ReadRecord \/ RenameRecord \/ FinishStop
  BY <1>6, ReadRecordStep, RenameRecordStep, FinishStopStep
<1>7. CASE UNCHANGED vars
  <2>1. UNCHANGED <<origin, run, proc, seen, window, call>>
    BY <1>7 DEF vars
  <2>2. Types' /\ RecordsInv' /\ WindowInv'
    BY <2>1 DEF ObservedInv, Types, RecordsInv, WindowInv
  <2>3. Persists /\ \A r \in Runs : StillRunning(r) => StillRunning(r)'
    BY <2>1 DEF Persists, StillRunning
  <2>4. SeenInv'
    BY <2>1, <2>3, SeenPersists DEF ObservedInv
  <2>5. ListOf(call.items, call.project)' /\ ExposedInv' /\ StopInv'
    BY <2>1, <2>3, CallPersists DEF ObservedInv
  <2> QED  BY <2>2, <2>4, <2>5 DEF ObservedInv
<1>8. CASE TimePasses
  BY <1>8, TimePassesStep
<1> QED  BY <1>1, <1>2, <1>3, <1>4, <1>5, <1>6, <1>7, <1>8 DEF Next

LEMMA ObservedInvariant == Spec => []ObservedInv
  BY ObservedInit, ObservedStep, PTL DEF Spec

-----------------------------------------------------------------------------
(* What follows from it *)

LEMMA TypesHold == ObservedInv => TypeOK
<1> SUFFICES ASSUME ObservedInv  PROVE TypeOK
  OBVIOUS
<1>1. ASSUME NEW p \in Projects, seen[p] # NoSummary
      PROVE  /\ DOMAIN seen[p] = {"status", "runs", "running", "troubled", "activity", "dated"}
             /\ \A s \in seen[p].runs : s \in Snapshot
             /\ seen[p].status \in SessionStatuses /\ seen[p].running \in 0..Cardinality(Runs)
  <2>1. seen[p] \in Summary
    BY <1>1 DEF ObservedInv, Types
  <2> QED  BY <2>1 DEF Summary
<1>2. call.project \in Projects /\ call.todo \cup call.next \cup call.exposed \subseteq Runs
  BY DEF ObservedInv, Types, Call
<1> QED  BY <1>1, <1>2 DEF ObservedInv, Types, TypeOK

\* The project that is shown completed has no summary that would block.
LEMMA FinishedIsShown == ObservedInv => FinishedHidesNothing
<1> SUFFICES ASSUME ObservedInv, NEW p \in Projects,
                    window[p].stage # "stopping", Blocks(seen[p])
             PROVE  SessionShown(window[p].stage, window[p].running, window[p].done, seen[p])
                      # "completed"
  BY DEF FinishedHidesNothing
<1>1. seen[p] # NoSummary /\ (seen[p].status = "live" \/ Unaccounted(seen[p]))
  BY DEF Blocks
<1>2. Unaccounted(seen[p]) => seen[p].status = "unknown"
  BY DEF Unaccounted
<1>3. window[p].done => window[p].stage \in TerminalStages
  BY DEF ObservedInv, WindowInv
<1> QED  BY <1>1, <1>2, <1>3 DEF SessionShown

LEMMA NewestOfOld ==
  ASSUME NEW ages, \A age \in ages : age = "old", NEW more, more \subseteq ages, ages # {}
  PROVE  Newest({Newest(ages), Newest(more)}) = "old"
<1>1. Newest(ages) = "old"
  BY DEF Newest
<1>2. Newest(more) \in {"old", "none"}
  BY DEF Newest
<1> QED  BY <1>1, <1>2 DEF Newest

\* Every record of dead runs is of an owner that is dead, and old.
LEMMA OrphansAreOld ==
  ASSUME ObservedInv, NEW p \in Projects, AllGone(p)
  PROVE  ~Blocks(Summarised(p, ItemsOf(p)))
<1> DEFINE items == ItemsOf(p)
           shots == SnapshotsOf(p, items)
           sum == Summarised(p, items)
           ages == {run[s.slug].age : s \in shots} \cup {i.age : i \in items}
           dated == {run[s.slug].age : s \in {x \in shots : IsActive(x)}}
           running == {s \in shots : s.status = "running"}
<1>1. /\ \A i \in items : i.age = "old" /\ (i.pid = NoPid \/ i.pid \notin AlivePids)
      /\ ListOf(items, p)
  <2>1. \A r \in Runs : origin[r].home = p /\ run[r].item = "running" =>
          /\ run[r].pid # NoPid /\ proc[run[r].pid] = "free" /\ run[r].age = "old"
    BY DEF AllGone, ObservedInv, RecordsInv
  <2>2. \A r \in Runs : origin[r].home = p /\ run[r].item = "running" =>
          RecordedPid(r) = NoPid \/ RecordedPid(r) \notin AlivePids
    BY <2>1 DEF RecordedPid, AlivePids
  <2> QED  BY <2>1, <2>2, ItemsAreListed DEF ItemsOf, ObservedInv
<1>2. \A r \in Readable(p) : /\ r \in Runs /\ run[r].age = "old"
                             /\ RecordedPid(r) = NoPid \/ RecordedPid(r) \notin AlivePids
  <2>1. \A r \in Readable(p) : r \in Runs /\ run[r].pid # NoPid /\ proc[run[r].pid] = "free"
                               /\ run[r].age = "old"
    BY DEF Readable, AllGone, ObservedInv, RecordsInv
  <2> QED  BY <2>1 DEF RecordedPid, AlivePids
<1>3. \A s \in shots : run[s.slug].age = "old" /\ s.session # "live"
  <2> SUFFICES ASSUME NEW r \in Readable(p)
               PROVE  /\ run[SnapshotOf(r, Meta(r), items, AlivePids).slug].age = "old"
                      /\ SnapshotOf(r, Meta(r), items, AlivePids).session # "live"
    BY DEF SnapshotsOf, Meta
  <2> DEFINE pid == OwnerPid(Meta(r), items)
  <2>1. pid = NoPid \/ pid \notin AlivePids
    <3>1. Meta(r).pid = RecordedPid(r)
      BY DEF Meta
    <3> QED  BY <1>1, <1>2, <3>1, OwnerIsRecorded
  <2>2. OwnerStatus(pid, AlivePids) # "live"
    BY <2>1 DEF OwnerStatus
  <2> QED  BY <1>2, <2>2 DEF SnapshotOf
<1>4. \A i \in items : OwnerStatus(i.pid, AlivePids) # "live"
  BY <1>1 DEF OwnerStatus
<1> HIDE DEF items, shots
<1>5. sum.status = Dominant({s.session : s \in shots}
                            \cup {OwnerStatus(i.pid, AlivePids) : i \in items})
  BY DEF Summarised, SummaryOf, shots
<1>6. sum.status # "live"
  BY <1>3, <1>4, <1>5 DEF Dominant
<1>7. \A age \in ages : age = "old"
  BY <1>1, <1>3
<1>8. ASSUME sum.running > 0  PROVE ages # {}
  <2>1. CASE items # {}
    BY <2>1
  <2>2. CASE shots # {}
    BY <2>2
  <2>3. CASE items = {} /\ shots = {}
    <3>1. running = {}
      BY <2>3
    <3>2. sum.running \in {Cardinality(items), Cardinality(running)}
      BY DEF Summarised, SummaryOf, shots
    <3>3. sum.running = 0
      BY <2>3, <3>1, <3>2, FS_EmptySet
    <3> QED  BY <1>8, <3>3
  <2> QED  BY <2>1, <2>2, <2>3
<1>9. sum.activity = Newest(ages) /\ sum.dated = Newest(dated)
  <2> DEFINE age == [r \in Runs |-> run[r].age]
  <2>1. \A s \in shots : s.slug \in Runs
    BY <1>1, SnapshotsOfAPoll DEF ObservedInv, Snapshot, shots
  <2>2. /\ {age[s.slug] : s \in shots} = {run[s.slug].age : s \in shots}
        /\ {age[s.slug] : s \in {x \in shots : IsActive(x)}} = dated
    BY <2>1
  <2>3. /\ sum.activity = Newest({age[s.slug] : s \in shots} \cup {i.age : i \in items})
        /\ sum.dated = Newest({age[s.slug] : s \in {x \in shots : IsActive(x)}})
    BY DEF Summarised, SummaryOf, shots
  <2> QED  BY <2>2, <2>3
<1>10. dated \subseteq ages
  OBVIOUS
<1> HIDE DEF sum, ages, dated
<1>11. sum.running > 0 => LatestActivity(sum) = "old"
  BY <1>7, <1>8, <1>9, <1>10, NewestOfOld DEF LatestActivity
<1>12. ~Blocks(sum)
  BY <1>6, <1>11 DEF Blocks, Unaccounted
<1> QED  BY <1>12 DEF sum, items

\* A process that is recorded, alive and running at the gate makes the summary live.
LEMMA TheGateSeesTheLiving ==
  ASSUME ObservedInv, call.pc = "gate", PassGate, call'.pc = "spawn",
         NEW r \in call.exposed, Known(r), Alive(r)
  PROVE  run[r].item = "none" /\ run[r].status # "running"
<1> DEFINE p == call.project
           items == call.items
           shots == SnapshotsOf(p, items)
           sum == Summarised(p, items)
<1>1. /\ p \in Projects /\ r \in Runs /\ ListOf(items, p)
      /\ origin[r].home = p
      /\ run[r].item = "none" \/ \E i \in items : i.pid = run[r].pid
  BY DEF ObservedInv, Types, Call, ExposedInv
<1>2. run[r].pid \in AlivePids /\ run[r].pid # NoPid
  <2>1. run[r].pid \in Pids /\ proc[run[r].pid] = r /\ run[r].pid # NoPid
    BY <1>1 DEF Alive, ObservedInv, Types, Run
  <2> QED  BY <1>1, <2>1, RunsAssumption DEF AlivePids
<1>3. ~Blocks(sum)
  <2>1. seen'[p] = sum
    BY <1>1 DEF PassGate, ObservedInv, Types
  <2>2. ASSUME Blocks(sum)  PROVE FALSE
    <3>1. call' = NoCall(p)
      BY <2>1, <2>2 DEF PassGate, Done
    <3> QED  BY <3>1 DEF NoCall
  <2> QED  BY <2>2
<1>4. sum \in Summary
  BY <1>1, SummaryTypes DEF ObservedInv
<1>5. sum.status # "live"
  BY <1>3, <1>4 DEF Blocks, Summary, NoSummary, SessionStatuses
<1>6. /\ \A s \in shots : s.session # "live"
      /\ \A i \in items : OwnerStatus(i.pid, AlivePids) # "live"
  <2>1. sum.status = Dominant({s.session : s \in shots}
                              \cup {OwnerStatus(i.pid, AlivePids) : i \in items})
    BY DEF Summarised, SummaryOf
  <2> HIDE DEF sum, shots, items
  <2> QED  BY <1>5, <2>1 DEF Dominant
<1>7. run[r].item = "none"
  BY <1>1, <1>2, <1>6 DEF OwnerStatus
<1>8. ASSUME run[r].status = "running"  PROVE FALSE
  <2>1. r \in Readable(p)
    BY <1>1, <1>8 DEF Readable
  <2>2. SnapshotOf(r, Meta(r), items, AlivePids) \in shots
    BY <2>1 DEF SnapshotsOf, Meta
  <2>3. OwnerPid(Meta(r), items) = run[r].pid
    BY <1>1, <2>1, OwnerOfRun DEF ObservedInv
  <2>4. Meta(r).status = "running"
    BY <1>8 DEF Meta
  <2>5. SnapshotOf(r, Meta(r), items, AlivePids).session = "live"
    BY <1>2, <2>3, <2>4 DEF SnapshotOf, OwnerStatus
  <2> QED  BY <1>6, <2>2, <2>5
<1> QED  BY <1>7, <1>8

-----------------------------------------------------------------------------

\* Every variable keeps its type; a summary counts no more running work than there are
\* runs (ManagedProject.summary, readTaktSummary).
THEOREM ObservedTypes == Spec => []TypeOK
  BY ObservedInvariant, TypesHold, PTL

\* The end of the bridge's own PTY hides no live or unaccounted work
\* (resolveProjectSessionSnapshot).
THEOREM FinishedHidesTheorem == Spec => []FinishedHidesNothing
  BY ObservedInvariant, FinishedIsShown, PTL

\* What dead runs left behind stops blocking a start once it is old (blocksNewExecution).
THEOREM OrphansTheorem == Spec => []OrphansStopBlocking
<1>1. ObservedInv => OrphansStopBlocking
  BY OrphansAreOld DEF OrphansStopBlocking
<1> QED  BY <1>1, ObservedInvariant, PTL

\* The bridge aborts no record of a run that is alive, whatever the summary it acts on
\* and whatever ends or begins meanwhile (reconcileObservedRuns, stopActive).
THEOREM ReconcileTheorem == Spec => ReconcileSparesTheLiving
<1>1. ObservedInv => \A r \in Runs : Known(r) /\ run[r].status # "aborted"
                       /\ call.pc = "rename" /\ r \in call.next => ~Alive(r)
  BY DEF ObservedInv, StopInv, Gone, Alive
<1>2. ObservedInv => [\A r \in Runs : Known(r) /\ run[r].status # "aborted"
                       /\ call.pc = "rename" /\ r \in call.next => ~Alive(r)]_vars
  BY <1>1
<1> QED  BY <1>2, ObservedInvariant, PTL DEF ReconcileSparesTheLiving

\* The rename of the bridge overwrites no outcome TAKT wrote since the read
\* (reconcileRunAsAborted).
THEOREM FinishedStaysTheorem == Spec => FinishedStaysFinished
<1>1. ASSUME ObservedInv, NEW r \in Runs, Known(r), run[r].status \in {"completed", "failed"},
             RenameRecord
      PROVE  run'[r].status = run[r].status
  <2>1. r \notin call.next
    BY <1>1 DEF RenameRecord, ObservedInv, StopInv, StillRunning
  <2> QED  BY <1>1, <2>1 DEF RenameRecord
<1>2. ObservedInv => [\A r \in Runs : Known(r) /\ run[r].status \in {"completed", "failed"}
                        /\ RenameRecord => run'[r].status = run[r].status]_vars
  BY <1>1
<1> QED  BY <1>2, ObservedInvariant, PTL DEF FinishedStaysFinished

\* A live run that recorded its pid stops a start (startPending, blocksNewExecution).
THEOREM LiveRunTheorem == Spec => LiveRunBlocksStart
<1>1. ASSUME ObservedInv, Next, call.pc = "gate", call'.pc = "spawn"
      PROVE  PassGate
  <2>1. call' # call
    BY <1>1
  <2>2. ~Free
    BY <1>1 DEF Free
  <2> QED  BY <1>1, <2>1, <2>2 DEF Next, Takt, TaktBegins, TaktTears, TaktWrites, TaktClosesItem,
           ProcessGone, PidReused, TimePasses, Refresh, CallStart, ListTasks, Spawn, CallStop,
           Kill, KillFails, ReadRecord, RenameRecord, FinishStop
<1>2. ObservedInv /\ [Next]_vars =>
        [call.pc = "gate" /\ call'.pc = "spawn" =>
           \A r \in call.exposed :
             Known(r) /\ Alive(r) => run[r].item = "none" /\ run[r].status # "running"]_vars
  BY <1>1, TheGateSeesTheLiving
<1> QED  BY <1>2, ObservedInvariant, PTL DEF Spec, LiveRunBlocksStart
=============================================================================
