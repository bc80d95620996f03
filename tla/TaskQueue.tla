----------------------------- MODULE TaskQueue -----------------------------
(***************************************************************************)
(* The pending-task file of one project, .takt/tasks.yaml, as Pi processes *)
(* change it: takt_enqueue_task under the lock file                        *)
(* (lib/takt-task-queue.ts), the `/takt` task list without it              *)
(* (lib/takt-task-edit.ts), and TAKT, which is not in the repository.      *)
(* One step is one call to the file system: a Pi process runs each of the  *)
(* two without a break, but other processes act between its calls.         *)
(***************************************************************************)
EXTENDS Integers, Sequences, FiniteSets, SequencesExt

CONSTANTS
  Procs,       \* Pi processes
  Editors,     \* those whose user opens the task list
  Unlucky,     \* those that may die, or fail to read or to write tasks.yaml
  Slugs,       \* slugs of task summaries, none a prefix of another
  Branches,    \* branches a task may ask for
  NoBranch,    \* a task without a branch directive
  NoLock,      \* there is no lock file
  MaxTasks,    \* bound of the model: calls to enqueue
  MaxTakts,    \* bound of the model: runs of TAKT
  MaxEdits,    \* bound of the model: edits from the task list
  MaxCrashes   \* bound of the model: Pi processes that die

ASSUME TaskQueueAssumption ==
  /\ Editors \subseteq Procs /\ Unlucky \subseteq Procs /\ Slugs # {}
  /\ NoBranch \notin Branches /\ NoLock \notin [by : Procs, pid : BOOLEAN, old : BOOLEAN]
  /\ MaxTasks \in Nat \ {0} /\ MaxTakts \in Nat /\ MaxEdits \in Nat /\ MaxCrashes \in Nat

VARIABLES
  file,      \* the records of tasks.yaml; <<>> also when there is no file
  torn,      \* writeFileSync has truncated the file and not yet written it
  opened,    \* processes whose writeFileSync holds the file that is there open
  lock,      \* tasks.yaml.lock
  dirs,      \* the task directories under .takt/tasks
  reserved,  \* how many directories were ever made: they are never reused
  takt,      \* TAKT: which run it is, and whether that process is alive
  pc, job, seen, edit,  \* of each process: its place, task, last reading and edit
  edits,     \* edits begun
  answered,  \* history: directories of the tasks reported as enqueued
  dropped    \* history: directories of the tasks the user chose to delete

vars == <<file, torn, opened, lock, dirs, reserved, takt, pc, job, seen, edit, edits,
          answered, dropped>>
yaml == <<file, torn, opened>>
history == <<answered, dropped>>

Names == Slugs \X (1..MaxTasks)     \* <<s, 1>> is written s, and <<s, n>> s-n
Records == [name : Names, dir : 1..MaxTasks, branch : Branches \cup {NoBranch},
            status : {"pending", "running", "done"}, owner : 0..MaxTakts]
Locks == [by : Procs, pid : BOOLEAN, old : BOOLEAN]

Places == {"idle", "lock", "pid", "probe", "reap", "wait", "read", "write", "verify", "unlock",
           "select", "change", "edit", "fill", "dead"}

\* Between openSync of the lock file and its unlink.
Inside(p) == pc[p] \in {"pid", "read", "write", "verify", "unlock"}
Editing(p) == pc[p] \in {"edit", "fill"}

NoJob == [dir |-> 0, slug |-> CHOOSE s \in Slugs : TRUE, branch |-> NoBranch,
          saved |-> FALSE, failed |-> FALSE]
NoEdit == [name |-> <<CHOOSE s \in Slugs : TRUE, 1>>, reset |-> FALSE]

Go(p, where) == pc' = [pc EXCEPT ![p] = where]

\* The call is over, and its local variables with it.
Return(p, where) ==
  /\ Go(p, where)
  /\ job' = [job EXCEPT ![p] = NoJob]
  /\ seen' = [seen EXCEPT ![p] = <<>>]
  /\ edit' = [edit EXCEPT ![p] = NoEdit]

-----------------------------------------------------------------------------
(* What the queue asks of the records it has read.                         *)

\* A record is running for nobody when its owner is gone (isStaleRunningTaskRecord).
Orphan(record) == record.status = "running" /\ ~(takt.up /\ record.owner = takt.run)
Active(record) == record.status = "pending" \/ (record.status = "running" /\ ~Orphan(record))

ConflictIfRunning(branch, tasks) ==
  branch # NoBranch /\ \E i \in DOMAIN tasks :
    tasks[i].branch = branch /\ tasks[i].status = "running" /\ ~Orphan(tasks[i])
Conflict(branch, tasks) ==
  branch # NoBranch /\ \E i \in DOMAIN tasks : tasks[i].branch = branch /\ Active(tasks[i])

UniqueNameFromZero(slug, tasks) ==
  <<slug, CHOOSE n \in 0..Len(tasks) :
            /\ \A i \in DOMAIN tasks : tasks[i].name # <<slug, n>>
            /\ \A m \in 0..(n - 1) : \E i \in DOMAIN tasks : tasks[i].name = <<slug, m>> >>
UniqueName(slug, tasks) ==
  <<slug, CHOOSE n \in 1..(Len(tasks) + 1) :
            /\ \A i \in DOMAIN tasks : tasks[i].name # <<slug, n>>
            /\ \A m \in 1..(n - 1) : \E i \in DOMAIN tasks : tasks[i].name = <<slug, m>> >>

NewRecord(p) ==
  [name |-> UniqueName(job[p].slug, seen[p]), dir |-> job[p].dir, branch |-> job[p].branch,
   status |-> "pending", owner |-> 0]

-----------------------------------------------------------------------------
(* enqueue(): reserve a directory, then append a record under the lock.    *)

Reserve(p, slug, branch) ==
  /\ pc[p] = "idle" /\ reserved < MaxTasks
  /\ reserved' = reserved + 1
  /\ dirs' = dirs \cup {reserved'}
  /\ job' = [job EXCEPT ![p] = [dir |-> reserved', slug |-> slug, branch |-> branch,
                                saved |-> FALSE, failed |-> FALSE]]
  /\ Go(p, "lock")
  /\ UNCHANGED <<yaml, lock, takt, seen, edit, edits, history>>

\* openSync(lockFile, "wx")
Acquire(p) ==
  /\ pc[p] = "lock"
  /\ IF lock = NoLock
       THEN lock' = [by |-> p, pid |-> FALSE, old |-> FALSE] /\ Go(p, "pid")
       ELSE lock' = lock /\ Go(p, "probe")
  /\ UNCHANGED <<yaml, dirs, reserved, takt, job, seen, edit, edits, history>>

\* The descriptor writes to the file this process made, if that is still the lock file.
WritePid(p) ==
  /\ pc[p] = "pid"
  /\ lock' = IF lock # NoLock /\ lock.by = p THEN [lock EXCEPT !.pid = TRUE] ELSE lock
  /\ Go(p, "read")
  /\ UNCHANGED <<yaml, dirs, reserved, takt, job, seen, edit, edits, history>>

\* removeStaleLock: the file names a process that is gone, or it is old.
StaleUnlessOwned(l) == l # NoLock /\ (~l.pid \/ pc[l.by] = "dead" \/ l.old)
StaleByAge(l) == l # NoLock /\ l.old
Stale(l) == l # NoLock /\ ((l.pid /\ pc[l.by] = "dead") \/ l.old)

Probe(p) ==
  /\ pc[p] = "probe"
  /\ Go(p, IF Stale(lock) THEN "reap" ELSE "wait")
  /\ UNCHANGED <<yaml, lock, dirs, reserved, takt, job, seen, edit, edits, history>>

\* The unlink takes away whichever lock file is there by now.
Reap(p) ==
  /\ pc[p] = "reap"
  /\ lock' = NoLock
  /\ Go(p, "wait")
  /\ UNCHANGED <<yaml, dirs, reserved, takt, job, seen, edit, edits, history>>

Retry(p) ==
  /\ pc[p] = "wait"
  /\ Go(p, "lock")
  /\ UNCHANGED <<yaml, lock, dirs, reserved, takt, job, seen, edit, edits, history>>

\* The deadline has passed; the directory goes too.
TimeOut(p) ==
  /\ pc[p] = "wait"
  /\ dirs' = dirs \ {job[p].dir}
  /\ Return(p, "idle")
  /\ UNCHANGED <<yaml, lock, reserved, takt, edits, history>>

Read(p) ==
  /\ pc[p] = "read"
  /\ ~torn /\ ~Conflict(job[p].branch, file)
  /\ seen' = [seen EXCEPT ![p] = file]
  /\ Go(p, "write")
  /\ UNCHANGED <<yaml, lock, dirs, reserved, takt, job, edit, edits, history>>

\* Something throws before the record is in the file: tasks.yaml is cut short or cannot be
\* read, the branch is taken, or the temporary file cannot be written or renamed.
Throw(p) ==
  /\ \/ pc[p] = "read" /\ (torn \/ Conflict(job[p].branch, file))
     \/ pc[p] \in {"read", "write"} /\ p \in Unlucky
  /\ job' = [job EXCEPT ![p].failed = TRUE]
  /\ seen' = [seen EXCEPT ![p] = <<>>]
  /\ Go(p, "unlock")
  /\ UNCHANGED <<yaml, lock, dirs, reserved, takt, edit, edits, history>>

\* MUTANT: that the record is written is not noted.
WriteUnmarked(p) ==
  /\ pc[p] = "write"
  /\ file' = Append(seen[p], NewRecord(p)) /\ torn' = FALSE /\ opened' = {}
  /\ Go(p, "verify")
  /\ UNCHANGED <<lock, dirs, reserved, takt, job, seen, edit, edits, history>>

\* The temporary file is renamed over tasks.yaml: who had that open writes to no file.
Write(p) ==
  /\ pc[p] = "write"
  /\ file' = Append(seen[p], NewRecord(p)) /\ torn' = FALSE /\ opened' = {}
  /\ job' = [job EXCEPT ![p].saved = TRUE]
  /\ Go(p, "verify")
  /\ UNCHANGED <<lock, dirs, reserved, takt, seen, edit, edits, history>>

\* The file is read again: another process may have changed it, and it may be unreadable.
Verify(p) ==
  /\ pc[p] = "verify"
  /\ \E unread \in {FALSE, (p \in Unlucky)} :
       job' = [job EXCEPT ![p].failed =
                 unread \/ torn \/ file = <<>> \/ Last(file) # NewRecord(p)]
  /\ seen' = [seen EXCEPT ![p] = <<>>]
  /\ Go(p, "unlock")
  /\ UNCHANGED <<yaml, lock, dirs, reserved, takt, edit, edits, history>>

\* The unlink, and what enqueue() then does: it answers, or it throws on, with the directory
\* removed unless the record was written (`persisted`).
Unlock(p) ==
  /\ pc[p] = "unlock"
  /\ lock' = NoLock
  /\ dirs' = IF job[p].failed /\ ~job[p].saved THEN dirs \ {job[p].dir} ELSE dirs
  /\ answered' = IF job[p].failed THEN answered ELSE answered \cup {job[p].dir}
  /\ Return(p, "idle")
  /\ UNCHANGED <<yaml, reserved, takt, edits, dropped>>

-----------------------------------------------------------------------------
(* The task list of /takt: no lock, and no rename.                         *)

OpenTasks(p) ==
  /\ pc[p] = "idle" /\ edits < MaxEdits
  /\ file # <<>>
  /\ seen' = [seen EXCEPT ![p] = file]
  /\ edits' = edits + 1
  /\ Go(p, "select")
  /\ UNCHANGED <<yaml, lock, dirs, reserved, takt, job, edit, history>>

\* chosen.startsWith(task.name)
StartsWith(chosen, name) == chosen[1] = name[1] /\ name[2] \in {1, chosen[2]}

Target(p, i) ==
  LET j == CHOOSE k \in DOMAIN seen[p] :
             /\ StartsWith(seen[p][i].name, seen[p][k].name)
             /\ \A m \in 1..(k - 1) : ~StartsWith(seen[p][i].name, seen[p][m].name)
  IN  seen[p][j].name

Choose(p, i, reset) ==
  /\ pc[p] = "select" /\ i \in DOMAIN seen[p]
  /\ edit' = [edit EXCEPT ![p] = [name |-> Target(p, i), reset |-> reset]]
  /\ dropped' = IF reset THEN dropped ELSE dropped \cup {seen[p][i].dir}
  /\ Go(p, "change")
  /\ UNCHANGED <<yaml, lock, dirs, reserved, takt, job, seen, edits, answered>>

\* The names of a list differ, so that the filter drops one record.
Edited(tasks, change) ==
  LET at == SelectInSeq(tasks, LAMBDA r : r.name = change.name)
  IN  IF change.reset THEN [tasks EXCEPT ![at].status = "pending", ![at].owner = 0]
      ELSE RemoveAt(tasks, at)

\* readTaktTaskFile, and the return when the task is not there.
ReadTasks(p) ==
  /\ pc[p] = "change"
  /\ IF \E i \in DOMAIN file : file[i].name = edit[p].name
       THEN seen' = [seen EXCEPT ![p] = file] /\ Go(p, "edit") /\ UNCHANGED <<job, edit>>
       ELSE Return(p, "idle")
  /\ UNCHANGED <<yaml, lock, dirs, reserved, takt, edits, history>>

\* writeFileSync truncates the file, and then writes it.
Truncate(p) ==
  /\ pc[p] = "edit"
  /\ file' = <<>> /\ torn' = TRUE /\ opened' = opened \cup {p}
  /\ Go(p, "fill")
  /\ UNCHANGED <<lock, dirs, reserved, takt, job, seen, edit, edits, history>>

Fill(p) ==
  /\ pc[p] = "fill"
  /\ IF p \in opened
       THEN file' = Edited(seen[p], edit[p]) /\ torn' = FALSE /\ opened' = opened \ {p}
       ELSE UNCHANGED yaml
  /\ Return(p, "idle")
  /\ UNCHANGED <<lock, dirs, reserved, takt, edits, history>>

-----------------------------------------------------------------------------
(* The rest of the world: processes that die, time, and TAKT, which holds  *)
(* the lock while it changes the file.                                     *)

Crash(p) ==
  /\ p \in Unlucky /\ pc[p] # "dead"
  /\ Cardinality({q \in Procs : pc[q] = "dead"}) < MaxCrashes
  /\ Return(p, "dead")
  /\ UNCHANGED <<yaml, lock, dirs, reserved, takt, edits, history>>

\* More than LOCK_STALE_MS has passed since the lock file was made.
Age ==
  /\ lock # NoLock /\ ~lock.old
  /\ lock' = [lock EXCEPT !.old = TRUE]
  /\ UNCHANGED <<yaml, dirs, reserved, takt, pc, job, seen, edit, edits, history>>

\* A run of TAKT gives up the records a dead run left and claims the pending ones.
TaktStarts ==
  /\ ~takt.up /\ takt.run < MaxTakts /\ lock = NoLock /\ ~torn
  /\ takt' = [run |-> takt.run + 1, up |-> TRUE]
  /\ file' = [i \in DOMAIN file |->
               IF Orphan(file[i]) THEN [file[i] EXCEPT !.status = "done"]
               ELSE IF file[i].status = "pending"
                 THEN [file[i] EXCEPT !.status = "running", !.owner = takt'.run]
               ELSE file[i]]
  /\ UNCHANGED <<torn, opened, lock, dirs, reserved, pc, job, seen, edit, edits, history>>

TaktFinishes(i) ==
  /\ takt.up /\ lock = NoLock /\ ~torn
  /\ file[i].status = "running" /\ file[i].owner = takt.run
  /\ file' = [file EXCEPT ![i].status = "done"]
  /\ UNCHANGED <<torn, opened, lock, dirs, reserved, takt, pc, job, seen, edit, edits, history>>

\* With its work done, or killed.
TaktGone ==
  /\ takt.up
  /\ takt' = [takt EXCEPT !.up = FALSE]
  /\ UNCHANGED <<yaml, lock, dirs, reserved, pc, job, seen, edit, edits, history>>

-----------------------------------------------------------------------------

Init ==
  /\ file = <<>> /\ torn = FALSE /\ opened = {} /\ lock = NoLock
  /\ dirs = {} /\ reserved = 0 /\ takt = [run |-> 0, up |-> FALSE]
  /\ pc = [p \in Procs |-> "idle"] /\ seen = [p \in Procs |-> <<>>]
  /\ job = [p \in Procs |-> NoJob] /\ edit = [p \in Procs |-> NoEdit]
  /\ edits = 0 /\ answered = {} /\ dropped = {}

\* withTasksFileLock and its action, once enqueue() has begun.
EnqueueStep(p) ==
  \/ Acquire(p) \/ WritePid(p) \/ Probe(p) \/ Reap(p) \/ Retry(p) \/ TimeOut(p)
  \/ Read(p) \/ Throw(p) \/ Write(p) \/ Verify(p) \/ Unlock(p)

EditStep(p) == ReadTasks(p) \/ Truncate(p) \/ Fill(p)

Takt == TaktStarts \/ TaktGone \/ \E i \in DOMAIN file : TaktFinishes(i)

Next ==
  \/ \E p \in Procs :
       \/ \E s \in Slugs, b \in Branches \cup {NoBranch} : Reserve(p, s, b)
       \/ EnqueueStep(p)
       \/ p \in Editors /\ OpenTasks(p)
       \/ \E i \in 1..MaxTasks, reset \in BOOLEAN : Choose(p, i, reset)
       \/ EditStep(p)
       \/ Crash(p)
  \/ Age
  \/ Takt

Spec == Init /\ [][Next]_vars

\* enqueue() and the edits are synchronous: a process that lives goes on with them.
Fairness ==
  (\A p \in Procs : WF_vars(EnqueueStep(p))) /\ \A p \in Editors : WF_vars(EditStep(p))

-----------------------------------------------------------------------------
(* When the lock excludes: two things the code leaves to the clock.        *)

\* Only the lock file of a process that is gone grows old.
HoldersAreQuick == lock' # NoLock /\ lock'.old => pc[lock'.by] = "dead"

\* Between the look at a stale lock and its unlink, no other process judges it stale and no
\* lock changes.
ReapInTurn ==
  \A p \in Procs : pc[p] = "reap" =>
    /\ \A q \in Procs : pc'[q] = "reap" => q = p
    /\ pc'[p] = "reap" => lock' = lock

Timely == HoldersAreQuick /\ ReapInTurn

TimelySpec == Init /\ [][Next /\ Timely]_vars

-----------------------------------------------------------------------------
(* When an edit of the task list is an edit of one task: three more.       *)

\* An edit has the file to itself and is not cut short.
EditsAreAlone ==
  \A p \in Procs :
    /\ Editing(p) =>
         /\ pc'[p] # "dead"
         /\ \A q \in Procs : pc'[q] = pc[q] \/ q = p
         /\ pc'[p] = pc[p] => yaml' = yaml
    /\ pc[p] = "change" /\ pc'[p] = "edit" => \A q \in Procs : ~Inside(q)

\* One task list is open at a time.  An edit finds its task by name, and while the list of
\* another is open the name may come to be that of a task enqueued after a deletion.
ListIsOpen(p) == pc[p] \in {"select", "change", "edit", "fill"}
EditsInTurn ==
  \A p, q \in Procs : pc[p] = "idle" /\ pc'[p] = "select" => ~ListIsOpen(q)

\* The name an edit looks for is that of a task the user has picked, and not one that only
\* begins like it.
PicksAreExact ==
  \A p \in Procs : pc[p] = "select" /\ pc'[p] = "change" =>
    \E i \in DOMAIN seen[p] : /\ seen[p][i].name = edit'[p].name
                              /\ edit'[p].reset \/ seen[p][i].dir \in dropped'

Tame == Timely /\ EditsAreAlone /\ EditsInTurn /\ PicksAreExact

TameSpec == Init /\ [][Next /\ Tame]_vars

-----------------------------------------------------------------------------
(* Properties.                                                             *)

\* Every variable holds a value of its type.
TypeOK ==
  /\ file \in Seq(Records) /\ Len(file) <= MaxTasks
  /\ torn \in BOOLEAN /\ opened \subseteq Procs
  /\ lock \in Locks \cup {NoLock}
  /\ dirs \subseteq 1..reserved /\ reserved \in 0..MaxTasks
  /\ takt \in [run : 0..MaxTakts, up : BOOLEAN]
  /\ pc \in [Procs -> Places]
  /\ job \in [Procs -> [dir : 0..MaxTasks, slug : Slugs, branch : Branches \cup {NoBranch},
                        saved : BOOLEAN, failed : BOOLEAN]]
  /\ \A p \in Procs : seen[p] \in Seq(Records)
  /\ edit \in [Procs -> [name : Names, reset : BOOLEAN]]
  /\ edits \in 0..MaxEdits
  /\ answered \subseteq 1..reserved /\ dropped \subseteq 1..reserved

\* No two processes are between the making and the unlinking of the lock file at once
\* (withTasksFileLock), whoever crashed while it held the lock.
MutualExclusion == \A p, q \in Procs : p # q => ~(Inside(p) /\ Inside(q))

\* A task that enqueue() reported as saved stays in the file, until the user chooses that
\* task for deletion.
NoTaskLost ==
  ~torn => \A d \in answered \ dropped : \E i \in DOMAIN file : file[i].dir = d

\* The directory a record points to is there: an enqueue() that fails after its write, at the
\* reading back, leaves it, and one that fails before removes it (`persisted`).
TaskHasDir == \A i \in DOMAIN file : file[i].dir \in dirs

\* The file as a set of tasks.  While it is truncated, it is what writeFileSync is about to
\* put there.
Stored ==
  IF torn THEN LET p == CHOOSE q \in opened : TRUE IN ToSet(Edited(seen[p], edit[p])) ELSE ToSet(file)

\* With locks, crashes and edits the file is still the atomic store of TaskStore: no step
\* of any process shows a state in between, loses a task, or gives a name, a directory or
\* a branch twice.
Store == INSTANCE TaskStore WITH tasks <- Stored
ImplementsTaskStore == Store!Spec

\* While some enqueue() tries for the lock file of a process that died with its pid written,
\* none of them gives up before that file is gone (removeStaleLock, before the deadline).
DeadLockGoes ==
  (lock # NoLock /\ lock.pid /\ pc[lock.by] = "dead" /\ \E p \in Procs : pc[p] = "lock")
    ~> (lock = NoLock \/ pc[lock.by] # "dead"
        \/ \A p \in Procs : pc[p] \notin {"lock", "probe", "reap", "wait"})
=============================================================================
