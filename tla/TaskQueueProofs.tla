-------------------------- MODULE TaskQueueProofs --------------------------
(***************************************************************************)
(* The task file, for every set of processes and every number of tasks,    *)
(* crashes and edits.  First the mutual exclusion of its lock, which is    *)
(* not inductive: the invariant adds that whoever is inside owns the lock  *)
(* file, and that the one process about to unlink a lock is about to       *)
(* unlink a dead one's.  Then, on top of it, that the file implements      *)
(* TaskStore.                                                              *)
(***************************************************************************)
EXTENDS TaskQueue, FiniteSetTheorems, SequenceTheorems, TLAPS

LockTypes == lock \in Locks \cup {NoLock} /\ pc \in [Procs -> Places]

InsideOwnsLock == \A p \in Procs : Inside(p) => lock # NoLock /\ lock.by = p

OldIsDead == lock # NoLock /\ lock.old => pc[lock.by] = "dead"

ReaperTakesDead ==
  \A p \in Procs : pc[p] = "reap" =>
    /\ lock # NoLock /\ pc[lock.by] = "dead"
    /\ \A q \in Procs : pc[q] = "reap" => q = p

LockInv == LockTypes /\ InsideOwnsLock /\ OldIsDead /\ ReaperTakesDead

-----------------------------------------------------------------------------
(* What a process's own step does to the places, and to the lock.          *)

\* A step that leaves the lock alone and takes p from one place to another, neither into the
\* lock nor to judge it.
Passes(p, where) ==
  /\ p \in Procs /\ where \in Places
  /\ pc' = [pc EXCEPT ![p] = where] /\ lock' = lock
  /\ pc[p] # "dead" /\ where # "reap"
  /\ where \in {"pid", "read", "write", "verify", "unlock"} => Inside(p)

\* The invariant survives every step that passes.
LEMMA PassingKeepsLock ==
  ASSUME LockInv, NEW p, NEW where, Passes(p, where)
  PROVE  LockInv'
<1> USE DEF LockInv, Passes
<1>1. LockTypes'
  BY DEF LockTypes
<1>2. \A q \in Procs : q # p => pc'[q] = pc[q]
  BY DEF LockTypes
<1>3. pc'[p] = where
  BY DEF LockTypes
<1>4. InsideOwnsLock'
  BY <1>2, <1>3 DEF InsideOwnsLock, Inside
<1>5. lock # NoLock => lock.by \in Procs
  BY DEF LockTypes, Locks
<1>6. lock # NoLock /\ pc[lock.by] = "dead" => pc'[lock.by] = "dead"
  BY <1>2, <1>5
<1>7. OldIsDead'
  BY <1>6 DEF OldIsDead
<1>8. ReaperTakesDead'
  BY <1>2, <1>3, <1>6 DEF ReaperTakesDead
<1>9. QED
  BY <1>1, <1>4, <1>7, <1>8

\* A lock file is not the absence of one.
LEMMA LockFilesDiffer == NoLock \notin Locks
  BY TaskQueueAssumption DEF Locks

\* The invariant holds at first.
LEMMA LockInit == Init => LockInv
  BY DEF Init, LockInv, LockTypes, Places, InsideOwnsLock, Inside, OldIsDead, ReaperTakesDead

\* The first to make the lock file owns it.
LEMMA AcquireKeepsLock ==
  ASSUME LockInv, NEW p \in Procs, Acquire(p)
  PROVE  LockInv'
<1>1. CASE lock # NoLock
  <2>1. Passes(p, "probe")
    BY <1>1 DEF Acquire, Passes, Go, Places
  <2>2. QED
    BY <2>1, PassingKeepsLock
<1>2. CASE lock = NoLock
  <2> DEFINE mine == [by |-> p, pid |-> FALSE, old |-> FALSE]
  <2>1. lock' = mine /\ pc' = [pc EXCEPT ![p] = "pid"]
    BY <1>2 DEF Acquire, Go
  <2>2. mine \in Locks /\ mine # NoLock
    <3>1. mine \in Locks
      BY DEF Locks
    <3>2. QED
      BY <3>1, LockFilesDiffer
  <2>3. LockTypes'
    BY <2>1, <2>2 DEF LockInv, LockTypes, Places
  <2>4. InsideOwnsLock'
    BY <1>2, <2>1, <2>2 DEF LockInv, LockTypes, InsideOwnsLock, Inside
  <2>5. OldIsDead'
    BY <2>1 DEF OldIsDead
  <2>6. ReaperTakesDead'
    BY <1>2, <2>1 DEF LockInv, LockTypes, ReaperTakesDead
  <2>7. QED
    BY <2>3, <2>4, <2>5, <2>6 DEF LockInv
<1>3. QED
  BY <1>1, <1>2

\* Writing the pid keeps the owner and the age of the lock.
LEMMA WritePidKeepsLock ==
  ASSUME LockInv, NEW p \in Procs, WritePid(p)
  PROVE  LockInv'
<1>1. lock \in Locks /\ lock # NoLock /\ lock.by = p /\ ~lock.old
  BY DEF LockInv, LockTypes, InsideOwnsLock, Inside, OldIsDead, WritePid
<1>2. lock' = [lock EXCEPT !.pid = TRUE] /\ pc' = [pc EXCEPT ![p] = "read"]
  BY <1>1 DEF WritePid, Go
<1>3. lock' \in Locks /\ lock' # NoLock /\ lock'.by = p /\ ~lock'.old
  BY <1>1, <1>2, TaskQueueAssumption DEF Locks
<1>4. LockTypes'
  BY <1>2, <1>3 DEF LockInv, LockTypes, Places
<1>5. InsideOwnsLock'
  BY <1>1, <1>2, <1>3 DEF LockInv, LockTypes, InsideOwnsLock, Inside
<1>6. OldIsDead'
  BY <1>3 DEF OldIsDead
<1>7. ReaperTakesDead'
  BY <1>1, <1>2 DEF LockInv, LockTypes, ReaperTakesDead, WritePid
<1>8. QED
  BY <1>4, <1>5, <1>6, <1>7 DEF LockInv

\* A lock judged stale is a dead process's, and no other process is about to take it.
LEMMA ProbeKeepsLock ==
  ASSUME LockInv, NEW p \in Procs, Probe(p), Timely
  PROVE  LockInv'
<1>1. CASE ~Stale(lock)
  <2>1. Passes(p, "wait")
    BY <1>1 DEF Probe, Passes, Go, Places
  <2>2. QED
    BY <2>1, PassingKeepsLock
<1>2. CASE Stale(lock)
  <2>1. lock' = lock /\ pc' = [pc EXCEPT ![p] = "reap"] /\ pc[p] = "probe"
    BY <1>2 DEF Probe, Go
  <2>2. lock \in Locks /\ lock # NoLock /\ pc[lock.by] = "dead"
    BY <1>2 DEF Stale, LockInv, LockTypes, OldIsDead
  <2>3. pc'[lock.by] = "dead"
    BY <2>1, <2>2 DEF LockInv, LockTypes, Locks
  <2>4. LockTypes'
    BY <2>1 DEF LockInv, LockTypes, Places
  <2>5. InsideOwnsLock'
    BY <2>1 DEF LockInv, LockTypes, InsideOwnsLock, Inside
  <2>6. OldIsDead'
    BY <2>1, <2>3 DEF OldIsDead
  <2>7. \A q \in Procs : pc'[q] = "reap" => q = p
    BY <2>1 DEF LockInv, LockTypes, Timely, ReapInTurn
  <2>8. ReaperTakesDead'
    BY <2>1, <2>2, <2>3, <2>7 DEF ReaperTakesDead
  <2>9. QED
    BY <2>4, <2>5, <2>6, <2>8 DEF LockInv
<1>3. QED
  BY <1>1, <1>2

\* Nobody is inside a lock that a process unlinks because it is stale.
LEMMA ReapKeepsLock ==
  ASSUME LockInv, NEW p \in Procs, Reap(p)
  PROVE  LockInv'
<1>1. lock' = NoLock /\ pc' = [pc EXCEPT ![p] = "wait"] /\ pc[p] = "reap"
  BY DEF Reap, Go
<1>2. \A q \in Procs : ~Inside(q)
  BY <1>1 DEF LockInv, LockTypes, InsideOwnsLock, ReaperTakesDead, Inside
<1>3. LockTypes'
  BY <1>1 DEF LockInv, LockTypes, Places
<1>4. InsideOwnsLock'
  BY <1>1, <1>2 DEF LockInv, LockTypes, InsideOwnsLock, Inside
<1>5. OldIsDead'
  BY <1>1 DEF OldIsDead
<1>6. ReaperTakesDead'
  BY <1>1 DEF LockInv, LockTypes, ReaperTakesDead
<1>7. QED
  BY <1>3, <1>4, <1>5, <1>6 DEF LockInv

\* A process that leaves unlinks its own lock, and nobody else is inside it.
LEMMA UnlockKeepsLock ==
  ASSUME LockInv, NEW p \in Procs, Unlock(p)
  PROVE  LockInv'
<1>1. lock' = NoLock /\ pc' = [pc EXCEPT ![p] = "idle"] /\ pc[p] = "unlock"
  BY DEF Unlock, Return, Go
<1>2. lock # NoLock /\ lock.by = p
  BY <1>1 DEF LockInv, InsideOwnsLock, Inside
<1>3. LockTypes'
  BY <1>1 DEF LockInv, LockTypes, Places
<1>4. InsideOwnsLock'
  BY <1>1, <1>2 DEF LockInv, LockTypes, InsideOwnsLock, Inside
<1>5. OldIsDead'
  BY <1>1 DEF OldIsDead
<1>6. ReaperTakesDead'
  BY <1>1, <1>2 DEF LockInv, LockTypes, ReaperTakesDead
<1>7. QED
  BY <1>3, <1>4, <1>5, <1>6 DEF LockInv

\* Only the lock of a dead process grows old.
LEMMA AgeKeepsLock ==
  ASSUME LockInv, Age, Timely
  PROVE  LockInv'
<1>1. lock \in Locks /\ lock # NoLock /\ lock' = [lock EXCEPT !.old = TRUE] /\ pc' = pc
  BY DEF Age, LockInv, LockTypes
<1>2. lock' \in Locks /\ lock' # NoLock /\ lock'.by = lock.by
  BY <1>1, TaskQueueAssumption DEF Locks
<1>3. LockTypes'
  BY <1>1, <1>2 DEF LockInv, LockTypes
<1>4. InsideOwnsLock'
  BY <1>1, <1>2 DEF LockInv, InsideOwnsLock, Inside
<1>5. OldIsDead'
  BY <1>1 DEF OldIsDead, Timely, HoldersAreQuick
<1>6. ReaperTakesDead'
  BY <1>1, <1>2 DEF LockInv, ReaperTakesDead
<1>7. QED
  BY <1>3, <1>4, <1>5, <1>6 DEF LockInv

\* Every step of the system keeps the invariant.
LEMMA LockStep ==
  ASSUME LockInv, [Next /\ Timely]_vars
  PROVE  LockInv'
<1>1. CASE UNCHANGED vars
  BY <1>1 DEF vars, yaml, history, LockInv, LockTypes, InsideOwnsLock, Inside, OldIsDead,
              ReaperTakesDead
<1>2. CASE Age /\ Timely
  BY <1>2, AgeKeepsLock
<1>3. CASE Takt
  <2>1. lock' = lock /\ pc' = pc
    BY <1>3 DEF Takt, TaktStarts, TaktFinishes, TaktGone
  <2>2. QED
    BY <2>1 DEF LockInv, LockTypes, InsideOwnsLock, Inside, OldIsDead, ReaperTakesDead
<1>4. ASSUME NEW p \in Procs, EnqueueStep(p), Timely
      PROVE  LockInv'
  <2>1. CASE Acquire(p)
    BY <2>1, AcquireKeepsLock
  <2>2. CASE WritePid(p)
    BY <2>2, WritePidKeepsLock
  <2>3. CASE Probe(p)
    BY <2>3, <1>4, ProbeKeepsLock
  <2>4. CASE Reap(p)
    BY <2>4, ReapKeepsLock
  <2>5. CASE Unlock(p)
    BY <2>5, UnlockKeepsLock
  <2>6. CASE Retry(p)
    <3>1. Passes(p, "lock")
      BY <2>6 DEF Retry, Passes, Go, Places
    <3>2. QED
      BY <3>1, PassingKeepsLock
  <2>7. CASE TimeOut(p)
    <3>1. Passes(p, "idle")
      BY <2>7 DEF TimeOut, Passes, Return, Go, Places
    <3>2. QED
      BY <3>1, PassingKeepsLock
  <2>8. CASE Read(p) \/ Throw(p)
    <3>1. Passes(p, "unlock") \/ Passes(p, "write")
      BY <2>8 DEF Read, Throw, Passes, Go, Places, Inside
    <3>2. QED
      BY <3>1, PassingKeepsLock
  <2>9. CASE Write(p)
    <3>1. Passes(p, "verify")
      BY <2>9 DEF Write, Passes, Go, Places, Inside
    <3>2. QED
      BY <3>1, PassingKeepsLock
  <2>10. CASE Verify(p)
    <3>1. Passes(p, "unlock")
      BY <2>10 DEF Verify, Passes, Go, Places, Inside
    <3>2. QED
      BY <3>1, PassingKeepsLock
  <2>11. QED
    BY <1>4, <2>1, <2>2, <2>3, <2>4, <2>5, <2>6, <2>7, <2>8, <2>9, <2>10 DEF EnqueueStep
<1>5. ASSUME NEW p \in Procs, EditStep(p)
      PROVE  LockInv'
  <2>1. Passes(p, "edit") \/ Passes(p, "idle") \/ Passes(p, "fill")
    BY <1>5 DEF EditStep, ReadTasks, Truncate, Fill, Passes, Return, Go, Places
  <2>2. QED
    BY <2>1, PassingKeepsLock
<1>6. ASSUME NEW p \in Procs, NEW s \in Slugs, NEW b \in Branches \cup {NoBranch},
             Reserve(p, s, b)
      PROVE  LockInv'
  <2>1. Passes(p, "lock")
    BY <1>6 DEF Reserve, Passes, Go, Places
  <2>2. QED
    BY <2>1, PassingKeepsLock
<1>7. ASSUME NEW p \in Procs, OpenTasks(p)
      PROVE  LockInv'
  <2>1. Passes(p, "select")
    BY <1>7 DEF OpenTasks, Passes, Go, Places
  <2>2. QED
    BY <2>1, PassingKeepsLock
<1>8. ASSUME NEW p \in Procs, NEW i \in 1..MaxTasks, NEW reset \in BOOLEAN,
             Choose(p, i, reset)
      PROVE  LockInv'
  <2>1. Passes(p, "change")
    BY <1>8 DEF Choose, Passes, Go, Places
  <2>2. QED
    BY <2>1, PassingKeepsLock
<1>9. ASSUME NEW p \in Procs, Crash(p)
      PROVE  LockInv'
  <2>1. Passes(p, "dead")
    BY <1>9 DEF Crash, Passes, Return, Go, Places
  <2>2. QED
    BY <2>1, PassingKeepsLock
<1>10. QED
  BY <1>1, <1>2, <1>3, <1>4, <1>5, <1>6, <1>7, <1>8, <1>9 DEF Next

-----------------------------------------------------------------------------

\* At most one process is between the making and the unlinking of tasks.yaml.lock, whoever
\* crashed inside it, if locks grow old only for the dead and are reaped in turn.
THEOREM MutualExclusionTheorem == TimelySpec => []MutualExclusion
<1>1. Init => LockInv
  BY LockInit
<1>2. LockInv /\ [Next /\ Timely]_vars => LockInv'
  BY LockStep
<1>3. LockInv => MutualExclusion
  BY DEF LockInv, InsideOwnsLock, MutualExclusion
<1>4. QED
  BY <1>1, <1>2, <1>3, PTL DEF TimelySpec

-----------------------------------------------------------------------------
(* The invariant of the store *)

\* Records of the first n directories, each with a name and a directory of its own.
Numbered(tasks, n) ==
  /\ tasks \in Seq(Records)
  /\ \A i \in DOMAIN tasks : tasks[i].dir \in 1..n
  /\ \A i, j \in DOMAIN tasks :
       i # j => tasks[i].dir # tasks[j].dir /\ tasks[i].name # tasks[j].name

Jobs == [dir : 0..MaxTasks, slug : Slugs, branch : Branches \cup {NoBranch},
         saved : BOOLEAN, failed : BOOLEAN]
Edits == [name : Names, reset : BOOLEAN]

QueueTypes ==
  /\ Numbered(file, reserved) /\ \A p \in Procs : Numbered(seen[p], reserved)
  /\ torn \in BOOLEAN
  /\ dirs \subseteq 1..reserved /\ reserved \in 0..MaxTasks
  /\ takt \in [run : 0..MaxTakts, up : BOOLEAN]
  /\ seen = [p \in Procs |-> seen[p]]
  /\ job \in [Procs -> Jobs] /\ edit \in [Procs -> Edits]
  /\ edits \in 0..MaxEdits
  /\ answered \subseteq 1..reserved /\ dropped \subseteq 1..reserved

\* enqueue() is under way, and whether its task is still to be written.
Enqueueing(p) == Inside(p) \/ pc[p] \in {"lock", "probe", "reap", "wait"}
Unsaved(p) == Enqueueing(p) /\ ~job[p].saved

Holds(tasks, d) == \E i \in DOMAIN tasks : tasks[i].dir = d

\* A task is in no reading of the file before it is written, and its directory is its own.
JobInv ==
  \A p \in Procs :
    /\ job[p].saved => pc[p] \in {"verify", "unlock"}
    /\ Enqueueing(p) =>
         /\ job[p].dir \in dirs
         /\ \A q \in Procs : Enqueueing(q) /\ p # q => job[p].dir # job[q].dir
    /\ Unsaved(p) =>
         /\ job[p].dir \notin answered \cup dropped
         /\ ~Holds(file, job[p].dir) /\ \A q \in Procs : ~Holds(seen[q], job[p].dir)
    /\ pc[p] = "write" => seen[p] = file /\ ~Conflict(job[p].branch, file)
    /\ pc[p] = "unlock" /\ ~job[p].failed => Holds(file, job[p].dir)

\* The tasks of a list that is open are those of the file, which may have more.
StillThere(tasks, more) ==
  \A i \in DOMAIN tasks :
    i \in DOMAIN more /\ more[i].name = tasks[i].name /\ more[i].dir = tasks[i].dir

\* What the edit of a process is about to do to the tasks it has read.
EditOf(p) ==
  \E i \in DOMAIN seen[p] : /\ seen[p][i].name = edit[p].name
                            /\ edit[p].reset \/ seen[p][i].dir \in dropped

EditInv ==
  /\ opened = {p \in Procs : pc[p] = "fill"} /\ (torn <=> opened # {})
  /\ \A p \in Procs :
       /\ \A q \in Procs \ {p} : /\ ListIsOpen(p) => ~ListIsOpen(q)
                                 /\ Editing(p) => ~Inside(q)
       /\ pc[p] \in {"select", "change"} => StillThere(seen[p], file)
       /\ pc[p] = "edit" => seen[p] = file
       /\ pc[p] = "fill" => file = <<>>
       /\ Editing(p) => \A i \in DOMAIN seen[p] : seen[p][i].dir \in dirs
       /\ pc[p] = "change" \/ Editing(p) => EditOf(p)

StoreInv == LockInv /\ QueueTypes /\ JobInv /\ EditInv /\ TaskHasDir

-----------------------------------------------------------------------------
(* Lists of records                                                        *)

\* Every set of naturals that is not empty has a least element.
LEMMA LeastNatural ==
  ASSUME NEW T \in SUBSET Nat, T # {}
  PROVE  \E n \in T : \A m \in T : n <= m
<1> DEFINE Below == {ss \in Nat \X Nat : ss[1] < ss[2]}
<1>1. IsWellFoundedOn(Below, Nat)
  BY NatLessThanWellFounded DEF OpToRel
<1>2. PICK n \in T : \A m \in T : ~(<<m, n>> \in Below)
  BY <1>1, WFMin
<1>3. ASSUME NEW m \in T PROVE n <= m
  <2>1. m \in Nat /\ n \in Nat
    OBVIOUS
  <2>2. ~(m < n)
    BY <1>2, <2>1
  <2>3. QED
    BY <2>1, <2>2
<1>4. QED
  BY <1>3

LEMMA NothingIsNumbered == \A n : Numbered(<<>>, n)
<1>1. <<>> \in Seq(Records)
  BY EmptySeq
<1>2. QED
  BY <1>1 DEF Numbered

LEMMA FirstNumbers == \A n \in Nat : IsFiniteSet(1..n) /\ Cardinality(1..n) = n
  BY FS_Interval

\* There are no more records than directories.
LEMMA NumberedIsShort ==
  ASSUME NEW n \in Nat, NEW tasks, Numbered(tasks, n)
  PROVE  Len(tasks) \in Nat /\ Len(tasks) <= n
<1> DEFINE dir == [i \in 1..Len(tasks) |-> tasks[i].dir]
<1>1. tasks \in Seq(Records) /\ DOMAIN tasks = 1..Len(tasks) /\ Len(tasks) \in Nat
  BY LenProperties DEF Numbered
<1>2. dir \in [1..Len(tasks) -> 1..n]
  BY <1>1 DEF Numbered
<1>3. \A i, j \in 1..Len(tasks) : dir[i] = dir[j] => i = j
  BY <1>1 DEF Numbered
<1> HIDE DEF dir
<1>4. dir \in Injection(1..Len(tasks), 1..n)
  BY <1>2, <1>3 DEF Injection, IsInjective
<1>5. IsFiniteSet(1..n) /\ Cardinality(1..n) = n /\ Cardinality(1..Len(tasks)) = Len(tasks)
  BY <1>1, FirstNumbers
<1>6. Cardinality(1..Len(tasks)) <= Cardinality(1..n)
  BY <1>4, <1>5, FS_Injection
<1>7. QED
  BY <1>1, <1>5, <1>6

\* And fewer, when a directory is no record's.
LEMMA NumberedIsShorter ==
  ASSUME NEW n \in Nat, NEW tasks, Numbered(tasks, n), NEW d \in 1..n, ~Holds(tasks, d)
  PROVE  Len(tasks) \in Nat /\ Len(tasks) < n
<1> DEFINE dir == [i \in 1..Len(tasks) |-> tasks[i].dir]
           others == (1..n) \ {d}
<1>1. tasks \in Seq(Records) /\ DOMAIN tasks = 1..Len(tasks) /\ Len(tasks) \in Nat
  BY LenProperties DEF Numbered
<1>2. dir \in [1..Len(tasks) -> others]
  BY <1>1 DEF Numbered, Holds
<1>3. \A i, j \in 1..Len(tasks) : dir[i] = dir[j] => i = j
  BY <1>1 DEF Numbered
<1> HIDE DEF dir
<1>4. dir \in Injection(1..Len(tasks), others)
  BY <1>2, <1>3 DEF Injection, IsInjective
<1>5. IsFiniteSet(1..n) /\ Cardinality(1..n) = n /\ Cardinality(1..Len(tasks)) = Len(tasks)
  BY <1>1, FirstNumbers
<1>6. IsFiniteSet(others) /\ Cardinality(others) = n - 1
  BY <1>5, FS_RemoveElement
<1>7. Cardinality(1..Len(tasks)) <= Cardinality(others)
  BY <1>4, <1>6, FS_Injection
<1>8. QED
  BY <1>1, <1>5, <1>6, <1>7

\* With Len(tasks) records, one of Len(tasks) + 1 numbers is free.
LEMMA SomeNumberIsFree ==
  ASSUME NEW slug, NEW tasks \in Seq(Records)
  PROVE  \E n \in 1..(Len(tasks) + 1) : \A i \in DOMAIN tasks : tasks[i].name # <<slug, n>>
<1> DEFINE last == Len(tasks) + 1
           at == [n \in 1..last |-> CHOOSE i \in DOMAIN tasks : tasks[i].name = <<slug, n>>]
<1>1. Len(tasks) \in Nat /\ DOMAIN tasks = 1..Len(tasks) /\ last \in Nat
  BY LenProperties
<1> HIDE DEF last
<1>2. SUFFICES ASSUME \A n \in 1..last : \E i \in DOMAIN tasks : tasks[i].name = <<slug, n>>
               PROVE  FALSE
  BY DEF last
<1>3. \A n \in 1..last : at[n] \in 1..Len(tasks) /\ tasks[at[n]].name = <<slug, n>>
  BY <1>1, <1>2
<1>4. at \in [1..last -> 1..Len(tasks)]
  BY <1>3
<1> HIDE DEF at
<1>5. \A m, n \in 1..last : at[m] = at[n] => m = n
  <2>1. \A m, n \in 1..last : at[m] = at[n] => <<slug, m>> = <<slug, n>>
    BY <1>3
  <2>2. QED
    BY <2>1
<1>6. at \in Injection(1..last, 1..Len(tasks))
  BY <1>4, <1>5 DEF Injection, IsInjective
<1>7. /\ IsFiniteSet(1..Len(tasks)) /\ Cardinality(1..Len(tasks)) = Len(tasks)
      /\ Cardinality(1..last) = last
  BY <1>1, FirstNumbers
<1>8. Cardinality(1..last) <= Cardinality(1..Len(tasks))
  BY <1>6, <1>7, FS_Injection
<1>9. QED
  BY <1>1, <1>7, <1>8 DEF last

\* A name made for a new task is no other's.
LEMMA UniqueNameIsNew ==
  ASSUME NEW slug, NEW tasks \in Seq(Records)
  PROVE  /\ \E n \in 1..(Len(tasks) + 1) : UniqueName(slug, tasks) = <<slug, n>>
         /\ \A i \in DOMAIN tasks : tasks[i].name # UniqueName(slug, tasks)
<1> DEFINE free == {n \in 1..(Len(tasks) + 1) :
                      \A i \in DOMAIN tasks : tasks[i].name # <<slug, n>>}
           Chosen(n) == /\ \A i \in DOMAIN tasks : tasks[i].name # <<slug, n>>
                        /\ \A m \in 1..(n - 1) : \E i \in DOMAIN tasks : tasks[i].name = <<slug, m>>
<1>1. Len(tasks) \in Nat
  BY LenProperties
<1>2. free # {} /\ free \in SUBSET Nat
  <2>1. \A n \in 1..(Len(tasks) + 1) : n \in Nat
    BY <1>1
  <2>2. \E n \in 1..(Len(tasks) + 1) : \A i \in DOMAIN tasks : tasks[i].name # <<slug, n>>
    BY SomeNumberIsFree
  <2>3. QED
    BY <2>1, <2>2
<1>3. PICK n \in free : \A m \in free : n <= m
  BY <1>2, LeastNatural
<1>4. n \in 1..(Len(tasks) + 1) /\ Chosen(n)
  <2>1. ASSUME NEW m \in 1..(n - 1)  PROVE m \notin free /\ m \in 1..(Len(tasks) + 1)
    <3>1. n \in 1..(Len(tasks) + 1) /\ n \in Nat
      BY <1>1, <1>3
    <3>2. m \in 1..(Len(tasks) + 1) /\ m \in Nat /\ ~(n <= m)
      BY <1>1, <3>1
    <3>3. m \notin free
      BY <1>3, <3>1, <3>2
    <3>4. QED
      BY <3>2, <3>3
  <2>2. QED
    BY <1>3, <2>1
<1>5. UniqueName(slug, tasks) = <<slug, CHOOSE m \in 1..(Len(tasks) + 1) : Chosen(m)>>
  BY DEF UniqueName
<1>6. \E m \in 1..(Len(tasks) + 1) : Chosen(m) /\ UniqueName(slug, tasks) = <<slug, m>>
  BY <1>4, <1>5
<1>7. QED
  BY <1>6

\* A new record at the end.
LEMMA OneMoreIsNumbered ==
  ASSUME NEW n \in Nat, NEW tasks, Numbered(tasks, n), NEW r \in Records, r.dir \in 1..n,
         \A i \in DOMAIN tasks : tasks[i].dir # r.dir /\ tasks[i].name # r.name
  PROVE  /\ Numbered(Append(tasks, r), n)
         /\ ToSet(Append(tasks, r)) = ToSet(tasks) \cup {r}
         /\ StillThere(tasks, Append(tasks, r))
         /\ \A d : Holds(Append(tasks, r), d) <=> Holds(tasks, d) \/ d = r.dir
<1> DEFINE more == Append(tasks, r)
           m == Len(tasks)
<1>1. tasks \in Seq(Records) /\ m \in Nat /\ DOMAIN tasks = 1..m
  BY LenProperties DEF Numbered
<1>2. /\ more \in Seq(Records) /\ DOMAIN more = 1..(m + 1)
      /\ \A i \in 1..m : more[i] = tasks[i]
      /\ more[m + 1] = r
  BY <1>1
<1> HIDE DEF more, m
<1>3. \A i \in 1..(m + 1) : i \in 1..m \/ i = m + 1
  BY <1>1
<1>4. m + 1 \in 1..(m + 1) /\ 1..m \subseteq 1..(m + 1)
  BY <1>1
<1>5. Numbered(more, n)
  BY <1>1, <1>2, <1>3 DEF Numbered
<1>6. ToSet(more) = ToSet(tasks) \cup {r}
  BY <1>1, <1>2, <1>3, <1>4 DEF ToSet
<1>7. StillThere(tasks, more)
  BY <1>1, <1>2, <1>4 DEF StillThere
<1>8. \A d : Holds(more, d) <=> Holds(tasks, d) \/ d = r.dir
  BY <1>1, <1>2, <1>3, <1>4 DEF Holds
<1>9. QED
  BY <1>5, <1>6, <1>7, <1>8 DEF more

\* Record i of the tasks is r now, and the others are as they were.
ChangedAt(more, tasks, i, r) ==
  /\ DOMAIN more = DOMAIN tasks /\ more \in Seq(Records)
  /\ more[i] = r
  /\ \A j \in DOMAIN tasks : j # i => more[j] = tasks[j]

LEMMA ExceptChangesAt ==
  ASSUME NEW tasks \in Seq(Records), NEW i \in DOMAIN tasks, NEW r \in Records
  PROVE  ChangedAt([tasks EXCEPT ![i] = r], tasks, i, r)
  BY DEF ChangedAt

\* A record that changes in its place.
LEMMA OneChangedIsNumbered ==
  ASSUME NEW n, NEW tasks, Numbered(tasks, n), NEW i \in DOMAIN tasks, NEW r,
         r.dir = tasks[i].dir, r.name = tasks[i].name,
         NEW more, ChangedAt(more, tasks, i, r)
  PROVE  /\ Numbered(more, n)
         /\ ToSet(more) = (ToSet(tasks) \ {tasks[i]}) \cup {r}
         /\ \A d : Holds(more, d) <=> Holds(tasks, d)
         /\ \A list : StillThere(list, tasks) => StillThere(list, more)
<1> USE DEF ChangedAt
<1>2. Numbered(more, n)
  BY DEF Numbered
<1>3. \A j \in DOMAIN tasks : j # i => tasks[j] # tasks[i]
  BY DEF Numbered
<1>4. ToSet(more) = (ToSet(tasks) \ {tasks[i]}) \cup {r}
  BY <1>3 DEF ToSet
<1>5. \A d : Holds(more, d) <=> Holds(tasks, d)
  BY DEF Holds
<1>6. \A list : StillThere(list, tasks) => StillThere(list, more)
  BY DEF StillThere
<1>7. QED
  BY <1>2, <1>4, <1>5, <1>6

Renewed(r) == [r EXCEPT !.status = "pending", !.owner = 0]

LEMMA RenewedIsARecord ==
  ASSUME NEW r \in Records
  PROVE  Renewed(r) \in Records /\ Renewed(r).dir = r.dir /\ Renewed(r).name = r.name
<1>1. 0 \in 0..MaxTakts
  BY TaskQueueAssumption
<1>2. QED
  BY <1>1 DEF Records, Renewed

\* A name is that of one record of a list.
LEMMA NameIsFound ==
  ASSUME NEW n, NEW tasks, Numbered(tasks, n), NEW name, NEW i \in DOMAIN tasks, tasks[i].name = name
  PROVE  SelectInSeq(tasks, LAMBDA r : r.name = name) = i
<1> DEFINE at == SelectInSeq(tasks, LAMBDA r : r.name = name)
           named == {j \in 1..Len(tasks) : tasks[j].name = name}
<1>1. tasks \in Seq(Records) /\ DOMAIN tasks = 1..Len(tasks)
  BY LenProperties DEF Numbered
<1>2. named = {i}
  BY <1>1 DEF Numbered
<1>3. at = IF named # {} THEN Min(named) ELSE 0
  BY DEF SelectInSeq
<1>4. i \in Nat
  BY <1>1
<1>5. Min({i}) = i
  BY <1>4 DEF Min
<1>6. QED
  BY <1>2, <1>3, <1>5

\* The list an edit writes back: its task reset, or gone, and all others.
LEMMA ResetKeepsOthers ==
  ASSUME NEW n, NEW tasks, Numbered(tasks, n), NEW change, change.reset,
         NEW i \in DOMAIN tasks, tasks[i].name = change.name
  PROVE  /\ Numbered(Edited(tasks, change), n)
         /\ ToSet(Edited(tasks, change)) = (ToSet(tasks) \ {tasks[i]}) \cup {Renewed(tasks[i])}
         /\ \A d : Holds(Edited(tasks, change), d) => Holds(tasks, d)
<1> DEFINE at == SelectInSeq(tasks, LAMBDA r : r.name = change.name)
<1>1. tasks \in Seq(Records) /\ DOMAIN tasks = 1..Len(tasks)
  BY LenProperties DEF Numbered
<1>3. at = i
  BY NameIsFound
<1>4. Edited(tasks, change) = [tasks EXCEPT ![at].status = "pending", ![at].owner = 0]
  BY DEF Edited
<1> HIDE DEF at
<1>5. Edited(tasks, change) = [tasks EXCEPT ![i] = Renewed(tasks[i])]
  BY <1>1, <1>3, <1>4 DEF Renewed
<1>6. /\ Renewed(tasks[i]) \in Records
      /\ Renewed(tasks[i]).dir = tasks[i].dir /\ Renewed(tasks[i]).name = tasks[i].name
  BY <1>1, RenewedIsARecord
<1>7. ChangedAt(Edited(tasks, change), tasks, i, Renewed(tasks[i]))
  BY <1>1, <1>5, <1>6, ExceptChangesAt
<1>8. PICK more, r : more = Edited(tasks, change) /\ r = Renewed(tasks[i])
  OBVIOUS
<1>9. r.dir = tasks[i].dir /\ r.name = tasks[i].name /\ ChangedAt(more, tasks, i, r)
  BY <1>6, <1>7, <1>8
<1>10. /\ Numbered(more, n)
       /\ ToSet(more) = (ToSet(tasks) \ {tasks[i]}) \cup {r}
       /\ \A d : Holds(more, d) <=> Holds(tasks, d)
  BY <1>9, OneChangedIsNumbered
<1>11. QED
  BY <1>8, <1>10

\* The sequence without its i-th element.
LEMMA RemoveAtShifts ==
  ASSUME NEW S, NEW s \in Seq(S), NEW i \in 1..Len(s)
  PROVE  /\ RemoveAt(s, i) \in Seq(S) /\ DOMAIN RemoveAt(s, i) = 1..(Len(s) - 1)
         /\ \A k \in 1..(Len(s) - 1) : RemoveAt(s, i)[k] = IF k < i THEN s[k] ELSE s[k + 1]
<1> DEFINE m == Len(s)
           front == SubSeq(s, 1, i - 1)
           back == SubSeq(s, i + 1, m)
<1>1. m \in Nat /\ i \in Nat /\ 1 <= i /\ i <= m /\ \A k \in 1..m : s[k] \in S
  OBVIOUS
<1>2. /\ front \in Seq(S) /\ Len(front) = i - 1
      /\ \A k \in 1..(i - 1) : front[k] = s[k]
  BY <1>1, SubSeqProperties
<1>3. /\ back \in Seq(S) /\ Len(back) = m - i
      /\ \A k \in 1..(m - i) : back[k] = s[i + k]
  BY <1>1, SubSeqProperties
<1>4. RemoveAt(s, i) = front \o back
  BY DEF RemoveAt
<1> HIDE DEF m, front, back
<1>5. /\ front \o back \in Seq(S) /\ Len(front \o back) = m - 1
      /\ \A k \in 1..(m - 1) : (front \o back)[k] = IF k <= i - 1 THEN front[k] ELSE back[k - (i - 1)]
  BY <1>1, <1>2, <1>3, ConcatProperties
<1>6. ASSUME NEW k \in 1..(m - 1)
      PROVE  (front \o back)[k] = IF k < i THEN s[k] ELSE s[k + 1]
  <2>1. CASE k < i
    BY <1>1, <1>2, <1>5, <2>1
  <2>2. CASE ~(k < i)
    <3>1. k - (i - 1) \in 1..(m - i) /\ i + (k - (i - 1)) = k + 1
      BY <1>1, <2>2
    <3>2. back[k - (i - 1)] = s[k + 1]
      BY <1>3, <3>1
    <3>3. QED
      BY <1>1, <1>5, <2>2, <3>2
  <2>3. QED
    BY <2>1, <2>2
<1>7. DOMAIN (front \o back) = 1..(m - 1)
  BY <1>5, LenProperties
<1>8. QED
  BY <1>4, <1>5, <1>6, <1>7 DEF m

LEMMA DeleteKeepsOthers ==
  ASSUME NEW n, NEW tasks, Numbered(tasks, n), NEW change, ~change.reset,
         NEW i \in DOMAIN tasks, tasks[i].name = change.name
  PROVE  /\ Numbered(Edited(tasks, change), n)
         /\ ToSet(Edited(tasks, change)) = ToSet(tasks) \ {tasks[i]}
         /\ \A d : Holds(Edited(tasks, change), d) => Holds(tasks, d)
<1> DEFINE fewer == RemoveAt(tasks, i)
           m == Len(tasks) - 1
           at == [k \in 1..m |-> IF k < i THEN k ELSE k + 1]
<1>1. tasks \in Seq(Records) /\ DOMAIN tasks = 1..Len(tasks) /\ Len(tasks) \in Nat
  BY LenProperties DEF Numbered
<1>2. Edited(tasks, change) = fewer
  BY NameIsFound DEF Edited
<1>3. fewer \in Seq(Records) /\ DOMAIN fewer = 1..m /\ \A k \in 1..m : fewer[k] = tasks[at[k]]
  BY <1>1, RemoveAtShifts
<1>4. /\ \A k \in 1..m : at[k] \in DOMAIN tasks \ {i}
      /\ \A k, l \in 1..m : k # l => at[k] # at[l]
  BY <1>1
<1>5. ASSUME NEW j \in DOMAIN tasks, j # i PROVE \E k \in 1..m : at[k] = j
  <2>1. CASE j < i
    BY <1>1, <2>1
  <2>2. CASE ~(j < i)
    <3>1. j - 1 \in 1..m /\ ~(j - 1 < i) /\ (j - 1) + 1 = j
      BY <1>1, <1>5, <2>2
    <3>2. at[j - 1] = j
      BY <3>1
    <3>3. QED
      BY <3>1, <3>2
  <2>3. QED
    BY <2>1, <2>2
<1> HIDE DEF fewer, m, at
<1>6. Numbered(fewer, n)
  <2>1. \A k \in DOMAIN fewer : fewer[k] = tasks[at[k]] /\ at[k] \in DOMAIN tasks
    BY <1>3, <1>4
  <2>2. \A k, l \in DOMAIN fewer : k # l => at[k] # at[l]
    BY <1>3, <1>4
  <2>3. \A k \in DOMAIN fewer : fewer[k].dir \in 1..n
    BY <2>1 DEF Numbered
  <2>4. \A k, l \in DOMAIN fewer :
          k # l => fewer[k].dir # fewer[l].dir /\ fewer[k].name # fewer[l].name
    BY <2>1, <2>2 DEF Numbered
  <2>5. QED
    BY <1>3, <2>3, <2>4 DEF Numbered
<1>7. ToSet(fewer) = {tasks[j] : j \in DOMAIN tasks \ {i}}
  BY <1>3, <1>4, <1>5 DEF ToSet
<1>8. ToSet(fewer) = ToSet(tasks) \ {tasks[i]}
  <2>1. \A j \in DOMAIN tasks : j # i => tasks[j] # tasks[i]
    BY DEF Numbered
  <2>2. QED
    BY <1>7, <2>1 DEF ToSet
<1>9. \A list, d : Holds(list, d) <=> \E t \in ToSet(list) : t.dir = d
  BY DEF Holds, ToSet
<1>10. QED
  BY <1>2, <1>6, <1>8, <1>9

-----------------------------------------------------------------------------
(* Steps that leave the tasks alone                                        *)

\* While an edit is at the file no other process moves.
LEMMA EditorIsAlone ==
  ASSUME StoreInv, EditsAreAlone, NEW p \in Procs, NEW where,
         pc' = [pc EXCEPT ![p] = where], where # pc[p]
  PROVE  \A q \in Procs : Editing(q) => q = p
<1>1. pc'[p] # pc[p]
  BY DEF StoreInv, LockInv, LockTypes
<1>2. QED
  BY <1>1 DEF EditsAreAlone

\* Process p moves on, and at most makes a reading of its own or gives up its task's
\* directory; if it is in enqueue() after the step it was there before, with that task.
Moves(p, where) ==
  /\ p \in Procs /\ where \in Places \ {"select", "change", "edit", "fill"}
  /\ pc' = [pc EXCEPT ![p] = where] /\ ~Editing(p) /\ where # pc[p]
  /\ UNCHANGED <<yaml, reserved, takt, edits, dropped>>
  /\ \E j \in Jobs : job' = [job EXCEPT ![p] = j]
  /\ \E list \in {seen[p], file, <<>>} : seen' = [seen EXCEPT ![p] = list]
  /\ \E e \in Edits : edit' = [edit EXCEPT ![p] = e]
  /\ dirs' = dirs \/ (dirs' = dirs \ {job[p].dir} /\ Unsaved(p) /\ ~Enqueueing(p)')
  /\ answered' = answered \/ (/\ answered' = answered \cup {job[p].dir}
                              /\ Enqueueing(p) /\ Holds(file, job[p].dir))

MovesInEnqueue(p, where) ==
  /\ job'[p].saved => where \in {"verify", "unlock"}
  /\ Enqueueing(p)' => Enqueueing(p) /\ job'[p].dir = job[p].dir
  /\ Unsaved(p)' => Unsaved(p) /\ answered' = answered
  /\ where = "write" => seen'[p] = file /\ ~Conflict(job'[p].branch, file)
  /\ where = "unlock" /\ ~job'[p].failed => Holds(file, job'[p].dir)

LEMMA MovesAlone ==
  ASSUME StoreInv, EditsAreAlone, NEW p, NEW where, Moves(p, where)
  PROVE  /\ \A q \in Procs : ~Editing(q)
         /\ opened = {} /\ torn = FALSE
         /\ pc'[p] = where /\ \A q \in Procs \ {p} : pc'[q] = pc[q]
         /\ \A q \in Procs \ {p} : job'[q] = job[q] /\ seen'[q] = seen[q] /\ edit'[q] = edit[q]
<1>1. \A q \in Procs : ~Editing(q)
  BY EditorIsAlone DEF Moves
<1>2. opened = {} /\ torn = FALSE
  BY <1>1 DEF StoreInv, QueueTypes, EditInv, Editing
<1>3. pc'[p] = where /\ \A q \in Procs \ {p} : pc'[q] = pc[q]
  BY DEF Moves, StoreInv, LockInv, LockTypes
<1>4. \A q \in Procs \ {p} : job'[q] = job[q] /\ seen'[q] = seen[q] /\ edit'[q] = edit[q]
  BY DEF Moves, StoreInv, QueueTypes
<1>5. QED
  BY <1>1, <1>2, <1>3, <1>4

LEMMA MovesKeepTypes ==
  ASSUME StoreInv, NEW p, NEW where, Moves(p, where)
  PROVE  QueueTypes'
<1> USE DEF Moves, StoreInv, QueueTypes
<1>1. /\ file' = file /\ torn' = torn /\ reserved' = reserved /\ takt' = takt
      /\ edits' = edits /\ dropped' = dropped
  BY DEF yaml
<1>2. PICK list \in {seen[p], file, <<>>} : seen' = [seen EXCEPT ![p] = list]
  OBVIOUS
<1>3. Numbered(list, reserved)
  BY <1>2, NothingIsNumbered
<1>4. (\A q \in Procs : Numbered(seen[q], reserved))' /\ (seen = [q \in Procs |-> seen[q]])'
  BY <1>1, <1>2, <1>3
<1>5. job' \in [Procs -> Jobs] /\ edit' \in [Procs -> Edits]
  OBVIOUS
<1>6. dirs' \subseteq 1..reserved
  OBVIOUS
<1>7. answered' \subseteq 1..reserved
  <2>1. ASSUME Holds(file, job[p].dir)  PROVE job[p].dir \in 1..reserved
    BY <2>1 DEF Holds, Numbered
  <2>2. QED
    BY <2>1
<1>8. QED
  BY <1>1, <1>4, <1>5, <1>6, <1>7

LEMMA MovesKeepJobs ==
  ASSUME StoreInv, EditsAreAlone, NEW p, NEW where, Moves(p, where), MovesInEnqueue(p, where)
  PROVE  JobInv'
<1>1. /\ pc'[p] = where /\ \A q \in Procs \ {p} : pc'[q] = pc[q]
      /\ \A q \in Procs \ {p} : job'[q] = job[q] /\ seen'[q] = seen[q]
  BY MovesAlone
<1>2. p \in Procs /\ seen'[p] \in {seen[p], file, <<>>}
  BY DEF Moves, StoreInv, QueueTypes
<1>3. file' = file /\ takt' = takt /\ dropped' = dropped
  BY DEF Moves, yaml
<1>4. \A branch : Conflict(branch, file)' <=> Conflict(branch, file)
  BY <1>3 DEF Conflict, Active, Orphan
<1>5. \A d : \A q \in Procs : Holds(seen'[q], d) => Holds(file, d) \/ \E r \in Procs : Holds(seen[r], d)
  BY <1>1, <1>2 DEF Holds
<1>6. \A q \in Procs \ {p} : /\ Enqueueing(q)' <=> Enqueueing(q)
                             /\ Unsaved(q)' <=> Unsaved(q)
  BY <1>1 DEF Enqueueing, Unsaved, Inside
<1>7. ASSUME NEW q \in Procs, Enqueueing(q)'
      PROVE  /\ Enqueueing(q) /\ job'[q].dir = job[q].dir
             /\ job[q].dir \in dirs'
  <2>1. Enqueueing(q) /\ job'[q].dir = job[q].dir
    BY <1>1, <1>6, <1>7 DEF MovesInEnqueue
  <2>2. dirs' = dirs \/ (q # p /\ Enqueueing(p) /\ dirs' = dirs \ {job[p].dir})
    BY <1>7 DEF Moves, Unsaved
  <2>3. QED
    BY <1>2, <2>1, <2>2 DEF StoreInv, JobInv
<1>8. ASSUME NEW q \in Procs, Unsaved(q)'
      PROVE  /\ Unsaved(q) /\ job'[q].dir = job[q].dir
             /\ job[q].dir \notin answered'
  <2>1. Unsaved(q) /\ job'[q].dir = job[q].dir
    BY <1>1, <1>6, <1>7, <1>8 DEF MovesInEnqueue, Unsaved
  <2>2. Enqueueing(q) /\ job[q].dir \notin answered
    BY <2>1 DEF StoreInv, JobInv, Unsaved
  <2>3. answered' = answered \/ (q # p /\ Enqueueing(p) /\ answered' = answered \cup {job[p].dir})
    BY <1>8 DEF Moves, MovesInEnqueue
  <2>4. QED
    BY <1>2, <2>2, <2>3, <2>1 DEF StoreInv, JobInv
<1>9. ASSUME NEW q \in Procs
      PROVE  /\ job'[q].saved => pc'[q] \in {"verify", "unlock"}
             /\ pc'[q] = "write" => seen'[q] = file /\ ~Conflict(job'[q].branch, file)
             /\ pc'[q] = "unlock" /\ ~job'[q].failed => Holds(file, job'[q].dir)
  BY <1>1 DEF MovesInEnqueue, StoreInv, JobInv
<1>10. \A q, r \in Procs : Enqueueing(q)' /\ Enqueueing(r)' /\ q # r => job'[q].dir # job'[r].dir
  BY <1>7 DEF StoreInv, JobInv
<1>11. \A q \in Procs : Unsaved(q)' =>
         /\ job'[q].dir \notin answered' \cup dropped'
         /\ ~Holds(file', job'[q].dir) /\ \A r \in Procs : ~Holds(seen'[r], job'[q].dir)
  BY <1>3, <1>5, <1>8 DEF StoreInv, JobInv
<1>12. QED
  BY <1>3, <1>4, <1>7, <1>9, <1>10, <1>11 DEF JobInv, Holds

LEMMA MovesKeepEdits ==
  ASSUME StoreInv, EditsAreAlone, NEW p, NEW where, Moves(p, where)
  PROVE  EditInv'
<1>1. /\ \A q \in Procs : ~Editing(q)
      /\ opened = {} /\ torn = FALSE
      /\ pc'[p] = where /\ \A q \in Procs \ {p} : pc'[q] = pc[q]
      /\ \A q \in Procs \ {p} : seen'[q] = seen[q] /\ edit'[q] = edit[q]
  BY MovesAlone
<1>2. /\ p \in Procs /\ where \notin {"select", "change", "edit", "fill"}
      /\ file' = file /\ opened' = opened /\ torn' = torn /\ dropped' = dropped
  BY DEF Moves, yaml
<1>3. \A q \in Procs : ~Editing(q)' /\ (ListIsOpen(q)' => ListIsOpen(q) /\ q # p)
  BY <1>1, <1>2 DEF Editing, ListIsOpen
<1>4. opened' = {q \in Procs : pc'[q] = "fill"} /\ (torn' <=> opened' # {})
  BY <1>1, <1>2, <1>3 DEF Editing
<1>5. \A q \in Procs : pc'[q] \in {"select", "change"} =>
         seen'[q] = seen[q] /\ StillThere(seen[q], file) /\ q # p /\ pc'[q] = pc[q]
  BY <1>1, <1>2 DEF StoreInv, EditInv
<1>6. \A q \in Procs : pc'[q] = "change" => EditOf(q)'
  BY <1>1, <1>2, <1>5 DEF StoreInv, EditInv, EditOf
<1>7. \A q, r \in Procs : q # r => ~(ListIsOpen(q)' /\ ListIsOpen(r)')
  BY <1>3 DEF StoreInv, EditInv
<1>8. \A q \in Procs : pc'[q] \notin {"edit", "fill"}
  BY <1>3 DEF Editing
<1>9. \A q \in Procs : (pc[q] \in {"select", "change"} => StillThere(seen[q], file))'
  BY <1>2, <1>5 DEF StillThere
<1>10. QED
  BY <1>3, <1>4, <1>6, <1>7, <1>8, <1>9 DEF EditInv

LEMMA MovesKeepDirs ==
  ASSUME StoreInv, NEW p, NEW where, Moves(p, where)
  PROVE  TaskHasDir'
<1>1. file' = file /\ p \in Procs
  BY DEF Moves, yaml
<1>2. dirs' = dirs \/ (dirs' = dirs \ {job[p].dir} /\ ~Holds(file, job[p].dir))
  BY <1>1 DEF Moves, StoreInv, JobInv
<1>3. QED
  BY <1>1, <1>2 DEF StoreInv, TaskHasDir, Holds

\* Such a step keeps the invariant.
LEMMA MovesKeepStore ==
  ASSUME StoreInv, LockInv', EditsAreAlone,
         NEW p, NEW where, Moves(p, where), MovesInEnqueue(p, where)
  PROVE  StoreInv'
  BY MovesKeepTypes, MovesKeepJobs, MovesKeepEdits, MovesKeepDirs DEF StoreInv

-----------------------------------------------------------------------------
(* The steps of an enqueue() that only move on                             *)

LEMMA NothingIsTyped == NoJob \in Jobs /\ NoEdit \in Edits
<1>1. (CHOOSE s \in Slugs : TRUE) \in Slugs
  BY TaskQueueAssumption
<1>2. 0 \in 0..MaxTasks /\ 1 \in 1..MaxTasks
  BY TaskQueueAssumption
<1>3. NoJob \in Jobs
  BY <1>1, <1>2 DEF NoJob, Jobs
<1>4. NoEdit \in Edits
  BY <1>1, <1>2 DEF NoEdit, Edits, Names
<1>5. QED
  BY <1>3, <1>4

\* What the invariant says of a process.
LEMMA OfProcess ==
  ASSUME StoreInv, NEW p \in Procs
  PROVE  /\ job[p] \in Jobs /\ edit[p] \in Edits
         /\ job = [job EXCEPT ![p] = job[p]] /\ seen = [seen EXCEPT ![p] = seen[p]]
         /\ edit = [edit EXCEPT ![p] = edit[p]]
         /\ \A where : pc' = [pc EXCEPT ![p] = where] => pc'[p] = where
         /\ \A j : job' = [job EXCEPT ![p] = j] => job'[p] = j
         /\ \A list : seen' = [seen EXCEPT ![p] = list] => seen'[p] = list
  BY DEF StoreInv, QueueTypes, LockInv, LockTypes

\* A step that changes its process's place and the lock.
LEMMA GoMoves ==
  ASSUME StoreInv, NEW p \in Procs, NEW where \in Places \ {"select", "change", "edit", "fill"},
         Go(p, where), where # pc[p], ~Editing(p),
         UNCHANGED <<yaml, dirs, reserved, takt, job, seen, edit, edits, history>>
  PROVE  Moves(p, where)
<1>1. /\ \E j \in Jobs : job' = [job EXCEPT ![p] = j]
      /\ \E list \in {seen[p], file, <<>>} : seen' = [seen EXCEPT ![p] = list]
      /\ \E e \in Edits : edit' = [edit EXCEPT ![p] = e]
  BY OfProcess
<1>2. QED
  BY <1>1 DEF Moves, Go, history

LEMMA AcquireMoves ==
  ASSUME StoreInv, NEW p \in Procs, Acquire(p) \/ WritePid(p) \/ Probe(p) \/ Reap(p) \/ Retry(p)
  PROVE  \E where : Moves(p, where) /\ MovesInEnqueue(p, where)
<1>1. PICK where \in {"pid", "probe", "read", "reap", "wait", "lock"} :
        Go(p, where) /\ where # pc[p]
  BY DEF Acquire, WritePid, Probe, Reap, Retry
<1>2. /\ Enqueueing(p) /\ ~Editing(p)
      /\ UNCHANGED <<yaml, dirs, reserved, takt, job, seen, edit, edits, history>>
  BY DEF Acquire, WritePid, Probe, Reap, Retry, Enqueueing, Inside, Editing
<1>3. Moves(p, where)
  BY <1>1, <1>2, GoMoves DEF Places
<1>4. pc'[p] = where
  BY <1>1, OfProcess DEF Go
<1>5. ~job[p].saved
  BY <1>2 DEF StoreInv, JobInv, Acquire, WritePid, Probe, Reap, Retry
<1>6. MovesInEnqueue(p, where)
  BY <1>1, <1>2, <1>4, <1>5 DEF MovesInEnqueue, Unsaved, history
<1>7. QED
  BY <1>3, <1>6

\* A call that ends.
LEMMA ReturnMoves ==
  ASSUME StoreInv, NEW p \in Procs, NEW where \in {"idle", "dead"},
         Return(p, where), where # pc[p], ~Editing(p),
         UNCHANGED <<yaml, reserved, takt, edits, dropped>>,
         dirs' = dirs \/ (dirs' = dirs \ {job[p].dir} /\ Unsaved(p)),
         answered' = answered \/ (/\ answered' = answered \cup {job[p].dir}
                                  /\ Enqueueing(p) /\ Holds(file, job[p].dir))
  PROVE  Moves(p, where) /\ MovesInEnqueue(p, where)
<1>1. pc' = [pc EXCEPT ![p] = where] /\ pc'[p] = where
  BY OfProcess DEF Return, Go
<1>2. ~Enqueueing(p)' /\ ~Unsaved(p)'
  BY <1>1 DEF Enqueueing, Unsaved, Inside
<1>3. /\ \E j \in Jobs : job' = [job EXCEPT ![p] = j]
      /\ \E list \in {seen[p], file, <<>>} : seen' = [seen EXCEPT ![p] = list]
      /\ \E e \in Edits : edit' = [edit EXCEPT ![p] = e]
  BY NothingIsTyped DEF Return
<1>4. Moves(p, where)
  BY <1>1, <1>2, <1>3 DEF Moves, Places
<1>5. job'[p] = NoJob
  BY OfProcess DEF Return
<1>6. MovesInEnqueue(p, where)
  BY <1>2, <1>5 DEF MovesInEnqueue, NoJob
<1>7. QED
  BY <1>4, <1>6

LEMMA TimeOutMoves ==
  ASSUME StoreInv, NEW p \in Procs, TimeOut(p)
  PROVE  Moves(p, "idle") /\ MovesInEnqueue(p, "idle")
<1>1. pc[p] = "wait" /\ Return(p, "idle") /\ dirs' = dirs \ {job[p].dir}
  BY DEF TimeOut
<1>2. UNCHANGED <<yaml, reserved, takt, edits, dropped>> /\ answered' = answered
  BY DEF TimeOut, history
<1>3. Unsaved(p) /\ ~Editing(p)
  BY <1>1 DEF StoreInv, JobInv, Unsaved, Enqueueing, Editing
<1>4. QED
  BY <1>1, <1>2, <1>3, ReturnMoves

LEMMA UnlockMoves ==
  ASSUME StoreInv, NEW p \in Procs, Unlock(p)
  PROVE  Moves(p, "idle") /\ MovesInEnqueue(p, "idle")
<1>1. pc[p] = "unlock" /\ Return(p, "idle")
  BY DEF Unlock
<1>2. UNCHANGED <<yaml, reserved, takt, edits, dropped>>
  BY DEF Unlock
<1>3. Enqueueing(p) /\ ~Editing(p)
  BY <1>1 DEF Enqueueing, Inside, Editing
<1>4. dirs' = dirs \/ (dirs' = dirs \ {job[p].dir} /\ Unsaved(p))
  BY <1>3 DEF Unlock, Unsaved
<1>5. answered' = answered \/ (answered' = answered \cup {job[p].dir} /\ Holds(file, job[p].dir))
  BY <1>1 DEF Unlock, StoreInv, JobInv
<1>6. QED
  BY <1>1, <1>2, <1>3, <1>4, <1>5, ReturnMoves

LEMMA CrashMoves ==
  ASSUME StoreInv, EditsAreAlone, NEW p \in Procs, Crash(p)
  PROVE  Moves(p, "dead") /\ MovesInEnqueue(p, "dead")
<1>1. pc[p] # "dead" /\ Return(p, "dead") /\ pc'[p] = "dead"
  BY OfProcess DEF Crash, Return, Go
<1>2. UNCHANGED <<yaml, reserved, takt, edits, dropped>> /\ dirs' = dirs /\ answered' = answered
  BY DEF Crash, history
<1>3. ~Editing(p)
  BY <1>1 DEF EditsAreAlone
<1>4. QED
  BY <1>1, <1>2, <1>3, ReturnMoves

\* The task an edit looks for is gone.
LEMMA NoTaskMoves ==
  ASSUME StoreInv, NEW p \in Procs, ReadTasks(p), pc'[p] # "edit"
  PROVE  Moves(p, "idle") /\ MovesInEnqueue(p, "idle")
<1>1. pc[p] = "change" /\ Return(p, "idle")
  BY OfProcess DEF ReadTasks, Go
<1>2. UNCHANGED <<yaml, reserved, takt, edits, dropped>> /\ dirs' = dirs /\ answered' = answered
  BY DEF ReadTasks, history
<1>3. QED
  BY <1>1, <1>2, ReturnMoves DEF Editing

\* The branch was free when the file was read, inside the lock.
LEMMA ReadMoves ==
  ASSUME StoreInv, NEW p \in Procs, Read(p)
  PROVE  Moves(p, "write") /\ MovesInEnqueue(p, "write")
<1>1. /\ pc[p] = "read" /\ ~job[p].saved /\ ~Editing(p) /\ Unsaved(p)
      /\ UNCHANGED <<yaml, dirs, reserved, takt, edit, edits, history>>
      /\ Go(p, "write") /\ job' = job /\ seen' = [seen EXCEPT ![p] = file]
      /\ ~Conflict(job[p].branch, file)
  BY DEF Read, StoreInv, JobInv, Editing, Unsaved, Enqueueing, Inside
<1>2. /\ \E e \in Edits : edit' = [edit EXCEPT ![p] = e]
      /\ \E j \in Jobs : job' = [job EXCEPT ![p] = j]
      /\ \E list \in {seen[p], file, <<>>} : seen' = [seen EXCEPT ![p] = list]
  BY <1>1, OfProcess
<1>3. seen'[p] = file
  BY <1>1, OfProcess
<1>4. Moves(p, "write")
  BY <1>1, <1>2 DEF Moves, Go, history, Places
<1>5. MovesInEnqueue(p, "write")
  BY <1>1, <1>3 DEF MovesInEnqueue, Unsaved, history
<1>6. QED
  BY <1>4, <1>5

\* What throws before the write leaves a task that is not saved.
LEMMA ThrowMoves ==
  ASSUME StoreInv, NEW p \in Procs, Throw(p)
  PROVE  Moves(p, "unlock") /\ MovesInEnqueue(p, "unlock")
<1>1. /\ pc[p] \in {"read", "write"} /\ ~job[p].saved /\ ~Editing(p) /\ Unsaved(p)
      /\ UNCHANGED <<yaml, dirs, reserved, takt, edit, edits, history>>
      /\ Go(p, "unlock") /\ seen' = [seen EXCEPT ![p] = <<>>]
      /\ job' = [job EXCEPT ![p].failed = TRUE]
  BY DEF Throw, StoreInv, JobInv, Editing, Unsaved, Enqueueing, Inside
<1>2. /\ \E e \in Edits : edit' = [edit EXCEPT ![p] = e]
      /\ \E list \in {seen[p], file, <<>>} : seen' = [seen EXCEPT ![p] = list]
  BY <1>1, OfProcess
<1>3. /\ job' = [job EXCEPT ![p] = [job[p] EXCEPT !.failed = TRUE]] /\ job[p] \in Jobs
      /\ job'[p] = [job[p] EXCEPT !.failed = TRUE]
  BY <1>1, OfProcess
<1>4. [job[p] EXCEPT !.failed = TRUE] \in Jobs
  BY <1>3 DEF Jobs
<1>5. job'[p].dir = job[p].dir /\ job'[p].saved = job[p].saved /\ job'[p].failed
  BY <1>3 DEF Jobs
<1>6. Moves(p, "unlock")
  BY <1>1, <1>2, <1>3, <1>4 DEF Moves, Go, history, Places
<1>7. MovesInEnqueue(p, "unlock")
  BY <1>1, <1>5 DEF MovesInEnqueue, Unsaved, history
<1>8. QED
  BY <1>6, <1>7

\* The record written last is in the file.
LEMMA VerifyMoves ==
  ASSUME StoreInv, NEW p \in Procs, Verify(p)
  PROVE  Moves(p, "unlock") /\ MovesInEnqueue(p, "unlock")
<1> DEFINE differs == torn \/ file = <<>> \/ Last(file) # NewRecord(p)
<1>1. /\ pc[p] = "verify" /\ ~Editing(p) /\ Enqueueing(p) /\ Go(p, "unlock")
      /\ UNCHANGED <<yaml, dirs, reserved, takt, edit, edits, history>>
      /\ seen' = [seen EXCEPT ![p] = <<>>]
  BY DEF Verify, Editing, Enqueueing, Inside
<1>2. /\ \E e \in Edits : edit' = [edit EXCEPT ![p] = e]
      /\ \E list \in {seen[p], file, <<>>} : seen' = [seen EXCEPT ![p] = list]
  BY <1>1, OfProcess
<1>3. PICK failed \in BOOLEAN : /\ differs => failed
                               /\ job' = [job EXCEPT ![p].failed = failed]
  <2>1. PICK unread \in {FALSE, (p \in Unlucky)} :
          job' = [job EXCEPT ![p].failed =
                    unread \/ torn \/ file = <<>> \/ Last(file) # NewRecord(p)]
    BY DEF Verify
  <2>2. job' = [job EXCEPT ![p].failed = (unread \/ differs)]
    BY <2>1, Zenon
  <2>3. (unread \/ differs) \in BOOLEAN
    OBVIOUS
  <2>4. QED
    BY <2>2, <2>3, Zenon
<1>4. /\ job' = [job EXCEPT ![p] = [job[p] EXCEPT !.failed = failed]] /\ job[p] \in Jobs
      /\ job'[p] = [job[p] EXCEPT !.failed = failed]
  BY <1>3, OfProcess
<1> HIDE DEF differs
<1>5. [job[p] EXCEPT !.failed = failed] \in Jobs
  BY <1>3, <1>4 DEF Jobs
<1>6. job'[p].dir = job[p].dir /\ job'[p].saved = job[p].saved /\ job'[p].failed = failed
  BY <1>4 DEF Jobs
<1>7. Moves(p, "unlock")
  BY <1>1, <1>2, <1>4, <1>5 DEF Moves, Go, history, Places
<1>8. ~failed => Holds(file, job[p].dir)
  <2>1. ASSUME ~failed  PROVE file # <<>> /\ Last(file) = NewRecord(p)
    BY <1>3, <2>1 DEF differs
  <2>2. file \in Seq(Records) /\ Last(file) = file[Len(file)]
    BY DEF Last, StoreInv, QueueTypes, Numbered
  <2>3. file # <<>> => Len(file) \in DOMAIN file
    BY <2>2, LenProperties, EmptySeq
  <2>4. NewRecord(p).dir = job[p].dir
    BY DEF NewRecord
  <2>5. QED
    BY <2>1, <2>2, <2>3, <2>4 DEF Holds
<1>9. MovesInEnqueue(p, "unlock")
  BY <1>1, <1>6, <1>8 DEF MovesInEnqueue, Unsaved, history
<1>10. QED
  BY <1>7, <1>9

-----------------------------------------------------------------------------
(* The steps that make, choose and read tasks                              *)

LEMMA NumbersGrow ==
  ASSUME NEW n \in Nat, NEW tasks, Numbered(tasks, n)
  PROVE  Numbered(tasks, n + 1) /\ ~Holds(tasks, n + 1)
<1>1. \A i \in DOMAIN tasks : tasks[i].dir \in 1..n
  BY DEF Numbered
<1>2. 1..n \subseteq 1..(n + 1) /\ n + 1 \notin 1..n
  OBVIOUS
<1>3. QED
  BY <1>1, <1>2 DEF Numbered, Holds

\* The directory of a new task was never used.
LEMMA ReserveKeepsStore ==
  ASSUME StoreInv, LockInv', EditsAreAlone, NEW p \in Procs, NEW slug \in Slugs,
         NEW branch \in Branches \cup {NoBranch}, Reserve(p, slug, branch)
  PROVE  StoreInv'
<1> DEFINE task == [dir |-> reserved + 1, slug |-> slug, branch |-> branch,
                    saved |-> FALSE, failed |-> FALSE]
<1>1. /\ reserved \in Nat /\ MaxTasks \in Nat /\ reserved < MaxTasks
      /\ reserved' = reserved + 1 /\ reserved' \in 1..MaxTasks /\ reserved' \notin 1..reserved
      /\ 1..reserved \subseteq 1..reserved' /\ reserved' \in 1..reserved'
  BY TaskQueueAssumption DEF Reserve, StoreInv, QueueTypes
<1>2. /\ dirs' = dirs \cup {reserved'} /\ job' = [job EXCEPT ![p] = task]
      /\ UNCHANGED <<takt, seen, edit, edits, answered, dropped, file, torn, opened>>
      /\ pc[p] = "idle" /\ pc' = [pc EXCEPT ![p] = "lock"]
  BY <1>1 DEF Reserve, Go, history, yaml
<1>3. pc'[p] = "lock" /\ job'[p] = task /\ \A q \in Procs \ {p} : pc'[q] = pc[q] /\ job'[q] = job[q]
  BY <1>2 DEF StoreInv, QueueTypes, LockInv, LockTypes
<1>4. task \in Jobs /\ task.dir = reserved' /\ ~task.saved
  BY <1>1 DEF Jobs
<1> HIDE DEF task
<1>5. /\ Numbered(file, reserved') /\ ~Holds(file, reserved')
      /\ \A q \in Procs : Numbered(seen[q], reserved') /\ ~Holds(seen[q], reserved')
  BY <1>1, NumbersGrow DEF StoreInv, QueueTypes
<1>6. QueueTypes'
  BY <1>1, <1>2, <1>4, <1>5 DEF StoreInv, QueueTypes
<1>7. reserved' \notin dirs \cup answered \cup dropped
  BY <1>1 DEF StoreInv, QueueTypes
<1>8. \A q \in Procs \ {p} : (Enqueueing(q)' <=> Enqueueing(q)) /\ (Unsaved(q)' <=> Unsaved(q))
  BY <1>3 DEF Enqueueing, Unsaved, Inside
<1>9. \A q \in Procs \ {p} : Enqueueing(q) => job[q].dir \in dirs /\ job[q].dir # reserved'
  BY <1>7 DEF StoreInv, JobInv
<1>10. \A b : Conflict(b, file)' <=> Conflict(b, file)
  BY <1>2 DEF Conflict, Active, Orphan
<1>11. JobInv'
  <2>1. ASSUME NEW q \in Procs
        PROVE  /\ job'[q].saved => pc'[q] \in {"verify", "unlock"}
               /\ pc'[q] = "write" => seen'[q] = file /\ ~Conflict(job'[q].branch, file)
               /\ pc'[q] = "unlock" /\ ~job'[q].failed => Holds(file, job'[q].dir)
    BY <1>2, <1>3, <1>4 DEF StoreInv, JobInv
  <2>2. ASSUME NEW q \in Procs, Enqueueing(q)'
        PROVE  /\ job'[q].dir \in dirs'
               /\ \A r \in Procs : Enqueueing(r)' /\ q # r => job'[q].dir # job'[r].dir
    BY <1>2, <1>3, <1>4, <1>8, <1>9, <2>2 DEF StoreInv, JobInv
  <2>3. ASSUME NEW q \in Procs, Unsaved(q)'
        PROVE  /\ job'[q].dir \notin answered' \cup dropped'
               /\ ~Holds(file', job'[q].dir) /\ \A r \in Procs : ~Holds(seen'[r], job'[q].dir)
    BY <1>2, <1>3, <1>4, <1>5, <1>7, <1>8, <2>3 DEF StoreInv, JobInv
  <2>4. QED
    BY <1>2, <1>10, <2>1, <2>2, <2>3 DEF JobInv, Holds
<1>12. \A q \in Procs : ~Editing(q)
  BY <1>2, EditorIsAlone DEF Editing
<1>13. EditInv'
  <2>1. \A q \in Procs : (ListIsOpen(q)' <=> ListIsOpen(q)) /\ ~Editing(q)' /\ pc'[q] # "fill"
    BY <1>2, <1>3, <1>12 DEF ListIsOpen, Editing
  <2>2. \A q \in Procs : pc'[q] \in {"select", "change"} => pc'[q] = pc[q]
    BY <1>3
  <2>3. opened' = {q \in Procs : pc'[q] = "fill"} /\ (torn' <=> opened' # {})
    BY <1>2, <1>12, <2>1 DEF StoreInv, EditInv, Editing
  <2>4. \A q \in Procs : (pc[q] \in {"select", "change"} => StillThere(seen[q], file))'
    BY <1>2, <2>2 DEF StoreInv, EditInv, StillThere
  <2>5. \A q \in Procs : pc'[q] = "change" => EditOf(q)'
    BY <1>2, <2>2 DEF StoreInv, EditInv, EditOf
  <2>6. \A q, r \in Procs : q # r => ~(ListIsOpen(q)' /\ ListIsOpen(r)')
    BY <2>1 DEF StoreInv, EditInv
  <2>7. QED
    BY <2>1, <2>3, <2>4, <2>5, <2>6 DEF EditInv, Editing
<1>14. TaskHasDir'
  BY <1>2 DEF StoreInv, TaskHasDir
<1>15. QED
  BY <1>6, <1>11, <1>13, <1>14 DEF StoreInv

\* A directory some process has read, or could read.
Known(d) == Holds(file, d) \/ \E q \in Procs : Holds(seen[q], d)

\* A step of the task list: no task becomes known that was not, and none that was unknown is
\* chosen for deletion.
LEMMA ListKeepsJobs ==
  ASSUME StoreInv, NEW p \in Procs, NEW where, pc' = [pc EXCEPT ![p] = where],
         pc[p] \in {"idle", "select", "change", "edit", "fill"},
         where \in {"idle", "select", "change", "edit", "fill"},
         takt' = takt, dirs' = dirs, answered' = answered,
         ~job'[p].saved, \A q \in Procs \ {p} : job'[q] = job[q] /\ seen'[q] = seen[q],
         \A q \in Procs : Inside(q) => file' = file,
         \A d : Holds(file', d) => Known(d),
         \A d : Holds(seen'[p], d) => Known(d),
         \A d \in dropped' \ dropped : Known(d)
  PROVE  JobInv'
<1>1. pc'[p] = where /\ \A q \in Procs \ {p} : pc'[q] = pc[q]
  BY DEF StoreInv, LockInv, LockTypes
<1>2. \A q \in Procs : (Enqueueing(q)' <=> Enqueueing(q)) /\ (Enqueueing(q) => q # p)
  BY <1>1 DEF Enqueueing, Inside
<1>3. \A q \in Procs : (Unsaved(q)' <=> Unsaved(q)) /\ (Unsaved(q) => ~Known(job[q].dir) /\ q # p)
  BY <1>2 DEF Unsaved, StoreInv, JobInv, Known
<1>4. \A b : Conflict(b, file)' <=> Conflict(b, file')
  BY DEF Conflict, Active, Orphan
<1>5. \A b : file' = file => (Conflict(b, file)' <=> Conflict(b, file))
  BY DEF Conflict, Active, Orphan
<1>6. ASSUME NEW q \in Procs
      PROVE  /\ job'[q].saved => pc'[q] \in {"verify", "unlock"}
             /\ pc'[q] = "write" => seen'[q] = file' /\ file' = file /\ ~Conflict(job'[q].branch, file)
             /\ pc'[q] = "unlock" /\ ~job'[q].failed => Holds(file', job'[q].dir)
  BY <1>1 DEF StoreInv, JobInv, Inside
<1>7. ASSUME NEW q \in Procs, Enqueueing(q)'
      PROVE  /\ job'[q].dir \in dirs'
             /\ \A r \in Procs : Enqueueing(r)' /\ q # r => job'[q].dir # job'[r].dir
  BY <1>2, <1>7 DEF StoreInv, JobInv
<1>8. \A q \in Procs : \A d : Holds(seen'[q], d) => Known(d)
  BY DEF Known
<1>9. ASSUME NEW q \in Procs, Unsaved(q)'
      PROVE  /\ job'[q].dir \notin answered' \cup dropped'
             /\ ~Holds(file', job'[q].dir) /\ \A r \in Procs : ~Holds(seen'[r], job'[q].dir)
  BY <1>3, <1>8, <1>9 DEF StoreInv, JobInv
<1>10. QED
  BY <1>5, <1>6, <1>7, <1>9 DEF JobInv, Holds

LEMMA OpenKeepsStore ==
  ASSUME StoreInv, LockInv', EditsAreAlone, EditsInTurn, NEW p \in Procs, OpenTasks(p)
  PROVE  StoreInv'
<1>1. /\ seen' = [seen EXCEPT ![p] = file] /\ edits' = edits + 1 /\ edits < MaxEdits
      /\ UNCHANGED <<takt, edit, job, answered, dropped, file, torn, opened, dirs, reserved>>
      /\ pc[p] = "idle" /\ pc' = [pc EXCEPT ![p] = "select"]
  BY DEF OpenTasks, Go, history, yaml
<1>2. seen'[p] = file /\ \A q \in Procs \ {p} : seen'[q] = seen[q]
  BY <1>1 DEF StoreInv, QueueTypes
<1>3. pc'[p] = "select" /\ \A q \in Procs \ {p} : pc'[q] = pc[q]
  BY <1>1 DEF StoreInv, LockInv, LockTypes
<1>4. QueueTypes'
  <2>1. edits' \in 0..MaxEdits
    BY <1>1, TaskQueueAssumption DEF StoreInv, QueueTypes
  <2>2. QED
    BY <1>1, <2>1 DEF StoreInv, QueueTypes
<1>5. ~job[p].saved
  BY <1>1 DEF StoreInv, JobInv
<1>6. JobInv'
  BY <1>1, <1>2, <1>5, ListKeepsJobs DEF Known
<1>7. \A q \in Procs : ~Editing(q)
  BY <1>1, EditorIsAlone DEF Editing
<1>8. \A q \in Procs : ~ListIsOpen(q) /\ (ListIsOpen(q)' => q = p)
  BY <1>1, <1>3 DEF EditsInTurn, ListIsOpen
<1>9. EditInv'
  <2>1. \A q \in Procs : pc'[q] \notin {"change", "edit", "fill"}
    BY <1>3, <1>8 DEF ListIsOpen
  <2>2. opened' = {q \in Procs : pc'[q] = "fill"} /\ (torn' <=> opened' # {})
    BY <1>1, <1>7, <2>1 DEF StoreInv, EditInv, Editing
  <2>3. StillThere(file, file)
    BY DEF StillThere
  <2>4. \A q \in Procs : (pc[q] \in {"select", "change"} => StillThere(seen[q], file))'
    BY <1>1, <1>2, <1>3, <1>8, <2>3 DEF StillThere, ListIsOpen
  <2>5. QED
    BY <1>8, <2>1, <2>2, <2>4 DEF EditInv, Editing
<1>10. TaskHasDir'
  BY <1>1 DEF StoreInv, TaskHasDir
<1>11. QED
  BY <1>4, <1>6, <1>9, <1>10 DEF StoreInv

\* The user chooses a task that was in the file when its list was read.
LEMMA ChooseKeepsStore ==
  ASSUME StoreInv, LockInv', EditsAreAlone, PicksAreExact, NEW p \in Procs,
         NEW i, NEW reset \in BOOLEAN, Choose(p, i, reset)
  PROVE  StoreInv'
<1> DEFINE change == [name |-> Target(p, i), reset |-> reset]
<1>1. /\ edit' = [edit EXCEPT ![p] = change] /\ i \in DOMAIN seen[p]
      /\ dropped' = IF reset THEN dropped ELSE dropped \cup {seen[p][i].dir}
      /\ UNCHANGED <<takt, seen, edits, job, answered, file, torn, opened, dirs, reserved>>
      /\ pc[p] = "select" /\ pc' = [pc EXCEPT ![p] = "change"]
  BY DEF Choose, Go, yaml
<1>2. edit'[p] = change /\ \A q \in Procs \ {p} : edit'[q] = edit[q]
  BY <1>1 DEF StoreInv, QueueTypes
<1> HIDE DEF change
<1>3. pc'[p] = "change" /\ \A q \in Procs \ {p} : pc'[q] = pc[q]
  BY <1>1 DEF StoreInv, LockInv, LockTypes
<1>4. PICK k \in DOMAIN seen[p] : seen[p][k].name = change.name /\ (change.reset \/ seen[p][k].dir \in dropped')
  BY <1>1, <1>2, <1>3 DEF PicksAreExact
<1>5. change \in Edits
  <2>1. seen[p][k] \in Records
    BY <1>4 DEF StoreInv, QueueTypes, Numbered
  <2>2. change.name \in Names
    BY <1>4, <2>1 DEF Records
  <2>3. QED
    BY <2>2 DEF change, Edits
<1>6. \A d \in dropped' \ dropped : Holds(seen[p], d)
  BY <1>1 DEF Holds
<1>7. QueueTypes'
  <2>1. dropped' \subseteq 1..reserved
    BY <1>6 DEF StoreInv, QueueTypes, Holds, Numbered
  <2>2. QED
    BY <1>1, <1>5, <2>1 DEF StoreInv, QueueTypes
<1>8. ~job[p].saved
  BY <1>1 DEF StoreInv, JobInv
<1>9. JobInv'
  BY <1>1, <1>6, <1>8, ListKeepsJobs DEF Known
<1>10. \A q \in Procs : ~Editing(q)
  BY <1>1, EditorIsAlone DEF Editing
<1>11. EditInv'
  <2>1. \A q \in Procs : (ListIsOpen(q)' <=> ListIsOpen(q)) /\ (ListIsOpen(q) => q = p)
    BY <1>1, <1>3 DEF StoreInv, EditInv, ListIsOpen
  <2>2. \A q \in Procs : pc'[q] \notin {"edit", "fill"}
    BY <1>3, <1>10 DEF Editing
  <2>3. opened' = {q \in Procs : pc'[q] = "fill"} /\ (torn' <=> opened' # {})
    BY <1>1, <1>10, <2>2 DEF StoreInv, EditInv, Editing
  <2>4. StillThere(seen[p], file)
    BY <1>1 DEF StoreInv, EditInv
  <2>5. \A q \in Procs : (pc[q] \in {"select", "change"} => StillThere(seen[q], file))'
    BY <1>1, <1>3, <2>1, <2>4 DEF StillThere, ListIsOpen
  <2>6. EditOf(p)'
    BY <1>1, <1>2, <1>4 DEF EditOf
  <2>7. QED
    BY <2>1, <2>2, <2>3, <2>5, <2>6 DEF EditInv, Editing, ListIsOpen
<1>12. TaskHasDir'
  BY <1>1 DEF StoreInv, TaskHasDir
<1>13. QED
  BY <1>7, <1>9, <1>11, <1>12 DEF StoreInv

\* The task is still there when the file is read again, and the reading is up to date.
LEMMA ReadTasksKeepsStore ==
  ASSUME StoreInv, LockInv', EditsAreAlone, NEW p \in Procs, ReadTasks(p), pc'[p] = "edit"
  PROVE  StoreInv'
<1>1. pc[p] = "change" /\ pc' = [pc EXCEPT ![p] = "edit"] /\ seen' = [seen EXCEPT ![p] = file]
  <2>1. pc' # [pc EXCEPT ![p] = "idle"]
    BY OfProcess
  <2>2. QED
    BY <2>1 DEF ReadTasks, Return, Go
<1>2. UNCHANGED <<takt, edit, edits, job, answered, dropped, file, torn, opened, dirs, reserved>>
  <2>1. pc' # [pc EXCEPT ![p] = "idle"]
    BY OfProcess
  <2>2. QED
    BY <2>1 DEF ReadTasks, Return, Go, yaml, history
<1>3. seen'[p] = file /\ \A q \in Procs \ {p} : seen'[q] = seen[q]
  BY <1>1 DEF StoreInv, QueueTypes
<1>4. pc'[p] = "edit" /\ \A q \in Procs \ {p} : pc'[q] = pc[q]
  BY <1>1 DEF StoreInv, LockInv, LockTypes
<1>5. QueueTypes'
  BY <1>1, <1>2 DEF StoreInv, QueueTypes
<1>6. ~job[p].saved
  BY <1>1 DEF StoreInv, JobInv
<1>7. JobInv'
  BY <1>1, <1>2, <1>3, <1>6, ListKeepsJobs DEF Known
<1>8. \A q \in Procs : ~Editing(q) /\ ~Inside(q)
  BY <1>1, <1>4, EditorIsAlone DEF Editing, EditsAreAlone
<1>9. EditInv'
  <2>1. \A q \in Procs : (ListIsOpen(q)' <=> ListIsOpen(q)) /\ (ListIsOpen(q) => q = p)
    BY <1>1, <1>4 DEF StoreInv, EditInv, ListIsOpen
  <2>2. \A q \in Procs : pc'[q] # "fill" /\ (Editing(q)' => q = p) /\ ~Inside(q)'
    BY <1>4, <1>8 DEF Editing, Inside
  <2>3. opened' = {q \in Procs : pc'[q] = "fill"} /\ (torn' <=> opened' # {})
    BY <1>2, <1>8, <2>2 DEF StoreInv, EditInv, Editing
  <2>4. \A q \in Procs : pc'[q] \notin {"select", "change"}
    BY <1>4, <2>1 DEF ListIsOpen
  <2>5. EditOf(p)'
    <3>1. PICK i \in DOMAIN seen[p] : /\ seen[p][i].name = edit[p].name
                                      /\ edit[p].reset \/ seen[p][i].dir \in dropped
      BY <1>1 DEF StoreInv, EditInv, EditOf
    <3>2. i \in DOMAIN file /\ file[i].name = seen[p][i].name /\ file[i].dir = seen[p][i].dir
      BY <1>1 DEF StoreInv, EditInv, StillThere
    <3>3. QED
      BY <1>2, <1>3, <3>1, <3>2 DEF EditOf
  <2>6. \A i \in DOMAIN seen'[p] : seen'[p][i].dir \in dirs'
    BY <1>2, <1>3 DEF StoreInv, TaskHasDir
  <2>7. \A q \in Procs : pc'[q] = "edit" => q = p
    BY <2>2 DEF Editing
  <2>8. (\A q \in Procs : pc[q] = "edit" => seen[q] = file)'
    BY <1>2, <1>3, <2>7
  <2>9. (\A q \in Procs : Editing(q) => \A i \in DOMAIN seen[q] : seen[q][i].dir \in dirs)'
    BY <2>2, <2>6
  <2>10. (\A q \in Procs : pc[q] = "change" \/ Editing(q) => EditOf(q))'
    BY <2>2, <2>4, <2>5
  <2>11. QED
    BY <2>1, <2>2, <2>3, <2>4, <2>8, <2>9, <2>10 DEF EditInv
<1>10. TaskHasDir'
  BY <1>2 DEF StoreInv, TaskHasDir
<1>11. QED
  BY <1>5, <1>7, <1>9, <1>10 DEF StoreInv

\* The file is empty between truncation and writing, and no other process is near it.
LEMMA TruncateKeepsStore ==
  ASSUME StoreInv, LockInv', EditsAreAlone, NEW p \in Procs, Truncate(p)
  PROVE  StoreInv'
<1>1. /\ pc[p] = "edit" /\ pc' = [pc EXCEPT ![p] = "fill"]
      /\ file' = <<>> /\ torn' = TRUE /\ opened' = opened \cup {p}
      /\ UNCHANGED <<takt, seen, edit, edits, job, answered, dropped, dirs, reserved>>
  BY DEF Truncate, Go, history
<1>2. pc'[p] = "fill" /\ \A q \in Procs \ {p} : pc'[q] = pc[q]
  BY <1>1 DEF StoreInv, LockInv, LockTypes
<1>3. QueueTypes'
  BY <1>1, NothingIsNumbered DEF StoreInv, QueueTypes
<1>4. ~job[p].saved
  BY <1>1 DEF StoreInv, JobInv
<1>5. \A q \in Procs : ~Inside(q) /\ ~Inside(q)'
  BY <1>1, <1>2 DEF StoreInv, EditInv, Editing, Inside
<1>6. \A d : ~Holds(file', d)
  BY <1>1 DEF Holds
<1>7. JobInv'
  BY <1>1, <1>4, <1>5, <1>6, ListKeepsJobs DEF Known
<1>8. \A q \in Procs : (ListIsOpen(q)' <=> ListIsOpen(q)) /\ (ListIsOpen(q) => q = p)
  BY <1>1, <1>2 DEF StoreInv, EditInv, ListIsOpen
<1>9. EditInv'
  <2>1. \A q \in Procs : pc'[q] \notin {"select", "change", "edit"} /\ (pc'[q] = "fill" <=> q = p)
    BY <1>2, <1>8 DEF ListIsOpen
  <2>2. opened = {}
    BY <1>1, <1>8 DEF StoreInv, EditInv, ListIsOpen
  <2>3. opened' = {q \in Procs : pc'[q] = "fill"} /\ (torn' <=> opened' # {})
    BY <1>1, <2>1, <2>2
  <2>4. EditOf(p)' /\ \A i \in DOMAIN seen'[p] : seen'[p][i].dir \in dirs'
    BY <1>1 DEF StoreInv, EditInv, EditOf, Editing
  <2>5. QED
    BY <1>1, <1>5, <1>8, <2>1, <2>3, <2>4 DEF EditInv, Editing
<1>10. TaskHasDir'
  BY <1>1 DEF TaskHasDir
<1>11. QED
  BY <1>3, <1>7, <1>9, <1>10 DEF StoreInv

\* The list an edit writes has no task it did not read.
LEMMA EditedKeepsOthers ==
  ASSUME StoreInv, NEW p \in Procs, pc[p] = "change" \/ Editing(p)
  PROVE  /\ Numbered(Edited(seen[p], edit[p]), reserved)
         /\ \A d : Holds(Edited(seen[p], edit[p]), d) => Holds(seen[p], d)
         /\ \E i \in DOMAIN seen[p] :
              IF edit[p].reset
                THEN ToSet(Edited(seen[p], edit[p])) =
                       (ToSet(seen[p]) \ {seen[p][i]}) \cup {Renewed(seen[p][i])}
                ELSE /\ seen[p][i].dir \in dropped
                     /\ ToSet(Edited(seen[p], edit[p])) = ToSet(seen[p]) \ {seen[p][i]}
<1>1. PICK tasks, change : tasks = seen[p] /\ change = edit[p]
  OBVIOUS
<1>2. Numbered(tasks, reserved)
  BY <1>1 DEF StoreInv, QueueTypes
<1>3. PICK i \in DOMAIN tasks : /\ tasks[i].name = change.name
                                /\ change.reset \/ tasks[i].dir \in dropped
  BY <1>1 DEF StoreInv, EditInv, EditOf
<1>4. CASE change.reset
  <2>1. /\ Numbered(Edited(tasks, change), reserved)
        /\ ToSet(Edited(tasks, change)) = (ToSet(tasks) \ {tasks[i]}) \cup {Renewed(tasks[i])}
        /\ \A d : Holds(Edited(tasks, change), d) => Holds(tasks, d)
    BY <1>2, <1>3, <1>4, ResetKeepsOthers
  <2>2. QED
    BY <1>1, <1>4, <2>1
<1>5. CASE ~change.reset
  <2>1. /\ Numbered(Edited(tasks, change), reserved)
        /\ ToSet(Edited(tasks, change)) = ToSet(tasks) \ {tasks[i]}
        /\ \A d : Holds(Edited(tasks, change), d) => Holds(tasks, d)
    BY <1>2, <1>3, <1>5, DeleteKeepsOthers
  <2>2. QED
    BY <1>1, <1>3, <1>5, <2>1
<1>6. QED
  BY <1>4, <1>5

LEMMA FillKeepsStore ==
  ASSUME StoreInv, LockInv', EditsAreAlone, NEW p \in Procs, Fill(p)
  PROVE  StoreInv'
<1>1. /\ pc[p] = "fill" /\ p \in opened
      /\ pc' = [pc EXCEPT ![p] = "idle"] /\ job' = [job EXCEPT ![p] = NoJob]
      /\ seen' = [seen EXCEPT ![p] = <<>>] /\ edit' = [edit EXCEPT ![p] = NoEdit]
      /\ file' = Edited(seen[p], edit[p]) /\ torn' = FALSE /\ opened' = opened \ {p}
      /\ UNCHANGED <<takt, edits, answered, dropped, dirs, reserved>>
  BY DEF Fill, Return, Go, history, StoreInv, EditInv
<1>2. pc'[p] = "idle" /\ \A q \in Procs \ {p} : pc'[q] = pc[q]
  BY <1>1 DEF StoreInv, LockInv, LockTypes
<1>3. /\ seen'[p] = <<>> /\ job'[p] = NoJob
      /\ \A q \in Procs \ {p} : seen'[q] = seen[q] /\ job'[q] = job[q] /\ edit'[q] = edit[q]
  BY <1>1 DEF StoreInv, QueueTypes
<1>4. Numbered(file', reserved) /\ \A d : Holds(file', d) => Holds(seen[p], d)
  BY <1>1, EditedKeepsOthers DEF Editing
<1>5. QueueTypes'
  BY <1>1, <1>4, NothingIsNumbered, NothingIsTyped DEF StoreInv, QueueTypes
<1>6. \A q \in Procs : ~Inside(q) /\ ~Inside(q)'
  BY <1>1, <1>2 DEF StoreInv, EditInv, Editing, Inside
<1>7. JobInv'
  <2>1. ~job'[p].saved
    BY <1>3 DEF NoJob
  <2>2. \A d : ~Holds(seen'[p], d)
    BY <1>3 DEF Holds
  <2>3. \A d : Holds(file', d) => Known(d)
    BY <1>4 DEF Known
  <2>4. QED
    BY <1>1, <1>3, <1>6, <2>1, <2>2, <2>3, ListKeepsJobs
<1>8. \A q \in Procs : ~ListIsOpen(q)'
  BY <1>1, <1>2 DEF StoreInv, EditInv, ListIsOpen
<1>9. EditInv'
  <2>1. \A q \in Procs : pc'[q] \notin {"select", "change", "edit", "fill"}
    BY <1>8 DEF ListIsOpen
  <2>2. opened' = {}
    BY <1>1 DEF StoreInv, EditInv, ListIsOpen
  <2>3. QED
    BY <1>1, <1>8, <2>1, <2>2 DEF EditInv, Editing
<1>10. TaskHasDir'
  <2>1. \A d : Holds(file', d) => d \in dirs
    BY <1>1, <1>4 DEF StoreInv, EditInv, Editing, Holds
  <2>2. QED
    BY <1>1, <2>1 DEF TaskHasDir, Holds
<1>11. QED
  BY <1>5, <1>7, <1>9, <1>10 DEF StoreInv

-----------------------------------------------------------------------------
(* The step that adds a task                                               *)

\* What a process inside the lock is about to write: a record with a name, a directory and,
\* if it asks for one, a branch of its own.
LEMMA NewRecordIsNew ==
  ASSUME StoreInv, NEW p \in Procs, pc[p] = "write"
  PROVE  /\ seen[p] = file /\ NewRecord(p) \in Records
         /\ NewRecord(p).dir = job[p].dir /\ NewRecord(p).dir \in dirs
         /\ NewRecord(p).status = "pending" /\ NewRecord(p).branch = job[p].branch
         /\ NewRecord(p).dir \notin answered \cup dropped
         /\ \A i \in DOMAIN file : file[i].dir # NewRecord(p).dir /\ file[i].name # NewRecord(p).name
<1>1. Unsaved(p)
  BY DEF StoreInv, JobInv, Unsaved, Enqueueing, Inside
<1>2. seen[p] = file /\ job[p].dir \in dirs /\ ~Holds(file, job[p].dir)
      /\ job[p].dir \notin answered \cup dropped
  BY <1>1 DEF StoreInv, JobInv, Unsaved
<1>3. Numbered(file, reserved) /\ file \in Seq(Records) /\ reserved \in Nat
      /\ job[p].dir \in 1..reserved /\ reserved \in 0..MaxTasks
  BY <1>2, TaskQueueAssumption DEF StoreInv, QueueTypes, Numbered
<1>4. Len(file) \in Nat /\ Len(file) < reserved
  BY <1>2, <1>3, NumberedIsShorter
<1>5. job[p] \in Jobs
  BY OfProcess
<1>6. job[p].slug \in Slugs /\ job[p].branch \in Branches \cup {NoBranch}
  BY <1>5 DEF Jobs
<1>7. PICK name : name = UniqueName(job[p].slug, file)
  OBVIOUS
<1>8. /\ \E n \in 1..(Len(file) + 1) : name = <<job[p].slug, n>>
      /\ \A i \in DOMAIN file : file[i].name # name
  BY <1>3, <1>7, UniqueNameIsNew, Zenon
<1>9. name \in Names
  <2>1. \A n \in 1..(Len(file) + 1) : n \in 1..MaxTasks
    BY <1>3, <1>4, TaskQueueAssumption
  <2>2. QED
    BY <1>6, <1>8, <2>1 DEF Names
<1>10. NewRecord(p) = [name |-> name, dir |-> job[p].dir, branch |-> job[p].branch,
                       status |-> "pending", owner |-> 0]
  BY <1>2, <1>7 DEF NewRecord
<1>11. job[p].dir \in 1..MaxTasks /\ 0 \in 0..MaxTakts
  BY <1>3, TaskQueueAssumption
<1>12. NewRecord(p) \in Records
  BY <1>6, <1>9, <1>10, <1>11 DEF Records
<1>13. QED
  BY <1>2, <1>8, <1>10, <1>12 DEF Holds

LEMMA StillThereAfter ==
  ASSUME NEW tasks, NEW more, NEW evenMore, StillThere(tasks, more), StillThere(more, evenMore)
  PROVE  StillThere(tasks, evenMore)
  BY DEF StillThere

LEMMA WriteAppends ==
  ASSUME StoreInv, NEW p \in Procs, Write(p)
  PROVE  /\ Numbered(file', reserved)
         /\ ToSet(file') = ToSet(file) \cup {NewRecord(p)}
         /\ StillThere(file, file')
         /\ \A d : Holds(file', d) <=> Holds(file, d) \/ d = job[p].dir
<1>1. PICK tasks, r : tasks = file /\ r = NewRecord(p)
  OBVIOUS
<1>2. pc[p] = "write" /\ file' = Append(seen[p], r)
  BY <1>1 DEF Write
<1>3. /\ file' = Append(tasks, r) /\ r \in Records /\ r.dir = job[p].dir /\ r.dir \in 1..reserved
      /\ \A i \in DOMAIN tasks : tasks[i].dir # r.dir /\ tasks[i].name # r.name
  BY <1>1, <1>2, NewRecordIsNew DEF StoreInv, QueueTypes
<1>4. Numbered(tasks, reserved) /\ reserved \in Nat
  BY <1>1, TaskQueueAssumption DEF StoreInv, QueueTypes
<1>5. /\ Numbered(Append(tasks, r), reserved)
      /\ ToSet(Append(tasks, r)) = ToSet(tasks) \cup {r}
      /\ StillThere(tasks, Append(tasks, r))
      /\ \A d : Holds(Append(tasks, r), d) <=> Holds(tasks, d) \/ d = r.dir
  BY <1>3, <1>4, OneMoreIsNumbered
<1>6. QED
  BY <1>1, <1>3, <1>5

LEMMA WriteKeepsStore ==
  ASSUME StoreInv, LockInv', EditsAreAlone, NEW p \in Procs, Write(p)
  PROVE  StoreInv'
<1>1. /\ pc[p] = "write" /\ pc' = [pc EXCEPT ![p] = "verify"]
      /\ torn' = FALSE /\ opened' = {}
      /\ job' = [job EXCEPT ![p].saved = TRUE]
      /\ UNCHANGED <<takt, edit, edits, seen, answered, dropped, dirs, reserved>>
  BY DEF Write, Go, history
<1>2. pc'[p] = "verify" /\ \A q \in Procs \ {p} : pc'[q] = pc[q]
  BY <1>1 DEF StoreInv, LockInv, LockTypes
<1>3. /\ job' = [job EXCEPT ![p] = [job[p] EXCEPT !.saved = TRUE]] /\ job[p] \in Jobs
      /\ job'[p] = [job[p] EXCEPT !.saved = TRUE]
  BY <1>1, OfProcess
<1>4. /\ [job[p] EXCEPT !.saved = TRUE] \in Jobs
      /\ job'[p].dir = job[p].dir /\ job'[p].saved
  BY <1>3 DEF Jobs
<1>5. \A q \in Procs \ {p} : job'[q] = job[q]
  BY <1>3 DEF StoreInv, QueueTypes
<1>6. /\ Numbered(file', reserved) /\ StillThere(file, file')
      /\ \A d : Holds(file', d) <=> Holds(file, d) \/ d = job[p].dir
  BY WriteAppends
<1>7. QueueTypes'
  BY <1>1, <1>3, <1>4, <1>6 DEF StoreInv, QueueTypes
<1>8. \A q \in Procs \ {p} : ~Inside(q)
  BY <1>1 DEF StoreInv, LockInv, InsideOwnsLock, Inside
<1>9. \A q \in Procs : ~Editing(q)
  BY <1>1, EditorIsAlone DEF Editing
<1>10. JobInv'
  <2>1. \A q \in Procs : /\ Enqueueing(q)' <=> Enqueueing(q)
                         /\ job'[q].dir = job[q].dir
                         /\ Unsaved(q)' => Unsaved(q) /\ q # p
    BY <1>1, <1>2, <1>4, <1>5 DEF Enqueueing, Unsaved, Inside
  <2>2. Enqueueing(p)
    BY <1>1 DEF Enqueueing, Inside
  <2>3. \A q \in Procs : /\ job'[q].saved => pc'[q] \in {"verify", "unlock"}
                         /\ pc'[q] \notin {"write", "unlock"}
    BY <1>2, <1>5, <1>8 DEF StoreInv, JobInv, Inside
  <2>4. ASSUME NEW q \in Procs, Enqueueing(q)'
        PROVE  /\ job'[q].dir \in dirs'
               /\ \A r \in Procs : Enqueueing(r)' /\ q # r => job'[q].dir # job'[r].dir
    BY <1>1, <2>1, <2>4 DEF StoreInv, JobInv
  <2>5. ASSUME NEW q \in Procs, Unsaved(q)'
        PROVE  /\ job'[q].dir \notin answered' \cup dropped'
               /\ ~Holds(file', job'[q].dir) /\ \A r \in Procs : ~Holds(seen'[r], job'[q].dir)
    <3>1. Unsaved(q) /\ q # p /\ job'[q].dir = job[q].dir /\ job[q].dir # job[p].dir
      BY <2>1, <2>2, <2>5 DEF StoreInv, JobInv, Unsaved
    <3>2. QED
      BY <1>1, <1>6, <3>1 DEF StoreInv, JobInv
  <2>6. QED
    BY <2>3, <2>4, <2>5 DEF JobInv, Holds
<1>11. EditInv'
  <2>1. \A q \in Procs : ListIsOpen(q)' => ListIsOpen(q) /\ pc'[q] = pc[q]
    BY <1>1, <1>2 DEF ListIsOpen
  <2>2. \A q \in Procs : pc'[q] \notin {"edit", "fill"}
    BY <1>2, <1>9 DEF Editing
  <2>3. opened' = {q \in Procs : pc'[q] = "fill"} /\ (torn' <=> opened' # {})
    BY <1>1, <2>2
  <2>4. \A q \in Procs : pc'[q] \in {"select", "change"} => pc'[q] = pc[q]
    BY <1>1, <1>2
  <2>5. \A q \in Procs : pc'[q] \in {"select", "change"} => StillThere(seen[q], file')
    <3>1. \A q \in Procs : pc'[q] \in {"select", "change"} => StillThere(seen[q], file)
      BY <2>4 DEF StoreInv, EditInv
    <3>2. QED
      BY <1>6, <3>1, StillThereAfter
  <2>6. (\A q \in Procs : pc[q] \in {"select", "change"} => StillThere(seen[q], file))'
    BY <1>1, <2>5 DEF StillThere
  <2>7. (\A q \in Procs : pc[q] = "change" => EditOf(q))'
    BY <1>1, <2>4 DEF StoreInv, EditInv, EditOf
  <2>8. \A q, r \in Procs : q # r => ~(ListIsOpen(q)' /\ ListIsOpen(r)')
    BY <2>1 DEF StoreInv, EditInv
  <2>9. QED
    BY <2>2, <2>3, <2>6, <2>7, <2>8 DEF EditInv, Editing
<1>12. TaskHasDir'
  <2>1. \A d : Holds(file, d) => d \in dirs
    BY DEF StoreInv, TaskHasDir, Holds
  <2>2. job[p].dir \in dirs
    BY <1>1 DEF StoreInv, JobInv, Enqueueing, Inside
  <2>3. \A d : Holds(file', d) => d \in dirs'
    BY <1>1, <1>6, <2>1, <2>2
  <2>4. QED
    BY <2>3 DEF TaskHasDir, Holds
<1>13. QED
  BY <1>7, <1>10, <1>11, <1>12 DEF StoreInv

-----------------------------------------------------------------------------
(* Time, and TAKT                                                          *)

\* Records that change in their places keep their names and directories.
Relabelled(more, tasks) ==
  /\ more \in Seq(Records) /\ DOMAIN more = DOMAIN tasks
  /\ \A i \in DOMAIN tasks : more[i].name = tasks[i].name /\ more[i].dir = tasks[i].dir

\* A step that no process takes.
LEMMA WorldKeepsStore ==
  ASSUME StoreInv, LockInv', EditsAreAlone, pc' = pc, Relabelled(file', file),
         takt' \in [run : 0..MaxTakts, up : BOOLEAN],
         UNCHANGED <<torn, opened, dirs, reserved, job, seen, edit, edits, history>>,
         (\E q \in Procs : Inside(q)) =>
            file' = file /\ \A b : Conflict(b, file)' => Conflict(b, file)
  PROVE  StoreInv'
<1> USE DEF history
<1>1. \A n : Numbered(file, n) => Numbered(file', n)
  BY DEF Numbered, Relabelled
<1>2. \A d : Holds(file', d) <=> Holds(file, d)
  BY DEF Holds, Relabelled
<1>3. QueueTypes'
  BY <1>1 DEF StoreInv, QueueTypes
<1>4. \A q \in Procs : (Enqueueing(q)' <=> Enqueueing(q)) /\ (Unsaved(q)' <=> Unsaved(q))
  BY DEF Enqueueing, Unsaved, Inside
<1>5. JobInv'
  <2>1. ASSUME NEW q \in Procs, pc[q] = "write"
        PROVE  file' = file /\ seen'[q] = file /\ \A b : Conflict(b, file)' => Conflict(b, file)
    BY <2>1 DEF StoreInv, JobInv, Inside
  <2>2. (\A q \in Procs : pc[q] = "write" => seen[q] = file /\ ~Conflict(job[q].branch, file))'
    <3>1. \A q \in Procs : pc[q] = "write" => ~Conflict(job[q].branch, file)
      BY DEF StoreInv, JobInv
    <3>2. QED
      BY <2>1, <3>1
  <2>3. \A q \in Procs : /\ job'[q].saved => pc'[q] \in {"verify", "unlock"}
                         /\ pc'[q] = "unlock" /\ ~job'[q].failed => Holds(file', job'[q].dir)
    BY <1>2 DEF StoreInv, JobInv
  <2>4. ASSUME NEW q \in Procs, Enqueueing(q)'
        PROVE  /\ job'[q].dir \in dirs'
               /\ \A r \in Procs : Enqueueing(r)' /\ q # r => job'[q].dir # job'[r].dir
    BY <1>4, <2>4 DEF StoreInv, JobInv
  <2>5. ASSUME NEW q \in Procs, Unsaved(q)'
        PROVE  /\ job'[q].dir \notin answered' \cup dropped'
               /\ ~Holds(file', job'[q].dir) /\ \A r \in Procs : ~Holds(seen'[r], job'[q].dir)
    BY <1>2, <1>4, <2>5 DEF StoreInv, JobInv
  <2>6. QED
    BY <2>2, <2>3, <2>4, <2>5 DEF JobInv, Holds
<1>6. EditInv'
  <2>1. \A q \in Procs : Editing(q) => file' = file
    BY DEF EditsAreAlone, yaml
  <2>2. \A q \in Procs : /\ Editing(q)' <=> Editing(q)
                         /\ ListIsOpen(q)' <=> ListIsOpen(q)
                         /\ Inside(q)' <=> Inside(q)
                         /\ EditOf(q)' <=> EditOf(q)
    BY DEF Editing, ListIsOpen, Inside, EditOf
  <2>3. \A list : StillThere(list, file) => StillThere(list, file')
    BY DEF StillThere, Relabelled
  <2>4. (\A q \in Procs : pc[q] \in {"select", "change"} => StillThere(seen[q], file))'
    BY <2>3 DEF StoreInv, EditInv, StillThere
  <2>5. (\A q \in Procs : /\ pc[q] = "edit" => seen[q] = file
                          /\ pc[q] = "fill" => file = <<>>)'
    BY <2>1 DEF StoreInv, EditInv, Editing
  <2>6. (\A q \in Procs : Editing(q) => \A i \in DOMAIN seen[q] : seen[q][i].dir \in dirs)'
    BY <2>2 DEF StoreInv, EditInv
  <2>7. QED
    BY <2>2, <2>4, <2>5, <2>6 DEF StoreInv, EditInv
<1>7. TaskHasDir'
  BY DEF StoreInv, TaskHasDir, Relabelled
<1>8. QED
  BY <1>3, <1>5, <1>6, <1>7 DEF StoreInv

LEMMA RecordsStay == StoreInv => Relabelled(file, file)
  BY DEF StoreInv, QueueTypes, Numbered, Relabelled

LEMMA AgeKeepsStore ==
  ASSUME StoreInv, LockInv', EditsAreAlone, Age
  PROVE  StoreInv'
<1>1. /\ file' = file /\ takt' = takt /\ pc' = pc
      /\ UNCHANGED <<torn, opened, dirs, reserved, job, seen, edit, edits, history>>
  BY DEF Age, yaml
<1>2. \A b : Conflict(b, file)' => Conflict(b, file)
  BY <1>1 DEF Conflict, Active, Orphan
<1>3. takt' \in [run : 0..MaxTakts, up : BOOLEAN] /\ Relabelled(file', file)
  BY <1>1, RecordsStay DEF StoreInv, QueueTypes
<1>4. QED
  BY <1>1, <1>2, <1>3, WorldKeepsStore

\* A branch that was free of busy tasks stays free when TAKT goes.
LEMMA TaktGoneKeepsStore ==
  ASSUME StoreInv, LockInv', EditsAreAlone, TaktGone
  PROVE  StoreInv'
<1>1. /\ file' = file /\ takt' = [takt EXCEPT !.up = FALSE] /\ pc' = pc
      /\ UNCHANGED <<torn, opened, dirs, reserved, job, seen, edit, edits, history>>
  BY DEF TaktGone, yaml
<1>2. takt \in [run : 0..MaxTakts, up : BOOLEAN]
  BY DEF StoreInv, QueueTypes
<1>3. takt' \in [run : 0..MaxTakts, up : BOOLEAN] /\ ~takt'.up
  BY <1>1, <1>2
<1>4. \A r : Active(r)' => Active(r)
  BY <1>3 DEF Active, Orphan
<1>5. \A b : Conflict(b, file)' => Conflict(b, file)
  BY <1>1, <1>4 DEF Conflict
<1>6. QED
  BY <1>1, <1>3, <1>5, RecordsStay, WorldKeepsStore

\* With no lock file nobody is inside the lock.
LEMMA NobodyInside == StoreInv /\ lock = NoLock => \A q \in Procs : ~Inside(q)
  BY DEF StoreInv, LockInv, InsideOwnsLock

\* A record TAKT claims or gives up.
Claimed(record, run) ==
  IF record.status = "pending" THEN [record EXCEPT !.status = "running", !.owner = run]
  ELSE [record EXCEPT !.status = "done"]

LEMMA ClaimedIsARecord ==
  ASSUME NEW r \in Records, NEW run \in 0..MaxTakts
  PROVE  Claimed(r, run) \in Records /\ Claimed(r, run).dir = r.dir /\ Claimed(r, run).name = r.name
  BY DEF Claimed, Records

\* While TAKT is not alive every record is pending, orphaned or done.
LEMMA TaktStartsClaims ==
  ASSUME StoreInv, TaktStarts
  PROVE  /\ takt' = [run |-> takt.run + 1, up |-> TRUE] /\ takt'.run \in 0..MaxTakts
         /\ file' = [i \in DOMAIN file |-> Claimed(file[i], takt'.run)]
<1>1. takt \in [run : 0..MaxTakts, up : BOOLEAN] /\ file \in Seq(Records)
  BY DEF StoreInv, QueueTypes, Numbered
<1>2. ~takt.up /\ takt' = [run |-> takt.run + 1, up |-> TRUE] /\ takt.run < MaxTakts
  BY DEF TaktStarts
<1>3. takt'.run \in 0..MaxTakts
  BY <1>1, <1>2, TaskQueueAssumption
<1>4. ASSUME NEW i \in DOMAIN file
      PROVE  (IF Orphan(file[i]) THEN [file[i] EXCEPT !.status = "done"]
              ELSE IF file[i].status = "pending"
                THEN [file[i] EXCEPT !.status = "running", !.owner = takt'.run]
              ELSE file[i]) = Claimed(file[i], takt'.run)
  <2>1. file[i] \in Records
    BY <1>1
  <2>2. file[i].status \in {"pending", "running", "done"}
    BY <2>1 DEF Records
  <2>3. Orphan(file[i]) <=> file[i].status = "running"
    BY <1>2 DEF Orphan
  <2>4. file[i].status = "done" => [file[i] EXCEPT !.status = "done"] = file[i]
    BY <2>1 DEF Records
  <2>5. QED
    BY <2>2, <2>3, <2>4 DEF Claimed
<1>5. QED
  BY <1>2, <1>3, <1>4 DEF TaktStarts

LEMMA TaktStartsKeepsStore ==
  ASSUME StoreInv, LockInv', EditsAreAlone, TaktStarts
  PROVE  StoreInv'
<1>1. /\ takt' = [run |-> takt.run + 1, up |-> TRUE] /\ takt'.run \in 0..MaxTakts
      /\ file' = [i \in DOMAIN file |-> Claimed(file[i], takt'.run)]
  BY TaktStartsClaims
<1>2. /\ pc' = pc /\ lock = NoLock
      /\ UNCHANGED <<torn, opened, dirs, reserved, job, seen, edit, edits, history>>
  BY DEF TaktStarts
<1>3. takt' \in [run : 0..MaxTakts, up : BOOLEAN]
  BY <1>1
<1>4. Relabelled(file', file)
  <2>1. file \in Seq(Records) /\ DOMAIN file = 1..Len(file) /\ Len(file) \in Nat
    BY LenProperties DEF StoreInv, QueueTypes, Numbered
  <2>2. \A i \in DOMAIN file : /\ Claimed(file[i], takt'.run) \in Records
                               /\ Claimed(file[i], takt'.run).dir = file[i].dir
                               /\ Claimed(file[i], takt'.run).name = file[i].name
    BY <1>1, <2>1, ClaimedIsARecord
  <2>3. file' \in [1..Len(file) -> Records]
    BY <1>1, <2>1, <2>2
  <2>4. QED
    BY <1>1, <2>1, <2>2, <2>3 DEF Relabelled
<1>5. ~(\E q \in Procs : Inside(q))
  BY <1>2, NobodyInside
<1>6. QED
  BY <1>2, <1>3, <1>4, <1>5, WorldKeepsStore

LEMMA TaktFinishesKeepsStore ==
  ASSUME StoreInv, LockInv', EditsAreAlone, NEW i \in DOMAIN file, TaktFinishes(i)
  PROVE  StoreInv'
<1>1. /\ file' = [file EXCEPT ![i].status = "done"] /\ pc' = pc /\ lock = NoLock /\ takt' = takt
      /\ UNCHANGED <<torn, opened, dirs, reserved, job, seen, edit, edits, history>>
  BY DEF TaktFinishes
<1>2. file \in Seq(Records) /\ takt' \in [run : 0..MaxTakts, up : BOOLEAN]
  BY <1>1 DEF StoreInv, QueueTypes, Numbered
<1>3. /\ [file[i] EXCEPT !.status = "done"] \in Records
      /\ [file[i] EXCEPT !.status = "done"].name = file[i].name
      /\ [file[i] EXCEPT !.status = "done"].dir = file[i].dir
  <2>1. file[i] \in Records
    BY <1>2
  <2>2. QED
    BY <2>1 DEF Records
<1>4. file' = [file EXCEPT ![i] = [file[i] EXCEPT !.status = "done"]]
  BY <1>1
<1>5. Relabelled(file', file)
  BY <1>2, <1>3, <1>4 DEF Relabelled
<1>6. ~(\E q \in Procs : Inside(q))
  BY <1>1, NobodyInside
<1>7. QED
  BY <1>1, <1>2, <1>5, <1>6, WorldKeepsStore

-----------------------------------------------------------------------------
(* The invariant                                                           *)

LEMMA StoreInit == Init => StoreInv
<1> SUFFICES ASSUME Init PROVE StoreInv
  OBVIOUS
<1>1. LockInv
  BY LockInit
<1>2. \A n : Numbered(<<>>, n)
  BY NothingIsNumbered
<1>3. takt \in [run : 0..MaxTakts, up : BOOLEAN] /\ reserved \in 0..MaxTasks /\ edits \in 0..MaxEdits
  BY TaskQueueAssumption DEF Init
<1>4. QueueTypes
  BY <1>2, <1>3, NothingIsTyped DEF Init, QueueTypes
<1>5. \A p \in Procs : pc[p] = "idle" /\ ~job[p].saved /\ ~Enqueueing(p)
  BY DEF Init, NoJob, Enqueueing, Inside
<1>6. JobInv
  BY <1>5 DEF JobInv, Unsaved
<1>7. EditInv
  BY <1>5 DEF Init, EditInv, ListIsOpen, Editing
<1>8. TaskHasDir
  BY DEF Init, TaskHasDir
<1>9. QED
  BY <1>1, <1>4, <1>6, <1>7, <1>8 DEF StoreInv

LEMMA StutterKeepsStore ==
  ASSUME StoreInv, LockInv', UNCHANGED vars
  PROVE  StoreInv'
<1> USE DEF vars, yaml, history
<1>1. QueueTypes' /\ TaskHasDir'
  BY DEF StoreInv, QueueTypes, TaskHasDir
<1>2. JobInv'
  BY DEF StoreInv, JobInv, Unsaved, Enqueueing, Inside, Holds, Conflict, Active, Orphan
<1>3. EditInv'
  BY DEF StoreInv, EditInv, ListIsOpen, Editing, Inside, StillThere, EditOf
<1>4. QED
  BY <1>1, <1>2, <1>3 DEF StoreInv

\* Every step of an enqueue().
LEMMA EnqueueKeepsStore ==
  ASSUME StoreInv, LockInv', EditsAreAlone, NEW p \in Procs, EnqueueStep(p)
  PROVE  StoreInv'
<1>1. CASE Write(p)
  BY <1>1, WriteKeepsStore
<1>2. CASE ~Write(p)
  <2>1. \E where : Moves(p, where) /\ MovesInEnqueue(p, where)
    <3>1. CASE Acquire(p) \/ WritePid(p) \/ Probe(p) \/ Reap(p) \/ Retry(p)
      BY <3>1, AcquireMoves
    <3>2. CASE TimeOut(p)
      BY <3>2, TimeOutMoves
    <3>3. CASE Read(p)
      BY <3>3, ReadMoves
    <3>4. CASE Verify(p)
      BY <3>4, VerifyMoves
    <3>5. CASE Unlock(p)
      BY <3>5, UnlockMoves
    <3>6. CASE Throw(p)
      BY <3>6, ThrowMoves
    <3>7. QED
      BY <1>2, <3>1, <3>2, <3>3, <3>4, <3>5, <3>6 DEF EnqueueStep
  <2>2. QED
    BY <2>1, MovesKeepStore
<1>3. QED
  BY <1>1, <1>2

\* Every step of the task list.
LEMMA EditKeepsStore ==
  ASSUME StoreInv, LockInv', EditsAreAlone, NEW p \in Procs, EditStep(p)
  PROVE  StoreInv'
<1>1. CASE Truncate(p)
  BY <1>1, TruncateKeepsStore
<1>2. CASE Fill(p)
  BY <1>2, FillKeepsStore
<1>3. CASE ReadTasks(p)
  <2>1. CASE pc'[p] = "edit"
    BY <1>3, <2>1, ReadTasksKeepsStore
  <2>2. CASE pc'[p] # "edit"
    <3>1. Moves(p, "idle") /\ MovesInEnqueue(p, "idle")
      BY <1>3, <2>2, NoTaskMoves
    <3>2. QED
      BY <3>1, MovesKeepStore
  <2>3. QED
    BY <2>1, <2>2
<1>4. QED
  BY <1>1, <1>2, <1>3 DEF EditStep

LEMMA StoreStep ==
  ASSUME StoreInv, [Next /\ Tame]_vars
  PROVE  StoreInv'
<1>1. LockInv'
  BY LockStep DEF StoreInv, Tame
<1>2. CASE UNCHANGED vars
  BY <1>1, <1>2, StutterKeepsStore
<1>3. CASE Next /\ Tame
  <2>1. EditsAreAlone /\ EditsInTurn /\ PicksAreExact
    BY <1>3 DEF Tame
  <2>2. ASSUME NEW p \in Procs, NEW s \in Slugs, NEW b \in Branches \cup {NoBranch},
               Reserve(p, s, b)
        PROVE  StoreInv'
    BY <1>1, <2>1, <2>2, ReserveKeepsStore
  <2>3. ASSUME NEW p \in Procs, EnqueueStep(p)  PROVE StoreInv'
    BY <1>1, <2>1, <2>3, EnqueueKeepsStore
  <2>4. ASSUME NEW p \in Procs, OpenTasks(p)  PROVE StoreInv'
    BY <1>1, <2>1, <2>4, OpenKeepsStore
  <2>5. ASSUME NEW p \in Procs, NEW i \in 1..MaxTasks, NEW reset \in BOOLEAN,
               Choose(p, i, reset)
        PROVE  StoreInv'
    BY <1>1, <2>1, <2>5, ChooseKeepsStore
  <2>6. ASSUME NEW p \in Procs, EditStep(p)  PROVE StoreInv'
    BY <1>1, <2>1, <2>6, EditKeepsStore
  <2>7. ASSUME NEW p \in Procs, Crash(p)  PROVE StoreInv'
    <3>1. Moves(p, "dead") /\ MovesInEnqueue(p, "dead")
      BY <2>1, <2>7, CrashMoves
    <3>2. QED
      BY <1>1, <2>1, <3>1, MovesKeepStore
  <2>8. CASE Age
    BY <1>1, <2>1, <2>8, AgeKeepsStore
  <2>9. CASE Takt
    <3>1. CASE TaktStarts
      BY <1>1, <2>1, <3>1, TaktStartsKeepsStore
    <3>2. CASE TaktGone
      BY <1>1, <2>1, <3>2, TaktGoneKeepsStore
    <3>3. ASSUME NEW i \in DOMAIN file, TaktFinishes(i)  PROVE StoreInv'
      BY <1>1, <2>1, <3>3, TaktFinishesKeepsStore
    <3>4. QED
      BY <2>9, <3>1, <3>2, <3>3 DEF Takt
  <2>10. QED
    BY <1>3, <2>2, <2>3, <2>4, <2>5, <2>6, <2>7, <2>8, <2>9 DEF Next
<1>4. QED
  BY <1>2, <1>3

LEMMA StoreAlways == TameSpec => []StoreInv
<1>1. StoreInv /\ [Next /\ Tame]_vars => StoreInv'
  BY StoreStep
<1>2. QED
  BY StoreInit, <1>1, PTL DEF TameSpec

-----------------------------------------------------------------------------

\* Every variable of the task queue keeps its type, for every number of processes and tasks;
\* in particular no suffix of a task name passes the number of directories ever reserved.
THEOREM TaskTypes == TameSpec => []TypeOK
<1>1. StoreInv => TypeOK
  <2> SUFFICES ASSUME StoreInv PROVE TypeOK
    OBVIOUS
  <2>1. file \in Seq(Records) /\ \A p \in Procs : seen[p] \in Seq(Records)
    BY DEF StoreInv, QueueTypes, Numbered
  <2>2. Len(file) <= MaxTasks
    <3>1. reserved \in Nat /\ reserved \in 0..MaxTasks /\ Numbered(file, reserved)
      BY TaskQueueAssumption DEF StoreInv, QueueTypes
    <3>2. Len(file) \in Nat /\ Len(file) <= reserved
      BY <3>1, NumberedIsShort
    <3>3. QED
      BY <3>1, <3>2, TaskQueueAssumption
  <2>3. opened \subseteq Procs
    BY DEF StoreInv, EditInv
  <2>4. lock \in Locks \cup {NoLock} /\ pc \in [Procs -> Places]
    BY DEF StoreInv, LockInv, LockTypes
  <2>5. QED
    BY <2>1, <2>2, <2>3, <2>4 DEF StoreInv, QueueTypes, TypeOK, Jobs, Edits
<1>2. QED
  BY StoreAlways, <1>1, PTL

\* The directory a record points to is there, whoever crashed or gave up before or after its
\* record was written: enqueue() removes a directory only while no record names it.
THEOREM TaskHasDirTheorem == TameSpec => []TaskHasDir
<1>1. StoreInv => TaskHasDir
  BY DEF StoreInv
<1>2. QED
  BY StoreAlways, <1>1, PTL

-----------------------------------------------------------------------------
(* The file implements the store                                           *)

\* What the store holds, before a step and after it.
LEMMA StoredIs ==
  ASSUME StoreInv
  PROVE  /\ ~torn => Stored = ToSet(file)
         /\ \A p \in Procs : pc[p] = "fill" => Stored = ToSet(Edited(seen[p], edit[p]))
<1>1. ASSUME NEW p \in Procs, pc[p] = "fill"  PROVE torn /\ opened = {p}
  BY <1>1 DEF StoreInv, EditInv, ListIsOpen
<1>2. ASSUME NEW p \in Procs, pc[p] = "fill"  PROVE Stored = ToSet(Edited(seen[p], edit[p]))
  <2>1. (CHOOSE q \in opened : TRUE) = p /\ torn
    BY <1>1, <1>2
  <2>2. QED
    BY <2>1 DEF Stored
<1>3. QED
  BY <1>2 DEF Stored

LEMMA StoredIsNext ==
  ASSUME StoreInv'
  PROVE  /\ ~torn' => Stored' = ToSet(file')
         /\ \A p \in Procs : pc'[p] = "fill" => Stored' = ToSet(Edited(seen'[p], edit'[p]))
<1>1. ASSUME NEW p \in Procs, pc'[p] = "fill"  PROVE torn' /\ opened' = {p}
  BY <1>1 DEF StoreInv, EditInv, ListIsOpen
<1>2. ASSUME NEW p \in Procs, pc'[p] = "fill"  PROVE Stored' = ToSet(Edited(seen'[p], edit'[p]))
  <2>1. (CHOOSE q \in opened' : TRUE) = p /\ torn'
    BY <1>1, <1>2
  <2>2. QED
    BY <2>1 DEF Stored
<1>3. QED
  BY <1>2 DEF Stored

LEMMA NothingIsStored == Init => Store!Init
<1> SUFFICES ASSUME Init PROVE Store!Init
  OBVIOUS
<1>1. Stored = {}
  <2>1. ~torn /\ file = <<>>
    BY DEF Init
  <2>2. Stored = ToSet(file)
    BY <2>1 DEF Stored
  <2>3. QED
    BY <2>1, <2>2 DEF ToSet
<1>2. QED
  BY <1>1 DEF Init, Store!Init

LEMMA WriteEnqueues ==
  ASSUME StoreInv, StoreInv', EditsAreAlone, NEW p \in Procs, Write(p)
  PROVE  Store!Enqueue
<1>1. /\ pc[p] = "write" /\ torn' = FALSE /\ pc' = [pc EXCEPT ![p] = "verify"]
      /\ UNCHANGED <<takt, answered, dropped>>
  BY DEF Write, Go, history
<1>2. ~torn
  <2>1. \A q \in Procs : ~Editing(q)
    BY <1>1, EditorIsAlone DEF Editing
  <2>2. QED
    BY <2>1 DEF StoreInv, EditInv, Editing
<1>3. Stored = ToSet(file) /\ Stored' = ToSet(file')
  BY <1>1, <1>2, StoredIs, StoredIsNext
<1>4. PICK r : r = NewRecord(p)
  OBVIOUS
<1>5. Stored' = Stored \cup {r}
  BY <1>3, <1>4, WriteAppends
<1>6. /\ r.status = "pending" /\ r.dir \notin answered \cup dropped
      /\ \A i \in DOMAIN file : file[i].dir # r.dir /\ file[i].name # r.name
      /\ r.branch = job[p].branch
  BY <1>1, <1>4, NewRecordIsNew
<1>7. \A u \in Stored : u.name # r.name /\ u.dir # r.dir
  BY <1>3, <1>6 DEF ToSet
<1>8. ASSUME r.branch # NoBranch, NEW u \in Stored, Store!Busy(u)
      PROVE  u.branch # r.branch
  <2>1. ~Conflict(r.branch, file)
    BY <1>1, <1>6 DEF StoreInv, JobInv
  <2>2. PICK i \in DOMAIN file : file[i] = u
    BY <1>3 DEF ToSet
  <2>3. Active(u)
    BY <1>8 DEF Store!Busy, Active, Orphan
  <2>4. QED
    BY <1>8, <2>1, <2>2, <2>3 DEF Conflict
<1>9. QED
  BY <1>1, <1>5, <1>6, <1>7, <1>8 DEF Store!Enqueue

\* A step that changes neither the file nor what an edit is about to write shows nothing.
LEMMA SameStored ==
  ASSUME UNCHANGED <<file, torn, opened, seen, edit>>
  PROVE  Stored' = Stored
  BY DEF Stored

\* The store sees an answer, and nothing else of a step that leaves the file alone.
LEMMA MovesAnswer ==
  ASSUME StoreInv, EditsAreAlone, NEW p, NEW where, Moves(p, where)
  PROVE  [Store!Next]_(Store!vars)
<1>1. file' = file /\ torn' = torn /\ takt' = takt /\ dropped' = dropped
  BY DEF Moves, yaml
<1>2. ~torn
  BY MovesAlone
<1>3. Stored' = Stored /\ Stored = ToSet(file)
  BY <1>1, <1>2 DEF Stored
<1>4. CASE answered' = answered
  BY <1>1, <1>3, <1>4 DEF Store!vars
<1>5. CASE answered' = answered \cup {job[p].dir} /\ Holds(file, job[p].dir)
  <2>1. \E t \in Stored : t.dir = job[p].dir
    BY <1>3, <1>5 DEF Holds, ToSet
  <2>2. Store!Answer
    BY <1>1, <1>3, <1>5, <2>1 DEF Store!Answer
  <2>3. QED
    BY <2>2 DEF Store!Next
<1>6. QED
  BY <1>4, <1>5 DEF Moves

LEMMA ListStepsStutter ==
  ASSUME StoreInv, EditsAreAlone, NEW p \in Procs,
         \/ OpenTasks(p)
         \/ ReadTasks(p) /\ pc'[p] = "edit"
         \/ \E s \in Slugs, b \in Branches \cup {NoBranch} : Reserve(p, s, b)
  PROVE  UNCHANGED Store!vars
<1>1. UNCHANGED <<file, torn, opened, takt, answered, dropped>>
  BY DEF OpenTasks, ReadTasks, Reserve, Return, Go, yaml, history
<1>2. \E where : pc' = [pc EXCEPT ![p] = where] /\ where # pc[p] /\ ~Editing(p)
  BY DEF OpenTasks, ReadTasks, Reserve, Return, Go, Editing
<1>3. ~torn
  BY <1>2, EditorIsAlone DEF StoreInv, EditInv, Editing
<1>4. Stored' = Stored
  BY <1>1, <1>3 DEF Stored
<1>5. QED
  BY <1>1, <1>4 DEF Store!vars

LEMMA ChooseChooses ==
  ASSUME StoreInv, EditsAreAlone, NEW p \in Procs, NEW i, NEW reset, Choose(p, i, reset)
  PROVE  [Store!Next]_(Store!vars)
<1>1. /\ UNCHANGED <<file, torn, opened, takt, answered>>
      /\ pc[p] = "select" /\ pc' = [pc EXCEPT ![p] = "change"]
      /\ dropped' = IF reset THEN dropped ELSE dropped \cup {seen[p][i].dir}
  BY DEF Choose, Go, yaml
<1>2. ~torn
  BY <1>1, EditorIsAlone DEF StoreInv, EditInv, Editing
<1>3. Stored' = Stored
  BY <1>1, <1>2 DEF Stored
<1>4. CASE dropped' = dropped
  BY <1>1, <1>3, <1>4 DEF Store!vars
<1>5. CASE dropped' = dropped \cup {seen[p][i].dir}
  BY <1>1, <1>3, <1>5 DEF Store!ChooseToDelete, Store!Next
<1>6. QED
  BY <1>1, <1>4, <1>5

\* The store sees the edit when the file is truncated, and not when it is written.
LEMMA TruncateEdits ==
  ASSUME StoreInv, StoreInv', NEW p \in Procs, Truncate(p)
  PROVE  Store!Delete \/ Store!Reset
<1>1. /\ pc[p] = "edit" /\ pc'[p] = "fill"
      /\ UNCHANGED <<takt, seen, edit, answered, dropped>>
  BY OfProcess DEF Truncate, Go, history
<1>2. ~torn
  BY <1>1 DEF StoreInv, EditInv, ListIsOpen
<1>3. Stored = ToSet(seen[p])
  BY <1>1, <1>2, StoredIs DEF StoreInv, EditInv
<1>4. Stored' = ToSet(Edited(seen[p], edit[p]))
  <2>1. Stored' = ToSet(Edited(seen'[p], edit'[p]))
    BY <1>1, StoredIsNext
  <2>2. seen' = seen /\ edit' = edit
    BY <1>1
  <2>3. QED
    BY <2>1, <2>2
<1>5. PICK i \in DOMAIN seen[p] :
        IF edit[p].reset
          THEN ToSet(Edited(seen[p], edit[p])) =
                 (ToSet(seen[p]) \ {seen[p][i]}) \cup {Renewed(seen[p][i])}
          ELSE /\ seen[p][i].dir \in dropped
               /\ ToSet(Edited(seen[p], edit[p])) = ToSet(seen[p]) \ {seen[p][i]}
  BY <1>1, EditedKeepsOthers DEF Editing
<1>6. PICK t \in Stored : t = seen[p][i]
  BY <1>3 DEF ToSet
<1>7. CASE edit[p].reset
  <2>1. Stored' = (Stored \ {t}) \cup {[t EXCEPT !.status = "pending", !.owner = 0]}
    BY <1>3, <1>4, <1>5, <1>6, <1>7 DEF Renewed
  <2>2. QED
    BY <1>1, <2>1 DEF Store!Reset
<1>8. CASE ~edit[p].reset
  <2>1. Stored' = Stored \ {t} /\ t.dir \in dropped
    BY <1>3, <1>4, <1>5, <1>6, <1>8
  <2>2. QED
    BY <1>1, <2>1 DEF Store!Delete
<1>9. QED
  BY <1>7, <1>8

LEMMA FillStutters ==
  ASSUME StoreInv, StoreInv', NEW p \in Procs, Fill(p)
  PROVE  UNCHANGED Store!vars
<1>1. /\ pc[p] = "fill" /\ p \in opened
      /\ file' = Edited(seen[p], edit[p]) /\ torn' = FALSE
      /\ UNCHANGED <<takt, answered, dropped>>
  BY DEF Fill, history, StoreInv, EditInv
<1>2. Stored = ToSet(Edited(seen[p], edit[p])) /\ Stored' = ToSet(file')
  BY <1>1, StoredIs, StoredIsNext
<1>3. QED
  BY <1>1, <1>2 DEF Store!vars

LEMMA AgeStutters ==
  ASSUME Age
  PROVE  UNCHANGED Store!vars
<1>1. UNCHANGED <<file, torn, opened, seen, edit, takt, answered, dropped>>
  BY DEF Age, yaml, history
<1>2. QED
  BY <1>1, SameStored DEF Store!vars

LEMMA TaktGoneLeaves ==
  ASSUME TaktGone
  PROVE  Store!Leave
<1>1. /\ UNCHANGED <<file, torn, opened, seen, edit, answered, dropped>>
      /\ takt.up /\ takt' = [takt EXCEPT !.up = FALSE]
  BY DEF TaktGone, yaml, history
<1>2. QED
  BY <1>1, SameStored DEF Store!Leave

LEMMA TaktStartsClaimsAll ==
  ASSUME StoreInv, StoreInv', TaktStarts
  PROVE  Store!Claim
<1>1. /\ takt' = [run |-> takt.run + 1, up |-> TRUE]
      /\ file' = [i \in DOMAIN file |-> Claimed(file[i], takt'.run)]
  BY TaktStartsClaims
<1>2. ~takt.up /\ ~torn /\ ~torn' /\ answered' = answered /\ dropped' = dropped
  BY DEF TaktStarts, history
<1>3. Stored = ToSet(file) /\ Stored' = ToSet(file')
  BY <1>2, StoredIs, StoredIsNext
<1>4. ToSet(file') = {Claimed(t, takt'.run) : t \in ToSet(file)}
  BY <1>1 DEF ToSet
<1>5. QED
  BY <1>1, <1>2, <1>3, <1>4 DEF Store!Claim, Claimed

LEMMA TaktFinishesOne ==
  ASSUME StoreInv, StoreInv', NEW i \in DOMAIN file, TaktFinishes(i)
  PROVE  Store!Finish
<1>1. /\ takt.up /\ ~torn /\ ~torn' /\ UNCHANGED <<takt, answered, dropped>>
      /\ file[i].status = "running" /\ file[i].owner = takt.run
      /\ file' = [file EXCEPT ![i].status = "done"]
  BY DEF TaktFinishes, history
<1>2. PICK r : r = [file[i] EXCEPT !.status = "done"]
  OBVIOUS
<1>3. Numbered(file, reserved) /\ file \in Seq(Records)
  BY DEF StoreInv, QueueTypes, Numbered
<1>4. r \in Records /\ r.name = file[i].name /\ r.dir = file[i].dir
  <2>1. file[i] \in Records
    BY <1>3
  <2>2. QED
    BY <1>2, <2>1 DEF Records
<1>5. ChangedAt(file', file, i, r)
  <2>1. file' = [file EXCEPT ![i] = r]
    BY <1>1, <1>2
  <2>2. QED
    BY <1>3, <1>4, <2>1, ExceptChangesAt
<1>6. ToSet(file') = (ToSet(file) \ {file[i]}) \cup {r}
  BY <1>3, <1>4, <1>5, OneChangedIsNumbered
<1>7. Stored = ToSet(file) /\ Stored' = ToSet(file')
  BY <1>1, StoredIs, StoredIsNext
<1>8. PICK t \in Stored : t = file[i]
  BY <1>7 DEF ToSet
<1>9. Store!Busy(t) /\ t.status = "running"
  BY <1>1, <1>8 DEF Store!Busy
<1>10. Stored' = (Stored \ {t}) \cup {[t EXCEPT !.status = "done"]}
  BY <1>2, <1>6, <1>7, <1>8
<1>11. QED
  BY <1>1, <1>9, <1>10 DEF Store!Finish

\* Every step of every process, of time and of TAKT is a step of the store or shows nothing.
LEMMA StoreRefines ==
  ASSUME StoreInv, StoreInv', [Next /\ Tame]_vars
  PROVE  [Store!Next]_(Store!vars)
<1>1. CASE UNCHANGED vars
  <2>1. UNCHANGED <<file, torn, opened, seen, edit, takt, answered, dropped>>
    BY <1>1 DEF vars, yaml, history
  <2>2. QED
    BY <2>1, SameStored DEF Store!vars
<1>2. CASE Next /\ Tame
  <2>1. EditsAreAlone
    BY <1>2 DEF Tame
  <2>2. ASSUME NEW p \in Procs, NEW s \in Slugs, NEW b \in Branches \cup {NoBranch},
               Reserve(p, s, b)
        PROVE  [Store!Next]_(Store!vars)
    BY <2>1, <2>2, ListStepsStutter
  <2>3. ASSUME NEW p \in Procs, EnqueueStep(p)  PROVE [Store!Next]_(Store!vars)
    <3>1. CASE Write(p)
      BY <2>1, <3>1, WriteEnqueues DEF Store!Next
    <3>2. CASE ~Write(p)
      <4>1. \E where : Moves(p, where)
        BY <2>3, <3>2, AcquireMoves, TimeOutMoves, ReadMoves, ThrowMoves, VerifyMoves,
           UnlockMoves DEF EnqueueStep
      <4>2. QED
        BY <2>1, <4>1, MovesAnswer
    <3>3. QED
      BY <3>1, <3>2
  <2>4. ASSUME NEW p \in Procs, OpenTasks(p)  PROVE [Store!Next]_(Store!vars)
    BY <2>1, <2>4, ListStepsStutter
  <2>5. ASSUME NEW p \in Procs, NEW i \in 1..MaxTasks, NEW reset \in BOOLEAN,
               Choose(p, i, reset)
        PROVE  [Store!Next]_(Store!vars)
    BY <2>1, <2>5, ChooseChooses
  <2>6. ASSUME NEW p \in Procs, EditStep(p)  PROVE [Store!Next]_(Store!vars)
    <3>1. CASE Truncate(p)
      BY <3>1, TruncateEdits DEF Store!Next
    <3>2. CASE Fill(p)
      BY <3>2, FillStutters
    <3>3. CASE ReadTasks(p) /\ pc'[p] = "edit"
      BY <2>1, <3>3, ListStepsStutter
    <3>4. CASE ReadTasks(p) /\ pc'[p] # "edit"
      BY <2>1, <3>4, NoTaskMoves, MovesAnswer
    <3>5. QED
      BY <2>6, <3>1, <3>2, <3>3, <3>4 DEF EditStep
  <2>7. ASSUME NEW p \in Procs, Crash(p)  PROVE [Store!Next]_(Store!vars)
    BY <2>1, <2>7, CrashMoves, MovesAnswer
  <2>8. CASE Age
    BY <2>8, AgeStutters
  <2>9. CASE Takt
    <3>1. CASE TaktStarts
      BY <3>1, TaktStartsClaimsAll DEF Store!Next
    <3>2. CASE TaktGone
      BY <3>2, TaktGoneLeaves DEF Store!Next
    <3>3. ASSUME NEW i \in DOMAIN file, TaktFinishes(i)  PROVE [Store!Next]_(Store!vars)
      BY <3>3, TaktFinishesOne DEF Store!Next
    <3>4. QED
      BY <2>9, <3>1, <3>2, <3>3 DEF Takt
  <2>10. QED
    BY <1>2, <2>2, <2>3, <2>4, <2>5, <2>6, <2>7, <2>8, <2>9 DEF Next
<1>3. QED
  BY <1>1, <1>2

\* Through locks, crashes, stale locks and edits that empty the file before they write it,
\* what the file stands for changes as TaskStore says, one task at a time: the system with
\* its files implements the store without them, for every number of processes and tasks.
THEOREM StoreTheorem == TameSpec => ImplementsTaskStore
<1>1. Init => Store!Init
  BY NothingIsStored
<1>2. StoreInv /\ StoreInv' /\ [Next /\ Tame]_vars => [Store!Next]_(Store!vars)
  BY StoreRefines
<1>3. QED
  BY <1>1, <1>2, StoreAlways, PTL DEF TameSpec, ImplementsTaskStore, Store!Spec
=============================================================================
