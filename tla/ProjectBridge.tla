--------------------------- MODULE ProjectBridge ---------------------------
(***************************************************************************)
(* One project of TaktBridgeRuntime (extensions/index.ts): the stage, the  *)
(* queue session and the bridge-owned PTY run, as they are driven by       *)
(* concurrent asynchronous calls.  JavaScript runs one segment at a time,  *)
(* so an action is the code from one await to the next, and the actions of *)
(* different calls interleave.                                             *)
(*                                                                         *)
(* The flows are the refresh interval ("tick": refreshProjects, which also *)
(* starts the follow-up runs) and operator calls.  The run controller and  *)
(* its broker appear here as one PTY session; PtyBroker and RunMirror      *)
(* model them in detail.                                                   *)
(***************************************************************************)
EXTENDS QueueContinuation, Integers, FiniteSets

CONSTANTS
  Ops,                 \* identities of concurrent operator calls
  OpJobs,              \* the operator calls made, a subset of OperatorJobs
  MaxContinuations,    \* TAKT_QUEUE_AUTO_CONTINUE_MAX
  MaxPending           \* bound of the model: pending tasks on disk at once

OperatorJobs == {"run", "prompt", "workflow", "resume", "exec", "clear", "stop",
                 "view", "enqueue", "input"}

ASSUME MaxContinuationsAssumption == MaxContinuations \in Nat
ASSUME MaxPendingAssumption == MaxPending \in Nat
ASSUME OpsAssumption == "tick" \notin Ops /\ OpJobs \subseteq OperatorJobs

VARIABLES
  stage,     \* ManagedProject.stage
  queue,     \* the queue session's four fields of ManagedProject
  tracking,  \* ManagedProject.execTracking is set
  runner,    \* the project's TaktRunController and the PTY behind it
  control,   \* the control state the broker holds for this project
  pending,   \* pending tasks in .takt/tasks.yaml
  flow,      \* where each asynchronous call is
  followUps, \* follow-up runs since the operator last started the queue
  overlapped \* a call has overlapped with a follow-up start

\* The project; followUps and overlapped are there for the properties only.
vars == <<stage, queue, tracking, runner, control, pending, flow, followUps>>
allVars == <<vars, overlapped>>

Flows == {"tick"} \cup Ops

-----------------------------------------------------------------------------
(* Types *)

TerminalStages == {"stopped", "completed", "failed"}
\* "waiting" stands for waiting_prompt, pasting, waiting_go and sending_go.
Stages == {"idle", "clearing", "starting", "waiting", "awaiting_go", "running", "stopping"}
          \cup TerminalStages

\* session: no PTY session, a live process, or an exited one whose screen is
\* kept.  kind: which `takt` command the PTY runs or ran last; "followup" is the
\* `takt run` of an automatic continuation.  up: a broker process exists.
Runner ==
  [session: {"none", "live", "exited"},
   kind: {"none", "queue", "followup", "exec", "clear"},
   lastExit: ExitCodes, connected: BOOLEAN, up: BOOLEAN]

\* NoCount: a control state without a queueContinuationCount.
NoCount == -1
ControlState == [stage: Stages, active: BOOLEAN, count: {NoCount} \cup 0..MaxContinuations]
NoControl == [stage |-> "unset", active |-> FALSE, count |-> 0]

\* job: the call.  pc: the await it is at.  ret: where refreshProject returns to.
\* exit: the exit code of refreshProject's reconcile.  flag: replacesQueueSession
\* in startPendingProject, wasRunning or needsCleanup in executePrompt.
Jobs == {"none", "tick", "auto"} \cup OperatorJobs
Awaits == {"idle", "refresh", "summary", "tasklist", "gate", "regate", "continue",
           "catalog", "takeover", "confirm", "stop", "dispose", "start", "clear", "cleared",
           "unclear", "prompt", "abort", "undo", "editor"}
Flow == [job: Jobs, pc: Awaits, ret: {"none", "gate", "regate", "continue"},
         exit: ExitCodes, flag: BOOLEAN]

TypeOK ==
  /\ stage \in Stages
  /\ queue \in QueueSession(0..MaxContinuations)
  /\ tracking \in BOOLEAN
  /\ runner \in Runner
  /\ control \in ControlState \cup {NoControl}
  /\ pending \in 0..MaxPending
  /\ flow \in [Flows -> Flow]
  /\ followUps \in 0..(MaxContinuations + 1)    \* it stops counting one above the cap
  /\ overlapped \in BOOLEAN

-----------------------------------------------------------------------------
(* Helpers *)

Idle == [job |-> "none", pc |-> "idle", ret |-> "none", exit |-> "none", flag |-> FALSE]

At(f, jobs, pc) == flow[f].job \in jobs /\ flow[f].pc = pc
GoTo(f, pc) == flow' = [flow EXCEPT ![f].pc = pc]
Refresh(f, ret) == flow' = [flow EXCEPT ![f].pc = "refresh", ![f].ret = ret]
Finish(f) == flow' = [flow EXCEPT ![f] = Idle]

Live == runner.session = "live"
HasSession == runner.session # "none"

\* MUTANT: an ended queue session stays with the broker.
SyncedNeverEnds(s, q, r) ==
  IF r.connected THEN [stage |-> s, active |-> q.active \/ control.active, count |-> q.count]
  ELSE control

\* syncProjectControlState: the broker receives stage s and queue session q, if the
\* controller r has a socket.  Its queue of control requests is not delayed here.
Synced(s, q, r) ==
  IF r.connected THEN [stage |-> s, active |-> q.active, count |-> q.count] ELSE control

\* setProjectStage, and the sync after every change of the queue session.
Sync == control' = Synced(stage', queue', runner')

\* The stage onExit leaves: a stop, or an exit a refresh already settled, keeps it.
StageAfterExit(s, code) ==
  IF s \in TerminalStages \cup {"stopping"} THEN s
  ELSE IF code = "ok" THEN "completed" ELSE "failed"

\* The live process exits with `code`, and ensureProject's onExit runs.
ProcessExits(code) ==
  /\ Live
  /\ runner' = [runner EXCEPT !.session = "exited", !.lastExit = code]
  /\ stage' = StageAfterExit(stage, code)
  /\ control' = IF stage' = stage THEN control ELSE Synced(stage', queue, runner')
  /\ tracking' = FALSE
  /\ UNCHANGED <<queue, pending, followUps>>

\* runner.dispose(): kill what is live (it exits with one of KillCodes), clear the
\* broker's session and control state, drop the socket, keep the last exit code.
KillCodes == IF Live THEN {"ok", "fail"} ELSE {"none"}
Dispose(code) ==
  /\ runner' = [runner EXCEPT !.session = "none", !.connected = FALSE,
                              !.lastExit = IF Live THEN code ELSE @]
  /\ control' = IF runner.connected THEN NoControl ELSE control
  /\ UNCHANGED followUps
StageAfterDispose(code) == IF Live THEN StageAfterExit(stage, code) ELSE stage

Started(kind) == [runner EXCEPT !.session = "live", !.kind = kind, !.lastExit = "none",
                                !.connected = TRUE, !.up = TRUE]

\* A start whose process may exit before the code after its await runs.
Spawned(kind) ==
  {Started(kind)} \cup {[Started(kind) EXCEPT !.session = "exited", !.lastExit = code] :
                          code \in {"ok", "fail"}}

\* How runner.start() of flow f leaves the controller when it throws: it finds a
\* session, or another start between its snapshot and its response; the broker
\* refuses the spawn, and the new screen keeps hasSession set; no broker comes up.
FailedStarts(f) ==
  (IF HasSession \/ \E g \in Flows \ {f} : flow[g].pc \in {"start", "clear"}
     THEN {runner} ELSE {})
  \cup (IF HasSession THEN {} ELSE
          {[runner EXCEPT !.session = "exited", !.kind = "none", !.lastExit = "none",
                          !.connected = TRUE, !.up = TRUE]})
  \cup (IF runner.up THEN {} ELSE {runner})

\* start() made an exitPromise that no exit will ever resolve: waitForExit times out.
ExitNeverComes == runner.session = "exited" /\ runner.lastExit = "none"

-----------------------------------------------------------------------------
(* refreshProject: attachLiveBroker and reconcile; readTaktSummary; the task list *)

\* attachLiveBroker only reaches a broker when the controller holds no session.
Attaches == ~HasSession /\ runner.up
Attached ==
  IF Attaches
    THEN [runner EXCEPT !.connected = TRUE,
                        !.lastExit = IF runner.connected THEN @ ELSE "none"]
    ELSE runner

\* restoreProjectControlState never clears queueRunActive.
RestoredStage(s) == IF control = NoControl THEN s ELSE control.stage
RestoredQueue(q) ==
  [q EXCEPT !.active = @ \/ control.active,
            !.count = IF control = NoControl \/ control.count = NoCount THEN @ ELSE control.count]

\* Before it restores the queue session it restores the queued input, whose onChange
\* syncs the control state with the queue session the project had until then.
SyncedByRestore(q) ==
  IF control = NoControl THEN control
  ELSE [control EXCEPT !.active = q.active, !.count = q.count]
\* The project of a new runtime has no queueContinuationCount yet.
SyncedByNewRuntime ==
  IF control = NoControl THEN control
  ELSE [control EXCEPT !.active = FALSE, !.count = NoCount]

\* MUTANT: a refresh leaves the stage to the exit callback.
ReconciledStageNever(s, r) == s

\* A completed session gives every stage with a live meaning a terminal one.
ReconciledStage(s, r) ==
  IF r.session # "live" /\ r.lastExit # "none" /\ s \notin TerminalStages
    THEN IF s = "stopping" THEN "stopped"
         ELSE IF r.lastExit = "ok" THEN "completed" ELSE "failed"
    ELSE s

RefreshAttach(f) ==
  /\ flow[f].pc = "refresh"
  /\ LET restored == IF Attaches THEN RestoredStage(stage) ELSE stage
     IN  /\ runner' = Attached
         /\ queue' = IF Attaches THEN RestoredQueue(queue) ELSE queue
         /\ stage' = ReconciledStage(restored, runner')
         /\ control' = IF stage' # restored THEN Synced(stage', queue', runner')
                       ELSE IF Attaches THEN SyncedByRestore(queue) ELSE control
  /\ flow' = [flow EXCEPT ![f].pc = "summary", ![f].exit = runner'.lastExit]
  /\ UNCHANGED <<tracking, pending, followUps>>

\* The tick, and the refresh of a stop or an enqueue, read no task list at first.
IncludesTaskList(f) == flow[f].ret # "continue" /\ flow[f].job \notin {"stop", "enqueue"}

\* reconcileExecCompletion: a tracked exec run may have reached a terminal status.
ExecOutcomes ==
  {stage} \cup
    (IF tracking /\ stage = "running" /\ Live THEN {"completed", "failed"} ELSE {})

\* The rest of refreshProject, with `count` pending tasks in the summary.  The exit
\* code is the one reconcile saw, before the awaits.
ArmQueueContinuation(f, count) ==
  /\ stage' \in ExecOutcomes
  /\ tracking' = (tracking /\ stage' = stage)
  /\ LET reason == DecideQueueContinuation(queue, Live, flow[f].exit, stage', count,
                                           MaxContinuations)
     IN  /\ queue' = AfterDecision(queue, reason)
         /\ control' = IF stage' # stage \/ reason = "no-pending-tasks"
                         THEN Synced(stage', queue', runner) ELSE control
  /\ GoTo(f, flow[f].ret)
  /\ UNCHANGED <<runner, pending, followUps>>

ReadSummary(f) ==
  /\ flow[f].pc = "summary"
  /\ IF IncludesTaskList(f) THEN ArmQueueContinuation(f, pending)
     ELSE IF queue.active /\ ~Live
       THEN /\ GoTo(f, "tasklist")
            /\ UNCHANGED <<stage, queue, tracking, runner, control, pending, followUps>>
       ELSE ArmQueueContinuation(f, 0)

ReadTaskList(f) ==
  /\ flow[f].pc = "tasklist"
  /\ ArmQueueContinuation(f, pending)

\* A task list that cannot be read decides nothing: a later refresh will.
TaskListUnavailable(f) ==
  /\ flow[f].pc = "tasklist"
  /\ stage' \in ExecOutcomes
  /\ tracking' = (tracking /\ stage' = stage)
  /\ control' = IF stage' = stage THEN control ELSE Synced(stage', queue, runner)
  /\ GoTo(f, flow[f].ret)
  /\ UNCHANGED <<queue, runner, pending, followUps>>

-----------------------------------------------------------------------------
(* startPendingProject, for runPendingProfile ("run") and for a follow-up ("auto") *)

Starters == {"run", "auto"}

\* MUTANT: the catch of runQueueContinuations leaves queueContinuationInFlight set.
StartThrowsKeepsClaim(f, q) ==
  /\ queue' = IF flow[f].job = "auto" THEN [q EXCEPT !.active = FALSE] ELSE q
  /\ Finish(f)

\* startPendingProject throws with the queue session q.  Only runQueueContinuations
\* catches: it drops the session, and the broker is not told.
StartThrows(f, q) ==
  /\ queue' = IF flow[f].job = "auto"
                THEN [q EXCEPT !.inFlight = FALSE, !.active = FALSE] ELSE q
  /\ Finish(f)

\* The workflow catalog resolves, or it is not ready; then the PTY must be free.
ResolveCatalog(f) ==
  /\ At(f, Starters, "catalog")
  /\ \/ ~Live /\ Refresh(f, "gate") /\ UNCHANGED queue
     \/ StartThrows(f, queue)
  /\ UNCHANGED <<stage, tracking, runner, control, pending, followUps>>

\* refreshControlState fails: the call ends before it has changed anything.
StatusCheckFails(f) ==
  /\ flow[f].pc = "summary" /\ flow[f].ret = "gate"
  /\ StartThrows(f, queue)
  /\ UNCHANGED <<stage, tracking, runner, control, pending, followUps>>

\* After refreshControlState.  An execution the bridge does not own blocks the start.
\* Nothing here looks at runner.isRunning or queueRunActive again.
PassStartGate(f) ==
  /\ At(f, Starters, "gate")
  /\ \/ StartThrows(f, queue) /\ UNCHANGED <<stage, control>>
     \/ LET replaces == flow[f].job = "auto" \/ queue.active
        IN  /\ flow' = [flow EXCEPT ![f].pc = IF HasSession THEN "dispose" ELSE "start",
                                    ![f].flag = replaces]
            /\ stage' = IF HasSession THEN stage ELSE "starting"
            /\ control' = IF HasSession THEN control ELSE Synced(stage', queue, runner)
            /\ UNCHANGED queue
  /\ UNCHANGED <<tracking, runner, pending, followUps>>

DisposeBeforeStart(f) ==
  /\ At(f, Starters, "dispose")
  /\ \E code \in KillCodes : Dispose(code)
  /\ stage' = "starting"
  /\ tracking' = (tracking /\ ~Live)
  /\ GoTo(f, "start")
  /\ UNCHANGED <<queue, pending>>

\* MUTANT: a follow-up does not count.
SpentCountNever(auto, count) == IF auto THEN count ELSE 0

\* The operator's start begins a fresh budget, a follow-up spends one more of it.
SpentCount(auto, count) == IF auto THEN count + 1 ELSE 0

\* `takt run` claims the pending tasks.  It may exit before the code after the await
\* runs: that code then overwrites the stage its exit has set.
StartQueueRun(f) ==
  /\ At(f, Starters, "start") /\ ~HasSession
  /\ LET auto == flow[f].job = "auto"
     IN  /\ runner' \in Spawned(IF auto THEN "followup" ELSE "queue")
         /\ queue' = [active |-> TRUE, armed |-> FALSE, inFlight |-> FALSE,
                      count |-> SpentCount(auto, queue.count)]
         /\ followUps' = IF ~auto THEN 0
                         ELSE IF followUps > MaxContinuations THEN followUps ELSE followUps + 1
  /\ stage' = "running"
  /\ tracking' = (tracking /\ runner'.session = "live")
  /\ pending' = 0
  /\ Sync
  /\ Finish(f)

\* A start that replaced a queue session someone ended meanwhile leaves the stage alone.
StartQueueRunFails(f) ==
  /\ At(f, Starters, "start")
  /\ runner' \in FailedStarts(f)
  /\ LET endedByOperator == flow[f].flag /\ ~queue.active
     IN  /\ stage' = IF endedByOperator THEN stage ELSE "failed"
         /\ control' = IF endedByOperator THEN control ELSE Synced(stage', queue, runner')
  /\ StartThrows(f, queue)
  /\ UNCHANGED <<tracking, pending, followUps>>

-----------------------------------------------------------------------------
(* refreshProjects: one tick of the interval, and its runQueueContinuations *)

TickStarts ==
  /\ flow["tick"].pc = "idle"
  /\ flow' = [flow EXCEPT !["tick"] =
                [Idle EXCEPT !.job = "tick", !.pc = "refresh", !.ret = "continue"]]
  /\ UNCHANGED <<stage, queue, tracking, runner, control, pending, followUps>>

RunQueueContinuations ==
  /\ At("tick", {"tick"}, "continue")
  /\ \/ /\ ~queue.armed \/ Live
        /\ Finish("tick")
        /\ UNCHANGED queue
     \/ /\ queue.armed /\ ~Live
        /\ stage # "completed" \/ ~queue.active
        /\ queue' = [queue EXCEPT !.armed = FALSE]
        /\ Finish("tick")
     \/ /\ queue.armed /\ ~Live
        /\ stage = "completed" /\ queue.active
        /\ queue' = [queue EXCEPT !.armed = FALSE, !.inFlight = TRUE]
        /\ flow' = [flow EXCEPT !["tick"].job = "auto", !["tick"].pc = "catalog"]
  /\ UNCHANGED <<stage, tracking, runner, control, pending, followUps>>

-----------------------------------------------------------------------------
(* Operator calls: how each begins, up to its first await *)

\* executePrompt, runWorkflow and resumeRun end the queue session, then refresh.
Takeovers == {"prompt", "workflow", "resume"}

Call(f, job, pc, ret) ==
  /\ job \in OpJobs
  /\ flow[f].pc = "idle"
  /\ flow' = [flow EXCEPT ![f] = [Idle EXCEPT !.job = job, !.pc = pc, !.ret = ret]]

\* clearQueueContinuation
ClearQueue == queue' = ClearedQueue

CallRunPending(f) ==
  /\ Call(f, "run", "catalog", "none")
  /\ UNCHANGED <<stage, queue, tracking, runner, control, pending, followUps>>

CallTakeover(f) ==
  /\ \E job \in Takeovers : Call(f, job, "refresh", "gate")
  /\ ClearQueue /\ UNCHANGED <<stage, runner>> /\ Sync
  /\ UNCHANGED <<tracking, pending, followUps>>

CallExec(f) ==
  /\ Call(f, "exec", "refresh", "gate")
  /\ UNCHANGED <<stage, queue, tracking, runner, control, pending, followUps>>

CallClear(f) ==
  /\ ~Live
  /\ Call(f, "clear", "refresh", "gate")
  /\ UNCHANGED <<stage, queue, tracking, runner, control, pending, followUps>>

\* Calls that only refresh: readActiveScreen, enqueueTaskInProject, and startPending, whose
\* dialog and "run" come after it.
CallRefresh(f) ==
  /\ \E job \in {"view", "enqueue"} : Call(f, job, "refresh", "gate")
  /\ UNCHANGED <<stage, queue, tracking, runner, control, pending, followUps>>

CallInput(f) ==
  /\ Live
  /\ Call(f, "input", "editor", "none")
  /\ UNCHANGED <<stage, queue, tracking, runner, control, pending, followUps>>

\* stopActive with an explicit project.  Without a running process it only disposes.
CallStop(f) ==
  /\ HasSession
  /\ Call(f, "stop", IF Live THEN "confirm" ELSE "undo", "none")
  /\ UNCHANGED <<stage, queue, tracking, runner, control, pending, followUps>>

\* The operator confirms or not; the process may be gone by then.
ConfirmStop(f) ==
  /\ At(f, {"stop"}, "confirm")
  /\ \/ Finish(f) /\ UNCHANGED <<stage, queue, control>>
     \/ /\ ClearQueue /\ stage' = "stopping"
        /\ control' = Synced(stage', queue', runner)
        /\ GoTo(f, "stop")
  /\ UNCHANGED <<tracking, runner, pending, followUps>>

-----------------------------------------------------------------------------
(* stopWaitDispose, in the calls that take a project over *)

\* The catch of a call: whatever session there is gets stopped and disposed.  Only
\* executePrompt shows that as a stage of its own.
EnterCleanup(f, r) ==
  LET shown == r.session = "live" /\ flow[f].job = "prompt"
  IN  /\ flow' = [flow EXCEPT ![f].pc = "abort", ![f].flag = r.session # "none"]
      /\ stage' = IF shown THEN "stopping" ELSE stage
      /\ control' = IF shown THEN Synced(stage', queue, r) ELSE control

\* runner.stop() and waitForExit(), at await `from`, then go to await `to`.
StopAndWait(f, from, to) ==
  /\ flow[f].pc = from
  /\ IF Live
       THEN \E code \in {"ok", "fail"} : ProcessExits(code)
       ELSE ~ExitNeverComes
            /\ UNCHANGED <<stage, queue, tracking, runner, control, pending, followUps>>
  /\ GoTo(f, to)

StopRun(f) == StopAndWait(f, "stop", "dispose")
StopInCleanup(f) == StopAndWait(f, "abort", "undo")

\* waitForExit times out: executePrompt, runWorkflow and clearSessions clean up, where
\* the same wait fails again; the other calls report it.
StopTimesOut(f) ==
  /\ ExitNeverComes
  /\ \/ /\ At(f, {"prompt", "workflow", "clear"}, "stop")
        /\ EnterCleanup(f, runner)
        /\ UNCHANGED tracking
     \/ /\ At(f, {"exec", "resume"}, "stop") \/ At(f, {"clear", "resume"}, "abort")
        /\ Finish(f)
        /\ UNCHANGED <<stage, control, tracking>>
     \/ /\ At(f, {"prompt", "workflow"}, "abort") \/ At(f, {"stop"}, "stop")
        /\ stage' \in IF flow[f].job = "workflow" THEN {"failed", "stopped"} ELSE {"failed"}
        /\ control' = Synced(stage', queue, runner)
        /\ tracking' = (tracking /\ flow[f].job # "workflow")
        /\ Finish(f)
  /\ UNCHANGED <<queue, runner, pending, followUps>>

\* executePrompt reports the outcome when it had a session to clean up; runWorkflow and
\* resumeRun always do, and only runWorkflow forgets the tracked run.
DisposeInCleanup(f) ==
  /\ flow[f].pc = "undo"
  /\ \E code \in KillCodes :
       /\ Dispose(code)
       /\ stage' \in IF flow[f].job \in {"workflow", "resume"}
                         \/ (flow[f].job = "prompt" /\ flow[f].flag)
                       THEN {"failed", "stopped"} ELSE {StageAfterDispose(code)}
  /\ tracking' = (tracking /\ ~Live /\ flow[f].job # "workflow")
  /\ Finish(f)
  /\ UNCHANGED <<queue, pending>>

-----------------------------------------------------------------------------
(* The gate after the refresh, then what each call does with the project *)

\* startExec and clearSessions: blocked, or the operator declines; else go on.  A plain
\* refresh is over.
PassOperatorGate(f) ==
  /\ \/ At(f, {"exec"}, "gate") /\ GoTo(f, "takeover")
     \/ At(f, {"clear"}, "gate") /\ GoTo(f, IF HasSession THEN "stop" ELSE "clear")
     \/ At(f, {"exec", "clear", "view", "enqueue"}, "gate") /\ Finish(f)
  /\ UNCHANGED <<stage, queue, tracking, runner, control, pending, followUps>>

\* startExec ends the queue session only here, after its dialogs.
TakeOverForExec(f) ==
  /\ At(f, {"exec"}, "takeover")
  /\ ClearQueue /\ UNCHANGED <<stage, runner>> /\ Sync
  /\ GoTo(f, IF HasSession THEN "stop" ELSE "start")
  /\ UNCHANGED <<tracking, pending, followUps>>

\* An execution the bridge does not own makes a takeover fail; without `replace` it
\* leaves a live run alone; else it stops what there is.
PassTakeoverGate(f) ==
  /\ At(f, Takeovers, "gate")
  /\ \/ /\ ~Live
        /\ IF flow[f].job = "resume" THEN Finish(f) /\ UNCHANGED <<stage, control>>
           ELSE EnterCleanup(f, runner)
     \/ Live /\ Finish(f) /\ UNCHANGED <<stage, control>>
     \/ LET shown == Live /\ flow[f].job # "resume"
        IN  /\ flow' = [flow EXCEPT ![f].pc = "stop", ![f].flag = shown]
            /\ stage' = IF shown THEN "stopping" ELSE stage
            /\ control' = IF shown THEN Synced(stage', queue, runner) ELSE control
  /\ UNCHANGED <<queue, tracking, runner, pending, followUps>>

\* beginExecTracking and the last steps before runner.start().
BeginExec(f) ==
  /\ stage' = "starting"
  /\ tracking' = TRUE
  /\ ClearQueue
  /\ GoTo(f, "start")

DisposeForTakeover(f) ==
  /\ At(f, Takeovers, "dispose")
  /\ \E code \in KillCodes :
       /\ Dispose(code)
       /\ IF flow[f].job = "resume" THEN BeginExec(f)
          ELSE /\ stage' = IF flow[f].job = "prompt" /\ flow[f].flag THEN "stopped"
                           ELSE StageAfterDispose(code)
               /\ tracking' = (tracking /\ ~Live)
               /\ Refresh(f, "regate")
               /\ UNCHANGED queue
  /\ UNCHANGED pending

\* The second refresh of executePrompt and runWorkflow fails.
TakeoverRefreshFails(f) ==
  /\ At(f, Takeovers, "summary") /\ flow[f].ret = "regate"
  /\ EnterCleanup(f, runner)
  /\ UNCHANGED <<queue, tracking, runner, pending, followUps>>

\* It finds a foreign run, or the call goes on: `takt clear` first for a prompt.
PassTakeoverRegate(f) ==
  /\ At(f, Takeovers, "regate")
  /\ \/ EnterCleanup(f, runner) /\ UNCHANGED <<queue, tracking>>
     \/ /\ flow[f].job = "prompt"
        /\ stage' = "clearing"
        /\ control' = Synced(stage', queue, runner)
        /\ GoTo(f, "clear")
        /\ UNCHANGED <<queue, tracking>>
     \/ /\ flow[f].job = "workflow"
        /\ BeginExec(f)
        /\ control' = Synced(stage', queue', runner)
  /\ UNCHANGED <<runner, pending, followUps>>

\* runTaktClear: start `takt clear` and wait for its exit.
StartClear(f) ==
  /\ flow[f].pc = "clear" /\ ~HasSession
  /\ runner' = Started("clear")
  /\ GoTo(f, "cleared")
  /\ UNCHANGED <<stage, queue, tracking, control, pending, followUps>>

StartClearFails(f) ==
  /\ flow[f].pc = "clear"
  /\ runner' \in FailedStarts(f)
  /\ EnterCleanup(f, runner')
  /\ UNCHANGED <<queue, tracking, pending, followUps>>

ClearExits(f) ==
  /\ flow[f].pc = "cleared"
  /\ \/ /\ ~Live /\ runner.lastExit = "ok"
        /\ GoTo(f, "unclear")
        /\ UNCHANGED <<stage, control>>
     \/ /\ Live \/ runner.lastExit # "ok"    \* a time-out, or a failure
        /\ EnterCleanup(f, runner)
  /\ UNCHANGED <<queue, tracking, runner, pending, followUps>>

DisposeAfterClear(f) ==
  /\ flow[f].pc = "unclear"
  /\ \E code \in KillCodes :
       /\ Dispose(code)
       /\ IF flow[f].job = "prompt" THEN BeginExec(f)
          ELSE /\ stage' = StageAfterDispose(code)
               /\ tracking' = (tracking /\ ~Live)
               /\ Finish(f)
               /\ UNCHANGED queue
  /\ UNCHANGED pending

\* startExec goes on to runner.start(), clearSessions to runTaktClear.
DisposeForLaunch(f) ==
  /\ At(f, {"exec", "clear"}, "dispose")
  /\ \E code \in KillCodes : Dispose(code) /\ stage' = StageAfterDispose(code)
  /\ tracking' = (tracking /\ ~Live)
  /\ GoTo(f, IF flow[f].job = "exec" THEN "start" ELSE "clear")
  /\ UNCHANGED <<queue, pending>>

\* stopActive: dispose, forget the tracked run, end the queue session again; when it
\* reconciled the run's metadata it refreshes the project before it sets the stage.
DisposeForStop(f) ==
  /\ At(f, {"stop"}, "dispose")
  /\ \E code \in KillCodes :
       /\ Dispose(code)
       /\ \/ stage' = "stopped" /\ Finish(f)
          \/ stage' = StageAfterDispose(code) /\ Refresh(f, "regate")
  /\ tracking' = FALSE
  /\ ClearQueue
  /\ UNCHANGED pending

FinishStop(f) ==
  /\ At(f, {"stop"}, "regate")
  /\ stage' = "stopped"
  /\ control' = Synced("stopped", queue, runner)
  /\ Finish(f)
  /\ UNCHANGED <<queue, tracking, runner, pending, followUps>>

\* A launch other than `takt run`.  startExec and resumeRun set no stage here, the
\* other two do, whether or not the process has exited by then.
StartExecRun(f) ==
  /\ At(f, {"exec"} \cup Takeovers, "start") /\ ~HasSession
  /\ runner' \in Spawned("exec")
  /\ stage' = CASE flow[f].job = "prompt"   -> "waiting"
                [] flow[f].job = "workflow" -> "running"
                [] OTHER -> IF runner'.session = "live" THEN stage
                            ELSE StageAfterExit(stage, runner'.lastExit)
  /\ control' = IF stage' = stage THEN control ELSE Synced(stage', queue, runner')
  /\ tracking' = (tracking /\ runner'.session = "live")
  /\ IF flow[f].job \in {"prompt", "resume"} THEN GoTo(f, "prompt") ELSE Finish(f)
  /\ UNCHANGED <<queue, pending, followUps>>

StartExecRunFails(f) ==
  /\ At(f, {"exec"} \cup Takeovers, "start")
  /\ runner' \in FailedStarts(f)
  /\ IF flow[f].job = "exec" THEN Finish(f) /\ UNCHANGED <<stage, control>>
     ELSE EnterCleanup(f, runner')
  /\ UNCHANGED <<queue, tracking, pending, followUps>>

\* The prompt is pasted and, in auto mode, /go accepted, or the resume menu is passed;
\* or the process exits, a wait times out or the call is aborted, and it cleans up.
SubmitPrompt(f) ==
  /\ flow[f].pc = "prompt"
  /\ \/ /\ Live
        /\ stage' \in {"running"} \cup
                       (IF flow[f].job = "prompt" THEN {"awaiting_go"} ELSE {})
        /\ control' = Synced(stage', queue, runner)
        /\ Finish(f)
     \/ EnterCleanup(f, runner)
  /\ UNCHANGED <<queue, tracking, runner, pending, followUps>>

\* sendInput, when the editor closes: nothing to send, or text that is queued or written,
\* or a /go.  A running stage lets a /go through only for the first one of a queue run;
\* whether the process is still there is not looked at again.
SendInput(f) ==
  /\ flow[f].pc = "editor"
  /\ \/ UNCHANGED <<stage, tracking, control>>
     \/ /\ stage # "running" \/ runner.kind \in {"queue", "followup"}
        /\ stage' = "running"
        /\ tracking' = TRUE
        /\ control' = Synced(stage', queue, runner)
  /\ Finish(f)
  /\ UNCHANGED <<queue, runner, pending, followUps>>

\* submitGo, its awaits merged: /go is accepted, or the wait for it fails.
SubmitGo ==
  /\ stage = "awaiting_go" /\ Live
  /\ stage' \in {"running", "waiting"}
  /\ control' = Synced(stage', queue, runner)
  /\ UNCHANGED <<queue, tracking, runner, pending, flow, followUps>>

-----------------------------------------------------------------------------
(* The world outside, and the reload of the extension *)

TaktExits ==
  /\ \E code \in {"ok", "fail"} : ProcessExits(code)
  /\ UNCHANGED flow

\* enqueueTaskInProject and every other writer of tasks.yaml.
Enqueue ==
  /\ pending < MaxPending
  /\ pending' = pending + 1
  /\ UNCHANGED <<stage, queue, tracking, runner, control, flow, followUps>>

\* /reload while no call is in flight: the old runtime detaches, the new one starts
\* from nothing, attaches, restores the control state and refreshes.
Reload ==
  /\ \A f \in Flows : flow[f].pc = "idle"
  /\ queue' = RestoredQueue(ClearedQueue)
  /\ stage' = RestoredStage("idle")
  /\ tracking' = FALSE
  /\ runner' = [runner EXCEPT !.connected = runner.up,
                              !.lastExit = IF HasSession THEN @ ELSE "none"]
  /\ flow' = [flow EXCEPT !["tick"] =
                [Idle EXCEPT !.job = "tick", !.pc = "refresh", !.ret = "continue"]]
  /\ control' = SyncedByNewRuntime
  /\ UNCHANGED <<pending, followUps>>

-----------------------------------------------------------------------------

Init ==
  /\ stage = "idle"
  /\ queue = ClearedQueue
  /\ tracking = FALSE
  /\ runner = [session |-> "none", kind |-> "none", lastExit |-> "none",
               connected |-> FALSE, up |-> FALSE]
  /\ control = NoControl
  /\ pending \in 0..MaxPending
  /\ flow = [f \in Flows |-> Idle]
  /\ followUps = 0
  /\ overlapped = FALSE

Refreshing(f) ==
  \/ RefreshAttach(f) \/ ReadSummary(f) \/ ReadTaskList(f) \/ TaskListUnavailable(f)

Starting(f) ==
  \/ ResolveCatalog(f) \/ StatusCheckFails(f) \/ PassStartGate(f)
  \/ DisposeBeforeStart(f) \/ StartQueueRun(f) \/ StartQueueRunFails(f)

Calling(f) ==
  \/ CallRunPending(f) \/ CallTakeover(f) \/ CallExec(f) \/ CallClear(f) \/ CallStop(f)
  \/ CallRefresh(f) \/ CallInput(f)

TakingOver(f) ==
  \/ ConfirmStop(f) \/ StopRun(f) \/ StopInCleanup(f) \/ StopTimesOut(f)
  \/ DisposeInCleanup(f)
  \/ PassOperatorGate(f) \/ TakeOverForExec(f)
  \/ PassTakeoverGate(f) \/ DisposeForTakeover(f) \/ TakeoverRefreshFails(f)
  \/ PassTakeoverRegate(f)
  \/ StartClear(f) \/ StartClearFails(f) \/ ClearExits(f) \/ DisposeAfterClear(f)
  \/ DisposeForLaunch(f) \/ DisposeForStop(f) \/ FinishStop(f)
  \/ StartExecRun(f) \/ StartExecRunFails(f) \/ SubmitPrompt(f) \/ SendInput(f)

\* Between RunQueueContinuations and the end of its startPendingProject.
FollowUpInFlight == flow["tick"].job = "auto"

\* The calls that start, stop, clear or take over nothing.
Harmless == {"none", "view", "enqueue", "input"}
NoOverlap == FollowUpInFlight' => \A f \in Ops : flow'[f].job \in Harmless

Step ==
  \/ TickStarts \/ RunQueueContinuations
  \/ \E f \in Flows : Refreshing(f) \/ Starting(f)
  \/ \E f \in Ops : Calling(f) \/ TakingOver(f)
  \/ SubmitGo \/ TaktExits \/ Enqueue \/ Reload

Next == Step /\ overlapped' = (overlapped \/ ~NoOverlap)

Spec == Init /\ [][Next]_allVars

\* The interval keeps ticking, its awaits come back, by a time-out if nothing else, and
\* a task list that is read again and again can be read at times.
TickProceeds == RunQueueContinuations \/ Refreshing("tick") \/ Starting("tick")

Fairness ==
  WF_vars(TickStarts) /\ WF_vars(TickProceeds) /\ SF_vars(ReadTaskList("tick"))

FairSpec == Spec /\ Fairness

-----------------------------------------------------------------------------
(* Properties *)

\* A `takt run` of an automatic continuation is spawned in this step.
FollowUpStarts ==
  runner.session = "none" /\ runner'.session # "none" /\ runner'.kind = "followup"

\* A follow-up start has budget left, whatever interleaves with it: with the cap at
\* zero none is ever armed or attempted (armQueueContinuation, runQueueContinuations).
FollowUpHasBudget ==
  queue.armed \/ FollowUpInFlight => queue.count < MaxContinuations

\* queueContinuationInFlight is up only while runQueueContinuations awaits a start: it
\* is never left behind, which would disable the continuation for good.
InFlightIsOwned == queue.inFlight => FollowUpInFlight

\* At most MaxContinuations follow-up runs per start of the queue by the operator, until a
\* call overlaps with a follow-up start.
BudgetRespected == ~overlapped => followUps <= MaxContinuations

\* A follow-up run starts only for a queue session that is still on: a takeover ends it
\* so that it "cannot be raced by a follow-up" (docs/usage.md, "Queue auto-continue").
NoFollowUpAfterEnd == [][FollowUpStarts => queue.active]_vars

\* The operator makes no call but these, which leave a stage to the exit of the process,
\* and from some time on none at all.
PlainCalls == {"none", "run", "workflow", "resume", "enqueue", "view"}
LeftAlone ==
  /\ [](\A f \in Ops : flow[f].job \in PlainCalls)
  /\ <>[](\A f \in Ops : flow[f].pc = "idle")

\* A queue session whose run is over is decided: it ends, or its next run starts.
QueueSessionIsDecided ==
  LeftAlone => ((queue.active /\ ~Live) ~> (~queue.active \/ Live))

\* A project shown as running whose process is gone gets an outcome.
StageIsHealed ==
  LeftAlone => ((stage = "running" /\ ~Live) ~> (stage # "running" \/ Live))

\* While a run is live the broker never holds a queue session that the bridge has ended,
\* which a reload would bring back to life (the comment of clearQueueContinuation), until
\* a call overlaps with a follow-up start.
EndedIsNotRestored == ~overlapped /\ Live /\ control.active => queue.active

\* A reload while the broker holds a queue run keeps its session and its spent budget
\* (docs/architecture.md, "it survives an extension reload").
ReloadKeepsQueueSession ==
  [][Reload /\ Live => queue'.active = queue.active /\ queue'.count = queue.count]_vars
=============================================================================
