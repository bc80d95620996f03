------------------------ MODULE ProjectBridgeProofs ------------------------
(***************************************************************************)
(* Machine-checked proofs about ProjectBridge, for every set of operator   *)
(* calls, every cap and every bound on the pending tasks.  The inductive   *)
(* invariant IInv adds to the two properties what keeps them: a follow-up  *)
(* start is only ever run by the interval, and a broker that holds a count *)
(* of follow-up runs holds the one the bridge has, so that restoring it    *)
(* during a refresh cannot change the count under a start in flight.       *)
(* SerialInv and LiveInv do the same for what holds until a call overlaps  *)
(* with a follow-up start: that what the queue session has spent covers    *)
(* the runs that were started, and, with one call at a time, that the      *)
(* broker of a live run does not hold a session the bridge has ended.      *)
(***************************************************************************)
EXTENDS ProjectBridge, TLAPS

FlowsWellFormed ==
  \A f \in Flows :
    /\ flow[f].pc \in {"refresh", "summary", "tasklist"} => flow[f].ret # "none"
    /\ flow[f].pc = "idle" => flow[f].job = "none"
    /\ flow[f].job = "auto" => f = "tick"

FlowInv == flow \in [Flows -> Flow] /\ FlowsWellFormed

\* A controller r, a control state c the broker holds, and a queue session q.
BrokerHoldsBudget(r, c, q) ==
  /\ r \in Runner
  /\ c \in ControlState \cup {NoControl}
  /\ q \in QueueSession(0..MaxContinuations)
  /\ r.session # "none" => r.connected
  /\ r.connected => r.up
  /\ ~r.connected => c = NoControl
  /\ c # NoControl => c.count \in {NoCount, q.count}

BrokerInv == BrokerHoldsBudget(runner, control, queue)

ProjectInv ==
  stage \in Stages /\ tracking \in BOOLEAN /\ pending \in 0..MaxPending /\ followUps \in 0..(MaxContinuations + 1)

BudgetInv == FollowUpHasBudget /\ InFlightIsOwned

IInv == FlowInv /\ BrokerInv /\ ProjectInv /\ BudgetInv

-----------------------------------------------------------------------------
(* The constants, and the cleared values *)

LEMMA ConstantsOK ==
  MaxContinuations \in Nat /\ MaxPending \in Nat /\ "tick" \notin Ops
BY MaxContinuationsAssumption, MaxPendingAssumption, OpsAssumption

LEMMA ClearedQueueOK == ClearedQueue \in QueueSession(0..MaxContinuations)
BY ConstantsOK DEF ClearedQueue, QueueSession

-----------------------------------------------------------------------------
(* Steps of one call: what each helper does to the flows *)

\* A call that moves on, to an await that is not one of refreshProject's.
LEMMA GoToStep ==
  ASSUME FlowInv, NEW f \in Flows, NEW pc \in Awaits,
         pc # "idle", pc \in {"refresh", "summary", "tasklist"} => flow[f].ret # "none",
         GoTo(f, pc)
  PROVE  FlowInv' /\ \A g \in Flows : flow'[g].job = flow[g].job
BY DEF FlowInv, FlowsWellFormed, GoTo, Flow

\* A call that enters refreshProject.
LEMMA RefreshStep ==
  ASSUME FlowInv, NEW f \in Flows, NEW ret \in {"gate", "regate", "continue"}, Refresh(f, ret)
  PROVE  FlowInv' /\ \A g \in Flows : flow'[g].job = flow[g].job
BY DEF FlowInv, FlowsWellFormed, Refresh, Flow, Awaits

\* A call that returns or throws.
LEMMA FinishStep ==
  ASSUME FlowInv, NEW f \in Flows, Finish(f)
  PROVE  /\ FlowInv'
         /\ \A g \in Flows \ {f} : flow'[g].job = flow[g].job
         /\ flow'[f].job = "none"
BY DEF FlowInv, FlowsWellFormed, Finish, Flow, Awaits, Idle, Jobs, ExitCodes

\* A call that moves on and notes something in its flag.
LEMMA FlagStep ==
  ASSUME FlowInv, NEW f \in Flows, NEW pc \in Awaits, NEW flag \in BOOLEAN,
         pc \notin {"idle", "refresh", "summary", "tasklist"},
         flow' = [flow EXCEPT ![f].pc = pc, ![f].flag = flag]
  PROVE  FlowInv' /\ \A g \in Flows : flow'[g].job = flow[g].job
BY DEF FlowInv, FlowsWellFormed, Flow

\* An operator call that begins.
LEMMA CallStep ==
  ASSUME FlowInv, NEW f \in Flows, NEW job \in OperatorJobs, NEW pc \in Awaits,
         NEW ret \in {"none", "gate"}, pc # "idle",
         pc \in {"refresh", "summary", "tasklist"} => ret # "none",
         Call(f, job, pc, ret)
  PROVE  FlowInv' /\ \A g \in Flows \ {f} : flow'[g].job = flow[g].job
BY DEF FlowInv, FlowsWellFormed, Call, Idle, Flow, Jobs, OperatorJobs, ExitCodes

-----------------------------------------------------------------------------
(* What the helpers do to the broker *)

\* A sync leaves the broker with the queue session it is given.
LEMMA SyncedOK ==
  ASSUME NEW r, NEW q, BrokerHoldsBudget(r, control, q),
         NEW s \in Stages, NEW p \in QueueSession(0..MaxContinuations)
  PROVE  BrokerHoldsBudget(r, Synced(s, p, r), p)
BY DEF BrokerHoldsBudget, Synced, QueueSession, ControlState

\* The session may end or be revived as long as the spent budget stays.
LEMMA SameCountOK ==
  ASSUME NEW r, NEW c, NEW q, BrokerHoldsBudget(r, c, q),
         NEW p \in QueueSession(0..MaxContinuations), p.count = q.count
  PROVE  BrokerHoldsBudget(r, c, p)
BY DEF BrokerHoldsBudget

\* dispose() leaves a broker without a control state, so any queue session will do.
LEMMA DisposeOK ==
  ASSUME BrokerInv, ProjectInv, NEW code \in KillCodes, Dispose(code),
         queue' \in QueueSession(0..MaxContinuations)
  PROVE  BrokerInv' /\ followUps' = followUps /\ StageAfterDispose(code) \in Stages
<1>1. BrokerInv'
  BY DEF BrokerInv, BrokerHoldsBudget, Dispose, KillCodes, Live, Runner, ExitCodes
<1>2. StageAfterDispose(code) \in Stages
  BY DEF ProjectInv, StageAfterDispose, StageAfterExit, Stages, TerminalStages
<1> QED BY <1>1, <1>2 DEF Dispose

\* The process exits: the broker keeps the screen, and onExit sets the stage.
LEMMA ProcessExitsOK ==
  ASSUME BrokerInv, ProjectInv, NEW code \in {"ok", "fail"}, ProcessExits(code)
  PROVE  BrokerInv' /\ ProjectInv' /\ queue' = queue
<1> USE DEF ProcessExits
<1>1. stage' \in Stages
  BY DEF ProjectInv, StageAfterExit, Stages, TerminalStages
<1>2. BrokerHoldsBudget(runner', control, queue)
  BY DEF BrokerInv, BrokerHoldsBudget, Live, Runner, ExitCodes
<1>3. BrokerInv'
  <2>1. BrokerHoldsBudget(runner', Synced(stage', queue, runner'), queue)
    BY <1>1, <1>2, SyncedOK DEF BrokerHoldsBudget
  <2> QED BY <1>2, <2>1 DEF BrokerInv
<1> QED BY <1>1, <1>3 DEF ProjectInv

\* A process that is started, whether or not it is still there after the await.
LEMMA SpawnedOK ==
  ASSUME BrokerInv, NEW kind \in {"queue", "followup", "exec", "clear"},
         NEW r \in Spawned(kind)
  PROVE  BrokerHoldsBudget(r, control, queue)
BY DEF BrokerInv, BrokerHoldsBudget, Spawned, Started, Runner, ExitCodes

\* A start that throws.
LEMMA FailedStartsOK ==
  ASSUME BrokerInv, NEW f \in Flows, NEW r \in FailedStarts(f)
  PROVE  BrokerHoldsBudget(r, control, queue)
BY DEF BrokerInv, BrokerHoldsBudget, FailedStarts, Runner, ExitCodes

-----------------------------------------------------------------------------
(* Steps that leave the queue session alone or clear it *)

\* A step whose last act is to sync, or that changes nothing a sync would send.
LEMMA SyncStep ==
  ASSUME BrokerHoldsBudget(runner', control, queue), stage' \in Stages,
         queue' \in QueueSession(0..MaxContinuations),
         \/ control' = control /\ queue'.count = queue.count
         \/ control' = Synced(stage', queue', runner')
  PROVE  BrokerInv'
<1>1. CASE control' = control /\ queue'.count = queue.count
  BY <1>1, SameCountOK DEF BrokerInv
<1>2. CASE control' = Synced(stage', queue', runner')
  <2>1. BrokerHoldsBudget(runner', Synced(stage', queue', runner'), queue')
    BY SyncedOK
  <2> QED BY <1>2, <2>1 DEF BrokerInv
<1> QED BY <1>1, <1>2

\* The catch of a call, whatever session the controller r is left with.
LEMMA CleanupStep ==
  ASSUME FlowInv, NEW f \in Flows, NEW r, r = runner',
         BrokerHoldsBudget(runner', control, queue), stage \in Stages,
         queue' = queue, EnterCleanup(f, r)
  PROVE  /\ FlowInv' /\ \A g \in Flows : flow'[g].job = flow[g].job
         /\ BrokerInv' /\ stage' \in Stages
<1> DEFINE had == r.session # "none"
<1>1. FlowInv' /\ \A g \in Flows : flow'[g].job = flow[g].job
  <2>1. flow' = [flow EXCEPT ![f].pc = "abort", ![f].flag = had]
    BY DEF EnterCleanup
  <2>2. had \in BOOLEAN /\ "abort" \in Awaits
    BY DEF Awaits
  <2> HIDE DEF had
  <2> QED BY <2>1, <2>2, FlagStep
<1>2. stage' \in Stages
  BY DEF EnterCleanup, Stages
<1>3. control' = control \/ control' = Synced(stage', queue', runner')
  BY DEF EnterCleanup
<1>4. queue' \in QueueSession(0..MaxContinuations)
  BY DEF BrokerHoldsBudget
<1>5. BrokerInv'
  BY <1>2, <1>3, <1>4, SyncStep
<1> QED BY <1>1, <1>2, <1>5

\* What every step of an operator call comes down to for the budget.
OpStep ==
  /\ FlowInv' /\ BrokerInv' /\ ProjectInv'
  /\ flow'["tick"].job = flow["tick"].job
  /\ queue' \in {queue, ClearedQueue}

LEMMA OpStepOK == IInv /\ OpStep => IInv'
<1> SUFFICES ASSUME IInv, OpStep PROVE BudgetInv'
  BY DEF OpStep, IInv
<1>1. CASE queue' = queue
  BY <1>1 DEF OpStep, IInv, BudgetInv, FollowUpHasBudget, InFlightIsOwned, FollowUpInFlight
<1>2. CASE queue' = ClearedQueue
  <2>1. FollowUpInFlight => MaxContinuations > 0
    BY ConstantsOK DEF IInv, BudgetInv, FollowUpHasBudget, BrokerInv, BrokerHoldsBudget, QueueSession
  <2> QED BY <1>2, <2>1, ConstantsOK
          DEF OpStep, BudgetInv, FollowUpHasBudget, InFlightIsOwned, FollowUpInFlight, ClearedQueue
<1> QED BY <1>1, <1>2 DEF OpStep

\* A step of an operator's call is an OpStep when it keeps the flows in shape and ends
\* with a sync, or with nothing to sync.
LEMMA OpStepIntro ==
  ASSUME IInv, NEW f \in Ops,
         FlowInv' /\ \A g \in Flows \ {f} : flow'[g].job = flow[g].job,
         stage' \in Stages, tracking' \in BOOLEAN, pending' \in 0..MaxPending,
         followUps' \in 0..(MaxContinuations + 1), queue' \in {queue, ClearedQueue}, BrokerInv'
  PROVE  OpStep
<1>1. "tick" \in Flows \ {f}
  BY ConstantsOK DEF Flows
<1>2. flow'["tick"].job = flow["tick"].job
  BY <1>1
<1> QED BY <1>2 DEF OpStep, ProjectInv

-----------------------------------------------------------------------------
(* The initial states *)

LEMMA InitIInv == Init => IInv
<1> SUFFICES ASSUME Init PROVE IInv
  OBVIOUS
<1> USE ConstantsOK
<1>1. FlowInv
  BY DEF Init, FlowInv, FlowsWellFormed, Idle, Flow, Jobs, Awaits, ExitCodes
<1>2. BrokerInv
  BY ClearedQueueOK DEF Init, BrokerInv, BrokerHoldsBudget, Runner, ExitCodes, ClearedQueue, NoControl
<1>3. ProjectInv
  <2>1. followUps \in 0..(MaxContinuations + 1)
    BY ConstantsOK DEF Init
  <2>2. stage \in Stages
    BY DEF Init, Stages
  <2> QED BY <2>1, <2>2 DEF Init, ProjectInv
<1>4. BudgetInv
  <2>1. flow["tick"].job = "none" /\ ~queue.armed /\ ~queue.inFlight
    BY DEF Init, Idle, Flows, ClearedQueue
  <2> QED BY <2>1 DEF BudgetInv, FollowUpHasBudget, InFlightIsOwned, FollowUpInFlight
<1> QED BY <1>1, <1>2, <1>3, <1>4 DEF IInv

-----------------------------------------------------------------------------
(* The steps of the operator's calls *)

LEMMA OpIsFlow == \A f \in Ops : f \in Flows /\ f # "tick"
BY ConstantsOK DEF Flows

\* A step that moves one call on and does nothing else.
LEMMA OnlyFlowStep ==
  ASSUME IInv, NEW f \in Ops, FlowInv' /\ \A g \in Flows \ {f} : flow'[g].job = flow[g].job,
         UNCHANGED <<stage, queue, tracking, runner, control, pending, followUps>>
  PROVE  OpStep
<1>1. BrokerInv' /\ ProjectInv'
  BY DEF IInv, BrokerInv, ProjectInv
<1> QED BY <1>1, OpStepIntro DEF ProjectInv

LEMMA CallRunPendingStep == ASSUME IInv, NEW f \in Ops, CallRunPending(f) PROVE OpStep
<1>1. FlowInv' /\ \A g \in Flows \ {f} : flow'[g].job = flow[g].job
  BY OpIsFlow, CallStep DEF IInv, CallRunPending, OperatorJobs, Awaits
<1> QED BY <1>1, OnlyFlowStep DEF CallRunPending

LEMMA CallExecStep == ASSUME IInv, NEW f \in Ops, CallExec(f) PROVE OpStep
<1>1. FlowInv' /\ \A g \in Flows \ {f} : flow'[g].job = flow[g].job
  BY OpIsFlow, CallStep DEF IInv, CallExec, OperatorJobs, Awaits
<1> QED BY <1>1, OnlyFlowStep DEF CallExec

LEMMA CallClearStep == ASSUME IInv, NEW f \in Ops, CallClear(f) PROVE OpStep
<1>1. FlowInv' /\ \A g \in Flows \ {f} : flow'[g].job = flow[g].job
  BY OpIsFlow, CallStep DEF IInv, CallClear, OperatorJobs, Awaits
<1> QED BY <1>1, OnlyFlowStep DEF CallClear

LEMMA CallRefreshStep == ASSUME IInv, NEW f \in Ops, CallRefresh(f) PROVE OpStep
<1>1. FlowInv' /\ \A g \in Flows \ {f} : flow'[g].job = flow[g].job
  BY OpIsFlow, CallStep DEF IInv, CallRefresh, OperatorJobs, Awaits
<1> QED BY <1>1, OnlyFlowStep DEF CallRefresh

LEMMA CallInputStep == ASSUME IInv, NEW f \in Ops, CallInput(f) PROVE OpStep
<1>1. FlowInv' /\ \A g \in Flows \ {f} : flow'[g].job = flow[g].job
  BY OpIsFlow, CallStep DEF IInv, CallInput, OperatorJobs, Awaits
<1> QED BY <1>1, OnlyFlowStep DEF CallInput

LEMMA CallStopStep == ASSUME IInv, NEW f \in Ops, CallStop(f) PROVE OpStep
<1>1. FlowInv' /\ \A g \in Flows \ {f} : flow'[g].job = flow[g].job
  <2>1. CASE Live
    BY <2>1, OpIsFlow, CallStep DEF IInv, CallStop, OperatorJobs, Awaits
  <2>2. CASE ~Live
    BY <2>2, OpIsFlow, CallStep DEF IInv, CallStop, OperatorJobs, Awaits
  <2> QED BY <2>1, <2>2
<1> QED BY <1>1, OnlyFlowStep DEF CallStop

LEMMA CallTakeoverStep == ASSUME IInv, NEW f \in Ops, CallTakeover(f) PROVE OpStep
<1>1. FlowInv' /\ \A g \in Flows \ {f} : flow'[g].job = flow[g].job
  BY OpIsFlow, CallStep DEF IInv, CallTakeover, Takeovers, OperatorJobs, Awaits
<1>2. BrokerInv'
  BY SyncStep, ClearedQueueOK DEF IInv, BrokerInv, ProjectInv, CallTakeover, ClearQueue, Sync
<1> QED BY <1>1, <1>2, OpStepIntro DEF IInv, ProjectInv, CallTakeover, ClearQueue

LEMMA ConfirmStopStep == ASSUME IInv, NEW f \in Ops, ConfirmStop(f) PROVE OpStep
<1>1. CASE Finish(f) /\ UNCHANGED <<stage, queue, control>>
  BY <1>1, OpIsFlow, FinishStep, OnlyFlowStep DEF IInv, ConfirmStop
<1>2. CASE /\ ClearQueue /\ stage' = "stopping"
           /\ control' = Synced(stage', queue', runner)
           /\ GoTo(f, "stop")
  <2>1. FlowInv' /\ \A g \in Flows : flow'[g].job = flow[g].job
    BY <1>2, OpIsFlow, GoToStep DEF IInv, Awaits
  <2>2. stage' \in Stages
    BY <1>2 DEF Stages
  <2>3. BrokerInv'
    BY <1>2, <2>2, SyncStep, ClearedQueueOK DEF IInv, BrokerInv, ConfirmStop, ClearQueue
  <2> QED BY <1>2, <2>1, <2>2, <2>3, OpStepIntro DEF IInv, ProjectInv, ConfirmStop, ClearQueue
<1> QED BY <1>1, <1>2 DEF ConfirmStop

\* runner.stop() and waitForExit(), wherever the call goes on.
LEMMA StopAndWaitStep ==
  ASSUME IInv, NEW f \in Ops, NEW from, NEW to \in {"dispose", "undo"}, StopAndWait(f, from, to)
  PROVE  OpStep
<1>1. FlowInv' /\ \A g \in Flows : flow'[g].job = flow[g].job
  BY OpIsFlow, GoToStep DEF IInv, Awaits, StopAndWait
<1>2. CASE Live
  <2>1. PICK code \in {"ok", "fail"} : ProcessExits(code)
    BY <1>2 DEF StopAndWait
  <2>2. BrokerInv' /\ ProjectInv' /\ queue' = queue
    BY <2>1, ProcessExitsOK DEF IInv
  <2> QED BY <1>1, <2>2, OpStepIntro DEF ProjectInv
<1>3. CASE ~Live
  BY <1>1, <1>3, OnlyFlowStep DEF StopAndWait
<1> QED BY <1>2, <1>3

LEMMA StopTimesOutStep == ASSUME IInv, NEW f \in Ops, StopTimesOut(f) PROVE OpStep
<1> USE OpIsFlow
<1>1. BrokerHoldsBudget(runner', control, queue) /\ queue' = queue /\ pending' = pending /\ followUps' = followUps
  BY DEF StopTimesOut, IInv, BrokerInv
<1>2. CASE EnterCleanup(f, runner) /\ UNCHANGED tracking
  <2>1. /\ FlowInv' /\ \A g \in Flows : flow'[g].job = flow[g].job
        /\ BrokerInv' /\ stage' \in Stages
    BY <1>1, <1>2, CleanupStep DEF IInv, ProjectInv, StopTimesOut
  <2> QED BY <1>1, <1>2, <2>1, OpStepIntro DEF IInv, ProjectInv
<1>3. CASE Finish(f) /\ UNCHANGED <<stage, control, tracking>>
  BY <1>3, FinishStep, OnlyFlowStep DEF IInv, StopTimesOut
<1>4. CASE /\ stage' \in IF flow[f].job = "workflow" THEN {"failed", "stopped"} ELSE {"failed"}
           /\ control' = Synced(stage', queue, runner)
           /\ tracking' = (tracking /\ flow[f].job # "workflow")
           /\ Finish(f)
  <2>1. FlowInv' /\ \A g \in Flows \ {f} : flow'[g].job = flow[g].job
    BY <1>4, FinishStep DEF IInv
  <2>2. stage' \in Stages
    BY <1>4 DEF Stages, TerminalStages
  <2>3. BrokerInv'
    BY <1>1, <1>4, <2>2, SyncStep DEF IInv, BrokerInv, BrokerHoldsBudget, StopTimesOut
  <2>4. tracking' \in BOOLEAN
    BY <1>4 DEF IInv, ProjectInv
  <2> QED BY <1>1, <2>1, <2>2, <2>3, <2>4, OpStepIntro DEF IInv, ProjectInv
<1> QED BY <1>2, <1>3, <1>4 DEF StopTimesOut

LEMMA DisposeInCleanupStep == ASSUME IInv, NEW f \in Ops, DisposeInCleanup(f) PROVE OpStep
<1>1. FlowInv' /\ \A g \in Flows \ {f} : flow'[g].job = flow[g].job
  BY OpIsFlow, FinishStep DEF IInv, DisposeInCleanup
<1>2. PICK code \in KillCodes :
         /\ Dispose(code)
         /\ stage' \in IF \/ flow[f].job \in {"workflow", "resume"}
                          \/ flow[f].job = "prompt" /\ flow[f].flag
                         THEN {"failed", "stopped"} ELSE {StageAfterDispose(code)}
  BY DEF DisposeInCleanup
<1>3. BrokerInv' /\ followUps' = followUps /\ StageAfterDispose(code) \in Stages
  BY <1>2, DisposeOK DEF IInv, BrokerInv, BrokerHoldsBudget, DisposeInCleanup
<1>4. stage' \in Stages /\ tracking' \in BOOLEAN
  BY <1>2, <1>3 DEF Stages, TerminalStages, DisposeInCleanup, IInv, ProjectInv
<1> QED BY <1>1, <1>3, <1>4, OpStepIntro DEF IInv, ProjectInv, DisposeInCleanup

LEMMA PassOperatorGateStep == ASSUME IInv, NEW f \in Ops, PassOperatorGate(f) PROVE OpStep
<1> USE OpIsFlow
<1>1. CASE GoTo(f, "takeover")
  BY <1>1, GoToStep, OnlyFlowStep DEF IInv, Awaits, PassOperatorGate
<1>2. CASE GoTo(f, IF HasSession THEN "stop" ELSE "clear")
  <2>1. FlowInv' /\ \A g \in Flows : flow'[g].job = flow[g].job
    BY <1>2, GoToStep DEF IInv, Awaits
  <2> QED BY <2>1, OnlyFlowStep DEF PassOperatorGate
<1>3. CASE Finish(f)
  BY <1>3, FinishStep, OnlyFlowStep DEF IInv, PassOperatorGate
<1> QED BY <1>1, <1>2, <1>3 DEF PassOperatorGate

LEMMA TakeOverForExecStep == ASSUME IInv, NEW f \in Ops, TakeOverForExec(f) PROVE OpStep
<1>1. FlowInv' /\ \A g \in Flows : flow'[g].job = flow[g].job
  BY OpIsFlow, GoToStep DEF IInv, Awaits, TakeOverForExec
<1>2. BrokerInv'
  BY SyncStep, ClearedQueueOK DEF IInv, BrokerInv, ProjectInv, TakeOverForExec, ClearQueue, Sync
<1> QED BY <1>1, <1>2, OpStepIntro DEF IInv, ProjectInv, TakeOverForExec, ClearQueue

\* Cleaning up after a refusal or an error that changed nothing else.
LEMMA CleanupOpStep ==
  ASSUME IInv, NEW f \in Ops, EnterCleanup(f, runner),
         UNCHANGED <<queue, tracking, runner, pending, followUps>>
  PROVE  OpStep
<1>1. /\ FlowInv' /\ \A g \in Flows : flow'[g].job = flow[g].job
      /\ BrokerInv' /\ stage' \in Stages
  BY OpIsFlow, CleanupStep DEF IInv, BrokerInv, ProjectInv
<1> QED BY <1>1, OpStepIntro DEF IInv, ProjectInv

LEMMA PassTakeoverGateStep == ASSUME IInv, NEW f \in Ops, PassTakeoverGate(f) PROVE OpStep
<1> USE OpIsFlow
<1>1. UNCHANGED <<queue, tracking, runner, pending, followUps>>
  BY DEF PassTakeoverGate
<1>2. CASE EnterCleanup(f, runner)
  BY <1>1, <1>2, CleanupOpStep
<1>3. CASE Finish(f) /\ UNCHANGED <<stage, control>>
  BY <1>1, <1>3, FinishStep, OnlyFlowStep DEF IInv
<1> DEFINE shown == Live /\ flow[f].job # "resume"
<1>4. CASE /\ flow' = [flow EXCEPT ![f].pc = "stop", ![f].flag = shown]
           /\ stage' = IF shown THEN "stopping" ELSE stage
           /\ control' = IF shown THEN Synced(stage', queue, runner) ELSE control
  <2>1. FlowInv' /\ \A g \in Flows : flow'[g].job = flow[g].job
    <3>1. shown \in BOOLEAN /\ "stop" \in Awaits
      BY DEF Awaits
    <3> HIDE DEF shown
    <3> QED BY <1>4, <3>1, FlagStep DEF IInv
  <2>2. stage' \in Stages
    BY <1>4 DEF Stages, IInv, ProjectInv
  <2>3. BrokerInv'
    BY <1>1, <1>4, <2>2, SyncStep DEF IInv, BrokerInv, BrokerHoldsBudget
  <2> QED BY <1>1, <2>1, <2>2, <2>3, OpStepIntro DEF IInv, ProjectInv
<1> QED BY <1>2, <1>3, <1>4 DEF PassTakeoverGate

\* beginExecTracking: the queue session is cleared and the call goes on to start().
LEMMA BeginExecStep ==
  ASSUME FlowInv, NEW f \in Ops, BeginExec(f)
  PROVE  /\ FlowInv' /\ \A g \in Flows : flow'[g].job = flow[g].job
         /\ stage' \in Stages /\ tracking' \in BOOLEAN /\ queue' = ClearedQueue
<1>1. FlowInv' /\ \A g \in Flows : flow'[g].job = flow[g].job
  BY OpIsFlow, GoToStep DEF BeginExec, Awaits
<1> QED BY <1>1 DEF BeginExec, ClearQueue, Stages

LEMMA DisposeForTakeoverStep == ASSUME IInv, NEW f \in Ops, DisposeForTakeover(f) PROVE OpStep
<1> USE OpIsFlow
<1>1. PICK code \in KillCodes :
        /\ Dispose(code)
        /\ IF flow[f].job = "resume" THEN BeginExec(f)
           ELSE /\ stage' = IF flow[f].job = "prompt" /\ flow[f].flag THEN "stopped"
                            ELSE StageAfterDispose(code)
                /\ tracking' = (tracking /\ ~Live)
                /\ Refresh(f, "regate")
                /\ UNCHANGED queue
  BY DEF DisposeForTakeover
<1>2. queue' \in {queue, ClearedQueue}
  BY <1>1 DEF BeginExec, ClearQueue
<1>3. BrokerInv' /\ followUps' = followUps /\ StageAfterDispose(code) \in Stages
  BY <1>1, <1>2, ClearedQueueOK, DisposeOK DEF IInv, BrokerInv, BrokerHoldsBudget
<1>4. /\ FlowInv' /\ \A g \in Flows : flow'[g].job = flow[g].job
      /\ stage' \in Stages /\ tracking' \in BOOLEAN
  <2>1. CASE flow[f].job = "resume"
    BY <1>1, <2>1, BeginExecStep DEF IInv
  <2>2. CASE flow[f].job # "resume"
    <3>1. FlowInv' /\ \A g \in Flows : flow'[g].job = flow[g].job
      BY <1>1, <2>2, RefreshStep DEF IInv
    <3>2. stage' \in Stages /\ tracking' \in BOOLEAN
      BY <1>1, <1>3, <2>2 DEF Stages, TerminalStages, IInv, ProjectInv
    <3> QED BY <3>1, <3>2
  <2> QED BY <2>1, <2>2
<1> QED BY <1>2, <1>3, <1>4, OpStepIntro DEF IInv, ProjectInv, DisposeForTakeover

LEMMA PassTakeoverRegateStep == ASSUME IInv, NEW f \in Ops, PassTakeoverRegate(f) PROVE OpStep
<1> USE OpIsFlow
<1>1. UNCHANGED <<runner, pending, followUps>>
  BY DEF PassTakeoverRegate
<1>2. CASE EnterCleanup(f, runner) /\ UNCHANGED <<queue, tracking>>
  BY <1>1, <1>2, CleanupOpStep
<1>3. CASE /\ stage' = "clearing"
           /\ control' = Synced(stage', queue, runner)
           /\ GoTo(f, "clear")
           /\ UNCHANGED <<queue, tracking>>
  <2>1. FlowInv' /\ \A g \in Flows : flow'[g].job = flow[g].job
    BY <1>3, GoToStep DEF IInv, Awaits
  <2>2. stage' \in Stages
    BY <1>3 DEF Stages
  <2>3. BrokerInv'
    BY <1>1, <1>3, <2>2, SyncStep DEF IInv, BrokerInv, BrokerHoldsBudget
  <2> QED BY <1>1, <1>3, <2>1, <2>2, <2>3, OpStepIntro DEF IInv, ProjectInv
<1>4. CASE BeginExec(f) /\ control' = Synced(stage', queue', runner)
  <2>1. /\ FlowInv' /\ \A g \in Flows : flow'[g].job = flow[g].job
        /\ stage' \in Stages /\ tracking' \in BOOLEAN /\ queue' = ClearedQueue
    BY <1>4, BeginExecStep DEF IInv
  <2>2. BrokerInv'
    BY <1>1, <1>4, <2>1, ClearedQueueOK, SyncStep DEF IInv, BrokerInv
  <2> QED BY <1>1, <2>1, <2>2, OpStepIntro DEF IInv, ProjectInv
<1> QED BY <1>2, <1>3, <1>4 DEF PassTakeoverRegate

LEMMA ClearingSteps ==
  ASSUME IInv, NEW f \in Ops, StartClear(f) \/ StartClearFails(f) \/ ClearExits(f)
  PROVE  OpStep
<1> USE OpIsFlow
<1>1. CASE StartClear(f)
  <2>1. FlowInv' /\ \A g \in Flows : flow'[g].job = flow[g].job
    BY <1>1, GoToStep DEF IInv, Awaits, StartClear
  <2>2. BrokerHoldsBudget(runner', control, queue)
    BY <1>1, SpawnedOK DEF StartClear, Spawned, IInv
  <2>3. BrokerInv'
    BY <1>1, <2>2 DEF StartClear, BrokerInv
  <2> QED BY <1>1, <2>1, <2>3, OpStepIntro DEF IInv, ProjectInv, StartClear
<1>2. CASE StartClearFails(f)
  <2>1. BrokerHoldsBudget(runner', control, queue)
    BY <1>2, FailedStartsOK DEF StartClearFails, IInv
  <2>2. /\ FlowInv' /\ \A g \in Flows : flow'[g].job = flow[g].job
        /\ BrokerInv' /\ stage' \in Stages
    BY <1>2, <2>1, CleanupStep DEF IInv, ProjectInv, StartClearFails
  <2> QED BY <1>2, <2>2, OpStepIntro DEF IInv, ProjectInv, StartClearFails
<1>3. CASE ClearExits(f)
  <2>1. CASE GoTo(f, "unclear") /\ UNCHANGED <<stage, control>>
    BY <1>3, <2>1, GoToStep, OnlyFlowStep DEF IInv, Awaits, ClearExits
  <2>2. CASE EnterCleanup(f, runner)
    BY <1>3, <2>2, CleanupOpStep DEF ClearExits
  <2> QED BY <1>3, <2>1, <2>2 DEF ClearExits
<1> QED BY <1>1, <1>2, <1>3

LEMMA DisposeAfterClearStep == ASSUME IInv, NEW f \in Ops, DisposeAfterClear(f) PROVE OpStep
<1> USE OpIsFlow
<1>1. PICK code \in KillCodes :
        /\ Dispose(code)
        /\ IF flow[f].job = "prompt" THEN BeginExec(f)
           ELSE /\ stage' = StageAfterDispose(code)
                /\ tracking' = (tracking /\ ~Live)
                /\ Finish(f)
                /\ UNCHANGED queue
  BY DEF DisposeAfterClear
<1>2. queue' \in {queue, ClearedQueue}
  BY <1>1 DEF BeginExec, ClearQueue
<1>3. BrokerInv' /\ followUps' = followUps /\ StageAfterDispose(code) \in Stages
  BY <1>1, <1>2, ClearedQueueOK, DisposeOK DEF IInv, BrokerInv, BrokerHoldsBudget
<1>4. /\ FlowInv' /\ \A g \in Flows \ {f} : flow'[g].job = flow[g].job
      /\ stage' \in Stages /\ tracking' \in BOOLEAN
  <2>1. CASE flow[f].job = "prompt"
    BY <1>1, <2>1, BeginExecStep DEF IInv
  <2>2. CASE flow[f].job # "prompt"
    <3>1. FlowInv' /\ \A g \in Flows \ {f} : flow'[g].job = flow[g].job
      BY <1>1, <2>2, FinishStep DEF IInv
    <3>2. stage' \in Stages /\ tracking' \in BOOLEAN
      BY <1>1, <1>3, <2>2 DEF IInv, ProjectInv
    <3> QED BY <3>1, <3>2
  <2> QED BY <2>1, <2>2
<1> QED BY <1>2, <1>3, <1>4, OpStepIntro DEF IInv, ProjectInv, DisposeAfterClear

LEMMA DisposeForLaunchStep == ASSUME IInv, NEW f \in Ops, DisposeForLaunch(f) PROVE OpStep
<1> USE OpIsFlow
<1>1. FlowInv' /\ \A g \in Flows : flow'[g].job = flow[g].job
  <2> DEFINE to == IF flow[f].job = "exec" THEN "start" ELSE "clear"
  <2>1. to \in Awaits /\ to \in {"start", "clear"} /\ GoTo(f, to)
    BY DEF Awaits, DisposeForLaunch
  <2> HIDE DEF to
  <2> QED BY <2>1, GoToStep DEF IInv
<1>2. PICK code \in KillCodes : Dispose(code) /\ stage' = StageAfterDispose(code)
  BY DEF DisposeForLaunch
<1>3. BrokerInv' /\ followUps' = followUps /\ stage' \in Stages
  BY <1>2, DisposeOK DEF IInv, BrokerInv, BrokerHoldsBudget, DisposeForLaunch
<1>4. tracking' \in BOOLEAN
  BY DEF DisposeForLaunch, IInv, ProjectInv
<1> QED BY <1>1, <1>3, <1>4, OpStepIntro DEF IInv, ProjectInv, DisposeForLaunch

LEMMA DisposeForStopStep == ASSUME IInv, NEW f \in Ops, DisposeForStop(f) PROVE OpStep
<1> USE OpIsFlow
<1>1. PICK code \in KillCodes :
        /\ Dispose(code)
        /\ \/ stage' = "stopped" /\ Finish(f)
           \/ stage' = StageAfterDispose(code) /\ Refresh(f, "regate")
  BY DEF DisposeForStop
<1>2. queue' = ClearedQueue
  BY DEF DisposeForStop, ClearQueue
<1>3. BrokerInv' /\ followUps' = followUps /\ StageAfterDispose(code) \in Stages
  BY <1>1, <1>2, ClearedQueueOK, DisposeOK DEF IInv
<1>4. FlowInv' /\ \A g \in Flows \ {f} : flow'[g].job = flow[g].job
  BY <1>1, FinishStep, RefreshStep DEF IInv
<1>5. stage' \in Stages /\ tracking' \in BOOLEAN
  BY <1>1, <1>3 DEF Stages, TerminalStages, DisposeForStop
<1> QED BY <1>2, <1>3, <1>4, <1>5, OpStepIntro DEF IInv, ProjectInv, DisposeForStop

LEMMA FinishStopStep == ASSUME IInv, NEW f \in Ops, FinishStop(f) PROVE OpStep
<1>1. FlowInv' /\ \A g \in Flows \ {f} : flow'[g].job = flow[g].job
  BY OpIsFlow, FinishStep DEF IInv, FinishStop
<1>2. stage' \in Stages
  BY DEF FinishStop, Stages, TerminalStages
<1>3. BrokerInv'
  BY <1>2, SyncStep DEF IInv, BrokerInv, BrokerHoldsBudget, FinishStop
<1> QED BY <1>1, <1>2, <1>3, OpStepIntro DEF IInv, ProjectInv, FinishStop

LEMMA TakeoverRefreshFailsStep ==
  ASSUME IInv, NEW f \in Ops, TakeoverRefreshFails(f) PROVE OpStep
BY CleanupOpStep DEF TakeoverRefreshFails

LEMMA StartExecRunStep == ASSUME IInv, NEW f \in Ops, StartExecRun(f) PROVE OpStep
<1> USE OpIsFlow
<1>1. FlowInv' /\ \A g \in Flows \ {f} : flow'[g].job = flow[g].job
  <2>1. CASE flow[f].job \in {"prompt", "resume"}
    BY <2>1, GoToStep DEF IInv, Awaits, StartExecRun
  <2>2. CASE flow[f].job \notin {"prompt", "resume"}
    BY <2>2, FinishStep DEF IInv, StartExecRun
  <2> QED BY <2>1, <2>2
<1>2. stage' \in Stages
  <2>1. StageAfterExit(stage, runner'.lastExit) \in Stages
    BY DEF StageAfterExit, Stages, TerminalStages, IInv, ProjectInv
  <2> QED BY <2>1 DEF StartExecRun, Stages, IInv, ProjectInv
<1>3. BrokerHoldsBudget(runner', control, queue)
  BY SpawnedOK DEF IInv, StartExecRun
<1>4. BrokerInv'
  BY <1>2, <1>3, SyncStep DEF StartExecRun, BrokerHoldsBudget
<1>5. tracking' \in BOOLEAN
  BY DEF StartExecRun, IInv, ProjectInv
<1> QED BY <1>1, <1>2, <1>4, <1>5, OpStepIntro DEF IInv, ProjectInv, StartExecRun

LEMMA StartExecRunFailsStep == ASSUME IInv, NEW f \in Ops, StartExecRunFails(f) PROVE OpStep
<1> USE OpIsFlow
<1>1. BrokerHoldsBudget(runner', control, queue)
  BY FailedStartsOK DEF StartExecRunFails, IInv
<1>2. CASE flow[f].job = "exec"
  <2>1. FlowInv' /\ \A g \in Flows \ {f} : flow'[g].job = flow[g].job
    BY <1>2, FinishStep DEF IInv, StartExecRunFails
  <2>2. BrokerInv'
    BY <1>1, <1>2 DEF BrokerInv, StartExecRunFails
  <2> QED BY <1>2, <2>1, <2>2, OpStepIntro DEF IInv, ProjectInv, StartExecRunFails
<1>3. CASE flow[f].job # "exec"
  <2>1. /\ FlowInv' /\ \A g \in Flows : flow'[g].job = flow[g].job
        /\ BrokerInv' /\ stage' \in Stages
    BY <1>1, <1>3, CleanupStep DEF IInv, ProjectInv, StartExecRunFails
  <2> QED BY <2>1, OpStepIntro DEF IInv, ProjectInv, StartExecRunFails
<1> QED BY <1>2, <1>3

LEMMA SubmitPromptStep == ASSUME IInv, NEW f \in Ops, SubmitPrompt(f) PROVE OpStep
<1> USE OpIsFlow
<1>1. UNCHANGED <<queue, tracking, runner, pending, followUps>>
  BY DEF SubmitPrompt
<1>2. CASE EnterCleanup(f, runner)
  BY <1>1, <1>2, CleanupOpStep
<1>3. CASE /\ stage' \in {"running"} \cup
                         (IF flow[f].job = "prompt" THEN {"awaiting_go"} ELSE {})
           /\ control' = Synced(stage', queue, runner)
           /\ Finish(f)
  <2>1. FlowInv' /\ \A g \in Flows \ {f} : flow'[g].job = flow[g].job
    BY <1>3, FinishStep DEF IInv
  <2>2. stage' \in Stages
    BY <1>3 DEF Stages
  <2>3. BrokerInv'
    BY <1>1, <1>3, <2>2, SyncStep DEF IInv, BrokerInv, BrokerHoldsBudget
  <2> QED BY <1>1, <2>1, <2>2, <2>3, OpStepIntro DEF IInv, ProjectInv
<1> QED BY <1>2, <1>3 DEF SubmitPrompt

LEMMA SendInputStep == ASSUME IInv, NEW f \in Ops, SendInput(f) PROVE OpStep
<1>1. FlowInv' /\ \A g \in Flows \ {f} : flow'[g].job = flow[g].job
  BY OpIsFlow, FinishStep DEF IInv, SendInput
<1>2. stage' \in Stages /\ tracking' \in BOOLEAN
  BY DEF SendInput, Stages, IInv, ProjectInv
<1>3. BrokerInv'
  <2>1. CASE UNCHANGED <<stage, tracking, control>>
    BY <2>1 DEF IInv, BrokerInv, SendInput
  <2>2. CASE control' = Synced(stage', queue, runner)
    BY <2>2, <1>2, SyncStep DEF IInv, BrokerInv, BrokerHoldsBudget, SendInput
  <2> QED BY <2>1, <2>2 DEF SendInput
<1> QED BY <1>1, <1>2, <1>3, OpStepIntro DEF IInv, ProjectInv, SendInput

\* Every step of an operator's call.
LEMMA OperatorSteps == ASSUME IInv, NEW f \in Ops, Calling(f) \/ TakingOver(f) PROVE OpStep
<1>1. CASE Calling(f)
  BY <1>1, CallRunPendingStep, CallTakeoverStep, CallExecStep, CallClearStep, CallStopStep,
     CallRefreshStep, CallInputStep
     DEF Calling
<1>2. CASE \/ ConfirmStop(f) \/ StopRun(f) \/ StopInCleanup(f) \/ StopTimesOut(f)
           \/ DisposeInCleanup(f)
  BY <1>2, ConfirmStopStep, StopAndWaitStep, StopTimesOutStep, DisposeInCleanupStep
     DEF StopRun, StopInCleanup
<1>3. CASE \/ PassOperatorGate(f) \/ TakeOverForExec(f) \/ PassTakeoverGate(f)
           \/ DisposeForTakeover(f) \/ TakeoverRefreshFails(f) \/ PassTakeoverRegate(f)
  BY <1>3, PassOperatorGateStep, TakeOverForExecStep, PassTakeoverGateStep,
     DisposeForTakeoverStep, TakeoverRefreshFailsStep, PassTakeoverRegateStep
<1>4. CASE StartClear(f) \/ StartClearFails(f) \/ ClearExits(f) \/ DisposeAfterClear(f)
  BY <1>4, ClearingSteps, DisposeAfterClearStep
<1>5. CASE \/ DisposeForLaunch(f) \/ DisposeForStop(f) \/ FinishStop(f)
           \/ StartExecRun(f) \/ StartExecRunFails(f) \/ SubmitPrompt(f) \/ SendInput(f)
  BY <1>5, DisposeForLaunchStep, DisposeForStopStep, FinishStopStep, StartExecRunStep,
     StartExecRunFailsStep, SubmitPromptStep, SendInputStep
<1> QED BY <1>1, <1>2, <1>3, <1>4, <1>5 DEF TakingOver

-----------------------------------------------------------------------------
(* refreshProject, whichever call it is part of *)

\* The budget survives a step that arms only with budget left, keeps the count or
\* clears it, and leaves a follow-up start in flight where it is.
LEMMA BudgetStep ==
  ASSUME IInv, queue' \in QueueSession(0..MaxContinuations),
         flow'["tick"].job = flow["tick"].job,
         queue'.inFlight => queue.inFlight,
         queue'.armed => queue'.count < MaxContinuations,
         queue'.count \in {queue.count, 0}
  PROVE  BudgetInv'
<1>1. queue.count \in Nat /\ (FollowUpInFlight => MaxContinuations > 0)
  BY ConstantsOK DEF IInv, BudgetInv, FollowUpHasBudget, BrokerInv, BrokerHoldsBudget, QueueSession
<1> QED BY <1>1, ConstantsOK
        DEF IInv, BudgetInv, FollowUpHasBudget, InFlightIsOwned, FollowUpInFlight

\* What the policy does to a queue session: it arms only below the cap, and changes the
\* count only by clearing the session of a drained queue.
LEMMA DecisionOK ==
  ASSUME NEW q \in QueueSession(0..MaxContinuations), NEW running, NEW exit, NEW s, NEW n,
         NEW reason, reason = DecideQueueContinuation(q, running, exit, s, n, MaxContinuations),
         NEW p, p = AfterDecision(q, reason)
  PROVE  /\ p \in QueueSession(0..MaxContinuations)
         /\ p.inFlight => q.inFlight
         /\ p.armed => q.armed \/ q.count < MaxContinuations
         /\ p.count = q.count \/ (reason = "no-pending-tasks" /\ p = ClearedQueue)
<1>1. CASE reason = "pending-tasks-remain"
  <2>1. q.count < MaxContinuations
    BY <1>1, ConstantsOK DEF DecideQueueContinuation, BudgetLeft, QueueSession
  <2>2. p = [q EXCEPT !.armed = TRUE]
    BY <1>1 DEF AfterDecision, EndingReasons
  <2> QED BY <2>1, <2>2 DEF QueueSession
<1>2. CASE reason = "no-pending-tasks"
  <2>1. p = ClearedQueue
    BY <1>2 DEF AfterDecision
  <2>2. p \in QueueSession(0..MaxContinuations)
    BY <2>1, ClearedQueueOK
  <2>3. ~p.inFlight /\ ~p.armed
    BY <2>1 DEF ClearedQueue
  <2> QED BY <1>2, <2>1, <2>2, <2>3
<1>3. CASE reason \in EndingReasons \ {"no-pending-tasks"}
  <2>1. p = [q EXCEPT !.active = FALSE, !.armed = FALSE]
    BY <1>3 DEF AfterDecision, EndingReasons
  <2> QED BY <2>1 DEF QueueSession
<1>4. CASE reason \notin EndingReasons \cup {"pending-tasks-remain"}
  <2>1. p = q
    BY <1>4 DEF AfterDecision, EndingReasons
  <2> QED BY <2>1 DEF QueueSession
<1> QED BY <1>1, <1>2, <1>3, <1>4

LEMMA ExecOutcomesOK == ProjectInv => ExecOutcomes \subseteq Stages
BY DEF ProjectInv, ExecOutcomes, Stages, TerminalStages

\* refreshProject returns to its caller.
LEMMA ReturnStep ==
  ASSUME FlowInv, NEW f \in Flows, flow[f].pc \in {"summary", "tasklist"}, GoTo(f, flow[f].ret)
  PROVE  FlowInv' /\ flow'["tick"].job = flow["tick"].job
<1>1. flow[f].ret \in {"gate", "regate", "continue"}
  BY DEF FlowInv, FlowsWellFormed, Flow
<1>2. flow[f].ret \in Awaits
  BY <1>1 DEF Awaits
<1>3. "tick" \in Flows
  BY DEF Flows
<1> QED BY <1>1, <1>2, <1>3, GoToStep

LEMMA ArmQueueContinuationStep ==
  ASSUME IInv, NEW f \in Flows, flow[f].pc \in {"summary", "tasklist"}, NEW count,
         ArmQueueContinuation(f, count)
  PROVE  IInv'
<1> DEFINE reason == DecideQueueContinuation(queue, Live, flow[f].exit, stage', count,
                                             MaxContinuations)
<1>1. FlowInv' /\ flow'["tick"].job = flow["tick"].job
  BY ReturnStep DEF IInv, ArmQueueContinuation
<1>2. stage' \in Stages /\ tracking' \in BOOLEAN
  BY ExecOutcomesOK DEF IInv, ProjectInv, ArmQueueContinuation
<1>4. ProjectInv'
  BY <1>2 DEF IInv, ProjectInv, ArmQueueContinuation
<1>5. queue' = AfterDecision(queue, reason)
  BY DEF ArmQueueContinuation
<1>6. control' = IF stage' # stage \/ reason = "no-pending-tasks"
                   THEN Synced(stage', queue', runner) ELSE control
  BY DEF ArmQueueContinuation
<1>7. queue \in QueueSession(0..MaxContinuations)
  BY DEF IInv, BrokerInv, BrokerHoldsBudget
<1>8. /\ queue' \in QueueSession(0..MaxContinuations)
      /\ queue'.inFlight => queue.inFlight
      /\ queue'.armed => queue.armed \/ queue.count < MaxContinuations
      /\ queue'.count = queue.count \/ (reason = "no-pending-tasks" /\ queue' = ClearedQueue)
  BY <1>5, <1>7, DecisionOK
<1> HIDE DEF reason
<1>9. BrokerInv'
  <2>1. runner' = runner
    BY DEF ArmQueueContinuation
  <2> QED BY <1>2, <1>6, <1>8, <2>1, SyncStep DEF IInv, BrokerInv
<1>10. BudgetInv'
  <2>1. queue.armed => queue.count < MaxContinuations
    BY DEF IInv, BudgetInv, FollowUpHasBudget
  <2>2. queue'.armed => queue'.count < MaxContinuations
    BY <1>8, <2>1 DEF ClearedQueue
  <2>3. queue'.count \in {queue.count, 0}
    BY <1>8 DEF ClearedQueue
  <2> QED BY <1>1, <1>8, <2>2, <2>3, BudgetStep
<1> QED BY <1>1, <1>4, <1>9, <1>10 DEF IInv

\* reconcile hands refreshProject the exit code it decides with.
LEMMA ReconcileStep ==
  ASSUME FlowInv, NEW f \in Flows, flow[f].pc = "refresh", NEW x \in ExitCodes,
         flow' = [flow EXCEPT ![f].pc = "summary", ![f].exit = x]
  PROVE  FlowInv' /\ \A g \in Flows : flow'[g].job = flow[g].job
<1>1. flow' \in [Flows -> Flow] /\ \A g \in Flows : flow'[g].job = flow[g].job
  BY DEF FlowInv, Flow, Awaits
<1>2. \A g \in Flows : flow'[g].ret = flow[g].ret
  BY DEF FlowInv, Flow
<1>3. flow'[f].pc = "summary" /\ \A g \in Flows \ {f} : flow'[g].pc = flow[g].pc
  BY DEF FlowInv, Flow
<1>4. FlowsWellFormed'
  BY <1>1, <1>2, <1>3 DEF FlowInv, FlowsWellFormed
<1> QED BY <1>1, <1>4 DEF FlowInv

LEMMA RefreshAttachStep == ASSUME IInv, NEW f \in Flows, RefreshAttach(f) PROVE IInv'
<1>1. FlowInv' /\ flow'["tick"].job = flow["tick"].job
  <2>1. runner'.lastExit \in ExitCodes
    BY DEF RefreshAttach, Attached, IInv, BrokerInv, BrokerHoldsBudget, Runner, ExitCodes
  <2>2. "tick" \in Flows
    BY DEF Flows
  <2>3. flow' = [flow EXCEPT ![f].pc = "summary", ![f].exit = runner'.lastExit]
    BY DEF RefreshAttach
  <2> QED BY <2>1, <2>2, <2>3, ReconcileStep DEF IInv, RefreshAttach
<1> DEFINE restored == IF Attaches THEN RestoredStage(stage) ELSE stage
<1>2. stage' \in Stages
  <2>1. restored \in Stages
    BY DEF IInv, BrokerInv, BrokerHoldsBudget, ControlState, RestoredStage, ProjectInv
  <2>2. stage' = ReconciledStage(restored, runner')
    BY DEF RefreshAttach
  <2> HIDE DEF restored
  <2> QED BY <2>1, <2>2 DEF ReconciledStage, Stages, TerminalStages
<1>3. /\ queue' \in QueueSession(0..MaxContinuations)
      /\ queue'.count = queue.count /\ queue'.armed = queue.armed
      /\ queue'.inFlight = queue.inFlight
  BY DEF RefreshAttach, RestoredQueue, IInv, BrokerInv, BrokerHoldsBudget, QueueSession, ControlState
<1>4. BrokerInv'
  <2>1. BrokerHoldsBudget(runner', control, queue)
    BY DEF RefreshAttach, Attached, Attaches, HasSession, IInv, BrokerInv, BrokerHoldsBudget,
           Runner, ExitCodes
  <2>2. CASE control' = SyncedByRestore(queue)
    <3>1. BrokerHoldsBudget(runner', SyncedByRestore(queue), queue)
      BY <2>1 DEF BrokerHoldsBudget, SyncedByRestore, ControlState, QueueSession, NoControl, NoCount
    <3> QED BY <1>3, <2>2, <3>1, SameCountOK DEF BrokerInv
  <2>3. CASE control' \in {control, Synced(stage', queue', runner')}
    BY <1>2, <1>3, <2>1, <2>3, SyncStep
  <2> QED BY <2>2, <2>3 DEF RefreshAttach
<1>5. ProjectInv'
  BY <1>2 DEF RefreshAttach, IInv, ProjectInv
<1>6. BudgetInv'
  BY <1>1, <1>3, BudgetStep DEF IInv, BudgetInv, FollowUpHasBudget
<1> QED BY <1>1, <1>4, <1>5, <1>6 DEF IInv

LEMMA RefreshingStep == ASSUME IInv, NEW f \in Flows, Refreshing(f) PROVE IInv'
<1>1. CASE RefreshAttach(f)
  BY <1>1, RefreshAttachStep
<1>2. CASE ReadTaskList(f)
  BY <1>2, ArmQueueContinuationStep DEF ReadTaskList
<1>3. CASE ReadSummary(f)
  <2>1. CASE \E n \in {0, pending} : ArmQueueContinuation(f, n)
    BY <1>3, <2>1, ArmQueueContinuationStep DEF ReadSummary
  <2>2. CASE /\ GoTo(f, "tasklist")
             /\ UNCHANGED <<stage, queue, tracking, runner, control, pending, followUps>>
    <3>1. flow[f].ret # "none"
      BY <1>3 DEF ReadSummary, IInv, FlowInv, FlowsWellFormed
    <3>2. "tick" \in Flows
      BY DEF Flows
    <3>3. FlowInv' /\ flow'["tick"].job = flow["tick"].job
      BY <2>2, <3>1, <3>2, GoToStep DEF IInv, Awaits
    <3>4. BrokerInv' /\ ProjectInv'
      BY <2>2 DEF IInv, BrokerInv, ProjectInv
    <3>5. BudgetInv'
      BY <2>2, <3>3 DEF IInv, BudgetInv, FollowUpHasBudget, InFlightIsOwned, FollowUpInFlight
    <3> QED BY <3>3, <3>4, <3>5 DEF IInv
  <2> QED BY <1>3, <2>1, <2>2 DEF ReadSummary
<1>4. CASE TaskListUnavailable(f)
  <2>1. FlowInv' /\ flow'["tick"].job = flow["tick"].job
    BY <1>4, ReturnStep DEF IInv, TaskListUnavailable
  <2>2. stage' \in Stages /\ tracking' \in BOOLEAN
    BY <1>4, ExecOutcomesOK DEF IInv, ProjectInv, TaskListUnavailable
  <2>3. BrokerInv'
    BY <1>4, <2>2, SyncStep DEF IInv, BrokerInv, BrokerHoldsBudget, TaskListUnavailable
  <2>4. ProjectInv'
    BY <1>4, <2>2 DEF IInv, ProjectInv, TaskListUnavailable
  <2>5. BudgetInv'
    BY <1>4, <2>1 DEF IInv, BudgetInv, FollowUpHasBudget, InFlightIsOwned, FollowUpInFlight,
       TaskListUnavailable
  <2> QED BY <2>1, <2>3, <2>4, <2>5 DEF IInv
<1> QED BY <1>1, <1>2, <1>3, <1>4 DEF Refreshing

-----------------------------------------------------------------------------
(* startPendingProject, for the operator and for a follow-up *)

LEMMA BudgetUnchanged ==
  ASSUME IInv, queue' = queue, \A g \in Flows : flow'[g].job = flow[g].job
  PROVE  BudgetInv'
<1>1. "tick" \in Flows
  BY DEF Flows
<1> QED BY <1>1 DEF IInv, BudgetInv, FollowUpHasBudget, InFlightIsOwned, FollowUpInFlight

\* A start that throws: a follow-up releases its claim as it ends.
LEMMA StartThrowsStep ==
  ASSUME IInv, NEW f \in Flows, StartThrows(f, queue)
  PROVE  /\ FlowInv' /\ BudgetInv'
         /\ queue' \in QueueSession(0..MaxContinuations) /\ queue'.count = queue.count
<1>1. FlowInv' /\ flow'[f].job = "none" /\ \A g \in Flows \ {f} : flow'[g].job = flow[g].job
  BY FinishStep DEF IInv, StartThrows
<1>2. queue \in QueueSession(0..MaxContinuations)
  BY DEF IInv, BrokerInv, BrokerHoldsBudget
<1>3. /\ queue' \in QueueSession(0..MaxContinuations) /\ queue'.count = queue.count
      /\ queue'.armed = queue.armed
      /\ flow[f].job = "auto" => ~queue'.inFlight
      /\ flow[f].job # "auto" => queue' = queue
  BY <1>2 DEF StartThrows, QueueSession
<1>4. flow[f].job = "auto" => f = "tick"
  BY DEF IInv, FlowInv, FlowsWellFormed
<1>5. "tick" \in Flows
  BY DEF Flows
<1>6. BudgetInv'
  BY <1>1, <1>3, <1>4, <1>5
     DEF IInv, BudgetInv, FollowUpHasBudget, InFlightIsOwned, FollowUpInFlight
<1> QED BY <1>1, <1>3, <1>6

\* A start that throws before it has changed anything else.
LEMMA EarlyThrowStep ==
  ASSUME IInv, NEW f \in Flows, StartThrows(f, queue),
         UNCHANGED <<stage, tracking, runner, control, pending, followUps>>
  PROVE  IInv'
<1>1. BrokerInv'
  BY StartThrowsStep, SameCountOK DEF IInv, BrokerInv
<1>2. ProjectInv'
  BY DEF IInv, ProjectInv
<1> QED BY <1>1, <1>2, StartThrowsStep DEF IInv

LEMMA ResolveCatalogStep == ASSUME IInv, NEW f \in Flows, ResolveCatalog(f) PROVE IInv'
<1>1. CASE Refresh(f, "gate") /\ UNCHANGED queue
  <2>1. FlowInv' /\ \A g \in Flows : flow'[g].job = flow[g].job
    BY <1>1, RefreshStep DEF IInv
  <2>2. BrokerInv' /\ ProjectInv'
    BY <1>1 DEF IInv, BrokerInv, ProjectInv, ResolveCatalog
  <2> QED BY <1>1, <2>1, <2>2, BudgetUnchanged DEF IInv
<1>2. CASE StartThrows(f, queue)
  BY <1>2, EarlyThrowStep DEF ResolveCatalog
<1> QED BY <1>1, <1>2 DEF ResolveCatalog

LEMMA PassStartGateStep == ASSUME IInv, NEW f \in Flows, PassStartGate(f) PROVE IInv'
<1> DEFINE replaces == flow[f].job = "auto" \/ queue.active
           to == IF HasSession THEN "dispose" ELSE "start"
<1>1. CASE StartThrows(f, queue) /\ UNCHANGED <<stage, control>>
  BY <1>1, EarlyThrowStep DEF PassStartGate
<1>2. CASE /\ flow' = [flow EXCEPT ![f].pc = to, ![f].flag = replaces]
           /\ stage' = IF HasSession THEN stage ELSE "starting"
           /\ control' = IF HasSession THEN control ELSE Synced(stage', queue, runner)
           /\ UNCHANGED queue
  <2>1. FlowInv' /\ \A g \in Flows : flow'[g].job = flow[g].job
    <3>1. to \in {"dispose", "start"} /\ to \in Awaits
      BY DEF Awaits
    <3>2. replaces \in BOOLEAN
      BY DEF IInv, BrokerInv, BrokerHoldsBudget, QueueSession
    <3> HIDE DEF replaces, to
    <3> QED BY <1>2, <3>1, <3>2, FlagStep DEF IInv
  <2>2. stage' \in Stages
    BY <1>2 DEF IInv, ProjectInv, Stages
  <2>3. BrokerInv'
    BY <1>2, <2>2, SyncStep DEF IInv, BrokerInv, BrokerHoldsBudget, PassStartGate
  <2>4. ProjectInv'
    BY <2>2 DEF IInv, ProjectInv, PassStartGate
  <2> QED BY <1>2, <2>1, <2>3, <2>4, BudgetUnchanged DEF IInv
<1> QED BY <1>1, <1>2 DEF PassStartGate

LEMMA DisposeBeforeStartStep == ASSUME IInv, NEW f \in Flows, DisposeBeforeStart(f) PROVE IInv'
<1>1. FlowInv' /\ \A g \in Flows : flow'[g].job = flow[g].job
  BY GoToStep DEF IInv, Awaits, DisposeBeforeStart
<1>2. PICK code \in KillCodes : Dispose(code)
  BY DEF DisposeBeforeStart
<1>3. queue' = queue
  BY DEF DisposeBeforeStart
<1>4. BrokerInv' /\ followUps' = followUps
  BY <1>2, <1>3, DisposeOK DEF IInv, BrokerInv, BrokerHoldsBudget
<1>5. ProjectInv'
  BY <1>4 DEF DisposeBeforeStart, IInv, ProjectInv, Stages
<1> QED BY <1>1, <1>3, <1>4, <1>5, BudgetUnchanged DEF IInv

\* A start of the queue: the operator's resets the spent budget, a follow-up's spends one
\* more of a budget that FollowUpHasBudget says is not spent.
LEMMA StartQueueRunStep == ASSUME IInv, NEW f \in Flows, StartQueueRun(f) PROVE IInv'
<1> DEFINE auto == flow[f].job = "auto"
<1>1. FlowInv' /\ flow'[f].job = "none" /\ \A g \in Flows \ {f} : flow'[g].job = flow[g].job
  BY FinishStep DEF IInv, StartQueueRun
<1>2. auto => f = "tick"
  BY DEF IInv, FlowInv, FlowsWellFormed
<1>3. queue.count \in 0..MaxContinuations /\ followUps \in 0..(MaxContinuations + 1)
  BY DEF IInv, BrokerInv, BrokerHoldsBudget, QueueSession, ProjectInv
<1>4. FollowUpInFlight => queue.count < MaxContinuations
  BY DEF IInv, BudgetInv, FollowUpHasBudget
<1>5. queue' = [active |-> TRUE, armed |-> FALSE, inFlight |-> FALSE,
                count |-> IF auto THEN queue.count + 1 ELSE 0]
  BY DEF StartQueueRun, SpentCount
<1>6. queue' \in QueueSession(0..MaxContinuations)
  <2>1. auto => queue.count < MaxContinuations
    BY <1>2, <1>4 DEF FollowUpInFlight
  <2>2. (IF auto THEN queue.count + 1 ELSE 0) \in 0..MaxContinuations
    BY <1>3, <2>1, ConstantsOK
  <2> HIDE DEF auto
  <2> QED BY <1>5, <2>2 DEF QueueSession
<1>7. stage' \in Stages /\ stage' = "running"
  BY DEF StartQueueRun, Stages
<1>8. BrokerInv'
  <2>1. runner' \in Spawned("followup") \cup Spawned("queue")
    BY DEF StartQueueRun
  <2>2. BrokerHoldsBudget(runner', control, queue)
    BY <2>1, SpawnedOK DEF IInv
  <2>3. control' = Synced(stage', queue', runner')
    BY DEF StartQueueRun, Sync
  <2> QED BY <1>6, <1>7, <2>2, <2>3, SyncStep
<1>9. followUps' \in 0..(MaxContinuations + 1)
  <2>1. followUps' = IF ~auto THEN 0
                     ELSE IF followUps > MaxContinuations THEN followUps ELSE followUps + 1
    BY DEF StartQueueRun
  <2> QED BY <1>3, <2>1, ConstantsOK
<1>10. ProjectInv'
  BY <1>7, <1>9, ConstantsOK DEF StartQueueRun, IInv, ProjectInv
<1>11. BudgetInv'
  <2>1. "tick" \in Flows
    BY DEF Flows
  <2>2. ~queue'.armed /\ ~queue'.inFlight
    BY <1>5
  <2>3. ~FollowUpInFlight' \/ (FollowUpInFlight /\ f # "tick")
    BY <1>1, <2>1 DEF FollowUpInFlight
  <2>4. FollowUpInFlight' => queue'.count < MaxContinuations
    <3> SUFFICES ASSUME FollowUpInFlight, f # "tick" PROVE queue'.count < MaxContinuations
      BY <2>3
    <3>1. ~auto
      BY <1>2
    <3>2. queue'.count = 0
      BY <1>5, <3>1
    <3> QED BY <1>3, <1>4, <3>2, ConstantsOK
  <2> QED BY <2>2, <2>4 DEF BudgetInv, FollowUpHasBudget, InFlightIsOwned
<1> QED BY <1>1, <1>8, <1>10, <1>11 DEF IInv

LEMMA StartQueueRunFailsStep == ASSUME IInv, NEW f \in Flows, StartQueueRunFails(f) PROVE IInv'
<1>1. /\ FlowInv' /\ BudgetInv'
      /\ queue' \in QueueSession(0..MaxContinuations) /\ queue'.count = queue.count
  BY StartThrowsStep DEF StartQueueRunFails
<1>2. BrokerHoldsBudget(runner', control, queue)
  BY FailedStartsOK DEF StartQueueRunFails, IInv
<1>3. stage' \in Stages
  BY DEF StartQueueRunFails, IInv, ProjectInv, Stages, TerminalStages
<1>4. BrokerInv'
  <2>1. CASE control' = control
    BY <1>1, <1>2, <1>3, <2>1, SyncStep
  <2>2. CASE control' = Synced(stage', queue, runner')
    <3>1. BrokerHoldsBudget(runner', control', queue)
      BY <1>2, <1>3, <2>2, SyncedOK DEF BrokerHoldsBudget
    <3> QED BY <1>1, <3>1, SameCountOK DEF BrokerInv
  <2> QED BY <2>1, <2>2 DEF StartQueueRunFails
<1>5. ProjectInv'
  BY <1>3 DEF StartQueueRunFails, IInv, ProjectInv
<1> QED BY <1>1, <1>4, <1>5 DEF IInv

LEMMA StartingStep == ASSUME IInv, NEW f \in Flows, Starting(f) PROVE IInv'
<1>1. CASE StatusCheckFails(f)
  BY <1>1, EarlyThrowStep DEF StatusCheckFails
<1> QED BY <1>1, ResolveCatalogStep, PassStartGateStep, DisposeBeforeStartStep,
           StartQueueRunStep, StartQueueRunFailsStep DEF Starting

-----------------------------------------------------------------------------
(* The interval, the world outside, and the reload *)

LEMMA TickStartsStep == ASSUME IInv, TickStarts PROVE IInv'
<1>1. FlowInv' /\ flow'["tick"].job = "tick" /\ flow["tick"].job = "none"
  BY DEF IInv, FlowInv, FlowsWellFormed, TickStarts, Flows, Idle, Flow, Jobs, Awaits, ExitCodes
<1>2. BrokerInv' /\ ProjectInv'
  BY DEF IInv, BrokerInv, ProjectInv, TickStarts
<1>3. BudgetInv'
  BY <1>1 DEF IInv, BudgetInv, FollowUpHasBudget, InFlightIsOwned, FollowUpInFlight, TickStarts
<1> QED BY <1>1, <1>2, <1>3 DEF IInv

\* The one step that raises queueContinuationInFlight makes the interval its owner.
LEMMA RunQueueContinuationsStep == ASSUME IInv, RunQueueContinuations PROVE IInv'
<1>1. "tick" \in Flows
  BY DEF Flows
<1>2. queue \in QueueSession(0..MaxContinuations)
  BY DEF IInv, BrokerInv, BrokerHoldsBudget
<1>3. ProjectInv'
  BY DEF IInv, ProjectInv, RunQueueContinuations
<1>4. ~queue.inFlight
  BY DEF RunQueueContinuations, At, IInv, BudgetInv, InFlightIsOwned, FollowUpInFlight
<1>5. CASE Finish("tick") /\ queue' \in {queue, [queue EXCEPT !.armed = FALSE]}
  <2>1. FlowInv' /\ flow'["tick"].job = "none"
    BY <1>1, <1>5, FinishStep DEF IInv
  <2>2. /\ queue' \in QueueSession(0..MaxContinuations) /\ queue'.count = queue.count
        /\ queue'.inFlight = queue.inFlight
        /\ queue'.armed => queue.armed
    BY <1>2, <1>5 DEF QueueSession
  <2>3. BrokerInv'
    BY <2>2, SameCountOK DEF IInv, BrokerInv, RunQueueContinuations
  <2>4. BudgetInv'
    BY <1>4, <2>1, <2>2 DEF IInv, BudgetInv, FollowUpHasBudget, InFlightIsOwned, FollowUpInFlight
  <2> QED BY <1>3, <2>1, <2>3, <2>4 DEF IInv
<1>6. CASE /\ queue.armed
           /\ queue' = [queue EXCEPT !.armed = FALSE, !.inFlight = TRUE]
           /\ flow' = [flow EXCEPT !["tick"].job = "auto", !["tick"].pc = "catalog"]
  <2>1. FlowInv' /\ flow'["tick"].job = "auto"
    <3>1. FlowInv
      BY DEF IInv
    <3>2. flow["tick"] \in Flow
      BY <1>1, <3>1 DEF FlowInv
    <3>3. "auto" \in Jobs /\ "catalog" \in Awaits
      BY DEF Jobs, Awaits
    <3>4. /\ flow'["tick"] = [flow["tick"] EXCEPT !.job = "auto", !.pc = "catalog"]
          /\ \A g \in Flows \ {"tick"} : flow'[g] = flow[g]
      BY <1>1, <1>6, <3>1 DEF FlowInv
    <3>5. /\ flow'["tick"] \in Flow
          /\ flow'["tick"].job = "auto" /\ flow'["tick"].pc = "catalog"
      BY <3>2, <3>3, <3>4 DEF Flow
    <3>6. flow' \in [Flows -> Flow]
      BY <1>1, <1>6, <3>1, <3>5 DEF FlowInv
    <3>7. FlowsWellFormed'
      BY <1>1, <3>1, <3>4, <3>5 DEF FlowInv, FlowsWellFormed
    <3> QED BY <3>5, <3>6, <3>7 DEF FlowInv
  <2>2. queue' \in QueueSession(0..MaxContinuations) /\ queue'.count = queue.count
    BY <1>2, <1>6 DEF QueueSession
  <2>3. BrokerInv'
    BY <2>2, SameCountOK DEF IInv, BrokerInv, RunQueueContinuations
  <2>4. BudgetInv'
    BY <1>6, <2>1, <2>2 DEF IInv, BudgetInv, FollowUpHasBudget, InFlightIsOwned, FollowUpInFlight
  <2> QED BY <1>3, <2>1, <2>3, <2>4 DEF IInv
<1> QED BY <1>5, <1>6 DEF RunQueueContinuations

LEMMA WorldSteps == ASSUME IInv, SubmitGo \/ TaktExits \/ Enqueue PROVE IInv'
<1>1. CASE SubmitGo
  <2>1. stage' \in Stages
    BY <1>1 DEF SubmitGo, Stages
  <2>2. BrokerInv'
    BY <1>1, <2>1, SyncStep DEF SubmitGo, IInv, BrokerInv, BrokerHoldsBudget
  <2>3. FlowInv' /\ ProjectInv'
    BY <1>1, <2>1 DEF SubmitGo, IInv, FlowInv, FlowsWellFormed, ProjectInv
  <2>4. BudgetInv'
    BY <1>1, BudgetUnchanged DEF SubmitGo
  <2> QED BY <2>2, <2>3, <2>4 DEF IInv
<1>2. CASE TaktExits
  <2>1. PICK code \in {"ok", "fail"} : ProcessExits(code)
    BY <1>2 DEF TaktExits
  <2>2. BrokerInv' /\ ProjectInv' /\ queue' = queue
    BY <2>1, ProcessExitsOK DEF IInv
  <2>3. FlowInv'
    BY <1>2 DEF TaktExits, IInv, FlowInv, FlowsWellFormed
  <2>4. BudgetInv'
    BY <1>2, <2>2, BudgetUnchanged DEF TaktExits
  <2> QED BY <2>2, <2>3, <2>4 DEF IInv
<1>3. CASE Enqueue
  <2>1. ProjectInv'
    BY <1>3, ConstantsOK DEF Enqueue, IInv, ProjectInv
  <2>2. FlowInv' /\ BrokerInv'
    BY <1>3 DEF Enqueue, IInv, FlowInv, FlowsWellFormed, BrokerInv
  <2>3. BudgetInv'
    BY <1>3, BudgetUnchanged DEF Enqueue
  <2> QED BY <2>1, <2>2, <2>3 DEF IInv
<1> QED BY <1>1, <1>2, <1>3

\* A reload restores the budget the broker holds, and no start is in flight.
LEMMA ReloadStep == ASSUME IInv, Reload PROVE IInv'
<1>1. FlowInv'
  BY DEF IInv, FlowInv, FlowsWellFormed, Reload, Flows, Idle, Flow, Jobs, Awaits, ExitCodes
<1>2. /\ queue' \in QueueSession(0..MaxContinuations)
      /\ ~queue'.armed /\ ~queue'.inFlight
  BY ClearedQueueOK
     DEF Reload, RestoredQueue, ClearedQueue, QueueSession, ControlState, IInv, BrokerInv,
         BrokerHoldsBudget
<1>3. BrokerInv'
  <2>1. runner' \in Runner /\ runner'.connected = runner.up /\ runner'.session = runner.session
        /\ runner'.up = runner.up
    BY DEF Reload, IInv, BrokerInv, BrokerHoldsBudget, Runner, ExitCodes
  <2>2. control' \in ControlState \cup {NoControl} /\ (control' # NoControl => control'.count = NoCount)
        /\ (control = NoControl => control' = NoControl)
    BY DEF Reload, SyncedByNewRuntime, IInv, BrokerInv, BrokerHoldsBudget, ControlState, NoControl
  <2> QED BY <1>2, <2>1, <2>2 DEF Reload, IInv, BrokerInv, BrokerHoldsBudget
<1>4. stage' \in Stages
  BY DEF Reload, RestoredStage, IInv, BrokerInv, BrokerHoldsBudget, ControlState, Stages
<1>5. ProjectInv'
  BY <1>4 DEF Reload, IInv, ProjectInv
<1>6. BudgetInv'
  <2>1. flow'["tick"].job = "tick"
    BY DEF Reload, IInv, FlowInv, Flows, Idle
  <2> QED BY <1>2, <2>1 DEF BudgetInv, FollowUpHasBudget, InFlightIsOwned, FollowUpInFlight
<1> QED BY <1>1, <1>3, <1>5, <1>6 DEF IInv

-----------------------------------------------------------------------------
(* The theorems *)

LEMMA StepIInv == IInv /\ [Step]_vars => IInv'
<1> SUFFICES ASSUME IInv, [Step]_vars PROVE IInv'
  OBVIOUS
<1>1. CASE TickStarts \/ RunQueueContinuations
  BY <1>1, TickStartsStep, RunQueueContinuationsStep
<1>2. CASE \E f \in Flows : Refreshing(f) \/ Starting(f)
  BY <1>2, RefreshingStep, StartingStep
<1>3. CASE \E f \in Ops : Calling(f) \/ TakingOver(f)
  BY <1>3, OperatorSteps, OpStepOK
<1>4. CASE SubmitGo \/ TaktExits \/ Enqueue
  BY <1>4, WorldSteps
<1>5. CASE Reload
  BY <1>5, ReloadStep
<1>6. CASE UNCHANGED vars
  BY <1>6 DEF vars, IInv, FlowInv, FlowsWellFormed, BrokerInv, ProjectInv, BudgetInv,
     FollowUpHasBudget, InFlightIsOwned, FollowUpInFlight
<1> QED BY <1>1, <1>2, <1>3, <1>4, <1>5, <1>6 DEF Step

\* The inductive invariant holds in every state the bridge can reach.
THEOREM Invariance == Spec => []IInv
<1>1. IInv /\ [Next]_allVars => IInv'
  <2>1. [Next]_allVars => [Step]_vars
    BY DEF allVars, Next
  <2> QED BY <2>1, StepIInv
<1> QED BY <1>1, InitIInv, PTL DEF Spec

\* Every state is well typed: stages, queue session, broker, control state and calls.
THEOREM TypeCorrectness == Spec => []TypeOK
<1>1. IInv /\ overlapped \in BOOLEAN => TypeOK
  BY DEF IInv, FlowInv, BrokerInv, BrokerHoldsBudget, ProjectInv, TypeOK
<1>2. Init => overlapped \in BOOLEAN
  BY DEF Init
<1>3. overlapped \in BOOLEAN /\ [Next]_allVars => (overlapped \in BOOLEAN)'
  BY DEF allVars, Next
<1> QED BY <1>1, <1>2, <1>3, Invariance, PTL DEF Spec

\* Whatever calls interleave with it, an armed or starting follow-up of
\* armQueueContinuation and runQueueContinuations has budget left.
THEOREM BudgetTheorem == Spec => []FollowUpHasBudget
<1>1. IInv => FollowUpHasBudget
  BY DEF IInv, BudgetInv
<1> QED BY <1>1, Invariance, PTL

\* queueContinuationInFlight is only up while runQueueContinuations awaits a start.
THEOREM InFlightTheorem == Spec => []InFlightIsOwned
<1>1. IInv => InFlightIsOwned
  BY DEF IInv, BudgetInv
<1> QED BY <1>1, Invariance, PTL

-----------------------------------------------------------------------------
(* While no call has overlapped with a follow-up start: no session, no follow-up *)

\* The bridge has a queue session, or a refresh may still restore one from the broker.
Holding == queue.active \/ control.active

\* What BudgetRespected asks of the count.
WithinCap == followUps <= MaxContinuations

\* A follow-up start has its session, its claim and no rival; whatever can be continued has
\* spent what was started.
SerialInv ==
  /\ FollowUpInFlight => queue.active /\ queue.inFlight /\ \A f \in Ops : flow[f].job \in Harmless
  /\ (Holding \/ FollowUpInFlight) => followUps <= queue.count
  /\ control.count = NoCount => ~control.active
  /\ WithinCap

\* A step under which the session goes on, or stops without being over for good.
Keeps ==
  /\ queue'.count = queue.count
  /\ queue'.armed => queue.armed
  /\ FollowUpInFlight' => /\ FollowUpInFlight /\ queue'.inFlight = queue.inFlight
                          /\ queue.active => queue'.active
  /\ Holding' => Holding
  /\ control'.count = NoCount => ~control'.active
  /\ followUps' = followUps

\* A step that ends it, in the bridge and in the broker.
Ends ==
  /\ queue' = ClearedQueue /\ ~control'.active
  /\ followUps' = followUps
  /\ ~FollowUpInFlight'

LEMMA KeepsSerial == ASSUME IInv, SerialInv, Keeps, NoOverlap PROVE SerialInv'
BY DEF SerialInv, Keeps, NoOverlap, WithinCap

LEMMA EndsSerial == ASSUME IInv, SerialInv, Ends PROVE SerialInv'
<1>1. ~queue'.active /\ ~queue'.armed /\ ~Holding'
  BY DEF Ends, ClearedQueue, Holding
<1> QED BY <1>1 DEF SerialInv, Ends, WithinCap

\* What one step of an operator's call does to the session: it leaves it alone, or ends it
\* in a call that must not overlap with a follow-up start.
OpKeeps ==
  /\ queue' = queue /\ followUps' = followUps
  /\ control'.active => Holding
  /\ control'.count = NoCount => ~control'.active

OpEnds(f) ==
  /\ queue' = ClearedQueue /\ ~control'.active
  /\ followUps' = followUps
  /\ flow[f].job \notin Harmless \/ flow'[f].job \notin Harmless

OpEffect(f) == ~FollowUpStarts /\ (OpKeeps \/ OpEnds(f))

\* A step that syncs the queue session it leaves alone, or does not sync.
LEMMA SyncKeeps ==
  ASSUME IInv, SerialInv, queue' = queue, followUps' = followUps,
         NEW s, NEW r, control' \in {control, NoControl, Synced(s, queue, r)}
  PROVE  OpKeeps
<1>1. queue.count # NoCount
  BY ConstantsOK DEF IInv, BrokerInv, BrokerHoldsBudget, QueueSession, NoCount
<1> QED BY <1>1 DEF OpKeeps, Holding, SerialInv, Synced, NoControl

LEMMA CleanupKeeps ==
  ASSUME IInv, SerialInv, NEW f, NEW r, queue' = queue, followUps' = followUps, EnterCleanup(f, r)
  PROVE  OpKeeps
<1>1. control' \in {control, NoControl, Synced(stage', queue, r)}
  BY DEF EnterCleanup
<1> QED BY <1>1, SyncKeeps

\* A cleared queue session is synced, or the broker holds none.
LEMMA SyncEnds ==
  ASSUME IInv, NEW s, NEW r, r.connected <=> runner.connected,
         control' \in {NoControl, Synced(s, ClearedQueue, r)}
  PROVE  ~control'.active
BY DEF IInv, BrokerInv, BrokerHoldsBudget, Synced, ClearedQueue, NoControl

LEMMA CallingEffect == ASSUME IInv, SerialInv, NEW f \in Ops, Calling(f) PROVE OpEffect(f)
<1>1. ~FollowUpStarts
  BY DEF Calling, CallRunPending, CallTakeover, CallExec, CallClear, CallStop, CallRefresh,
         CallInput, FollowUpStarts
<1>2. CASE CallTakeover(f)
  <2>1. ~control'.active
    BY <1>2, SyncEnds DEF CallTakeover, Sync, ClearQueue
  <2>2. flow'[f].job \notin Harmless
    BY <1>2, OpIsFlow DEF CallTakeover, Call, Takeovers, Harmless, IInv, FlowInv, Idle
  <2> QED BY <1>1, <1>2, <2>1, <2>2 DEF OpEffect, OpEnds, CallTakeover, ClearQueue
<1>3. CASE ~CallTakeover(f)
  <2>1. queue' = queue /\ followUps' = followUps /\ control' = control
    BY <1>3 DEF Calling, CallRunPending, CallExec, CallClear, CallStop, CallRefresh, CallInput
  <2> QED BY <1>1, <2>1, SyncKeeps DEF OpEffect
<1> QED BY <1>2, <1>3

LEMMA StoppingEffect ==
  ASSUME IInv, SerialInv, NEW f \in Ops,
         ConfirmStop(f) \/ StopRun(f) \/ StopInCleanup(f) \/ StopTimesOut(f) \/ DisposeInCleanup(f)
  PROVE  OpEffect(f)
<1>1. CASE ConfirmStop(f)
  <2>1. ~FollowUpStarts
    BY <1>1 DEF ConfirmStop, FollowUpStarts
  <2>2. CASE UNCHANGED <<stage, queue, control, followUps>>
    BY <2>1, <2>2, SyncKeeps DEF OpEffect
  <2>3. CASE /\ ClearQueue /\ followUps' = followUps
             /\ control' = Synced(stage', queue', runner)
    <3>1. ~control'.active
      BY <2>3, SyncEnds DEF ClearQueue
    <3>2. flow[f].job \notin Harmless
      BY <1>1 DEF ConfirmStop, At, Harmless
    <3> QED BY <2>1, <2>3, <3>1, <3>2 DEF OpEffect, OpEnds, ClearQueue
  <2> QED BY <1>1, <2>2, <2>3 DEF ConfirmStop
<1>2. CASE StopRun(f) \/ StopInCleanup(f)
  <2>1. ~FollowUpStarts /\ queue' = queue /\ followUps' = followUps
    BY <1>2 DEF StopRun, StopInCleanup, StopAndWait, ProcessExits, Live, FollowUpStarts
  <2>2. control' \in {control, Synced(stage', queue, runner')}
    BY <1>2 DEF StopRun, StopInCleanup, StopAndWait, ProcessExits
  <2> QED BY <2>1, <2>2, SyncKeeps DEF OpEffect
<1>3. CASE StopTimesOut(f)
  <2>1. ~FollowUpStarts /\ queue' = queue /\ followUps' = followUps
    BY <1>3 DEF StopTimesOut, FollowUpStarts
  <2>2. control' \in {control, Synced(stage', queue, runner)}
    BY <1>3 DEF StopTimesOut, EnterCleanup
  <2> QED BY <2>1, <2>2, SyncKeeps DEF OpEffect
<1>4. CASE DisposeInCleanup(f)
  <2>1. ~FollowUpStarts /\ queue' = queue /\ followUps' = followUps /\ control' \in {control, NoControl}
    BY <1>4 DEF DisposeInCleanup, Dispose, FollowUpStarts, IInv, BrokerInv, BrokerHoldsBudget, Runner
  <2> QED BY <2>1, SyncKeeps DEF OpEffect
<1> QED BY <1>1, <1>2, <1>3, <1>4

\* dispose() frees the PTY and leaves the broker without a control state.
LEMMA DisposeEffect ==
  ASSUME IInv, NEW code, Dispose(code)
  PROVE  ~FollowUpStarts /\ followUps' = followUps /\ control' = NoControl
BY DEF Dispose, FollowUpStarts, IInv, BrokerInv, BrokerHoldsBudget, Runner

LEMMA DisposingEffect ==
  ASSUME IInv, SerialInv, NEW f \in Ops,
         \/ DisposeForTakeover(f) \/ DisposeAfterClear(f) \/ DisposeForLaunch(f)
         \/ DisposeForStop(f)
  PROVE  OpEffect(f)
<1>1. PICK code \in KillCodes : Dispose(code)
  BY DEF DisposeForTakeover, DisposeAfterClear, DisposeForLaunch, DisposeForStop
<1>2. ~FollowUpStarts /\ followUps' = followUps /\ control' = NoControl
  BY <1>1, DisposeEffect
<1>3. ~NoControl.active
  BY DEF NoControl
<1>4. queue' = queue \/ (queue' = ClearedQueue /\ flow[f].job \notin Harmless)
  BY DEF DisposeForTakeover, DisposeAfterClear, DisposeForLaunch, DisposeForStop, BeginExec,
         ClearQueue, At, Harmless
<1>5. CASE queue' = queue
  BY <1>2, <1>5, SyncKeeps DEF OpEffect
<1>6. CASE queue' = ClearedQueue /\ flow[f].job \notin Harmless
  BY <1>2, <1>3, <1>6 DEF OpEffect, OpEnds
<1> QED BY <1>4, <1>5, <1>6

LEMMA GateEffect ==
  ASSUME IInv, SerialInv, NEW f \in Ops,
         \/ PassOperatorGate(f) \/ TakeOverForExec(f) \/ PassTakeoverGate(f)
         \/ TakeoverRefreshFails(f) \/ PassTakeoverRegate(f)
  PROVE  OpEffect(f)
<1>1. ~FollowUpStarts
  BY DEF PassOperatorGate, TakeOverForExec, PassTakeoverGate, TakeoverRefreshFails,
         PassTakeoverRegate, FollowUpStarts
<1>2. CASE PassOperatorGate(f)
  BY <1>1, <1>2, SyncKeeps DEF PassOperatorGate, OpEffect
<1>3. CASE TakeOverForExec(f)
  <2>1. ~control'.active
    BY <1>3, SyncEnds DEF TakeOverForExec, Sync, ClearQueue
  <2>2. flow[f].job \notin Harmless
    BY <1>3 DEF TakeOverForExec, At, Harmless
  <2> QED BY <1>1, <1>3, <2>1, <2>2 DEF OpEffect, OpEnds, TakeOverForExec, ClearQueue
<1>4. CASE PassTakeoverGate(f) \/ TakeoverRefreshFails(f)
  <2>1. queue' = queue /\ followUps' = followUps
    BY <1>4 DEF PassTakeoverGate, TakeoverRefreshFails
  <2>2. control' \in {control, Synced(stage', queue, runner)}
    BY <1>4 DEF PassTakeoverGate, TakeoverRefreshFails, EnterCleanup
  <2> QED BY <1>1, <2>1, <2>2, SyncKeeps DEF OpEffect
<1>5. CASE PassTakeoverRegate(f)
  <2>1. followUps' = followUps /\ runner' = runner /\ flow[f].job \notin Harmless
    BY <1>5 DEF PassTakeoverRegate, At, Takeovers, Harmless
  <2>2. CASE queue' = queue /\ control' \in {control, Synced(stage', queue, runner)}
    BY <1>1, <2>1, <2>2, SyncKeeps DEF OpEffect
  <2>3. CASE queue' = ClearedQueue /\ control' = Synced(stage', queue', runner)
    BY <1>1, <2>1, <2>3, SyncEnds DEF OpEffect, OpEnds
  <2> QED BY <1>5, <2>2, <2>3 DEF PassTakeoverRegate, BeginExec, ClearQueue, EnterCleanup
<1> QED BY <1>2, <1>3, <1>4, <1>5

LEMMA LaunchingEffect ==
  ASSUME IInv, SerialInv, NEW f \in Ops,
         \/ StartClear(f) \/ StartClearFails(f) \/ ClearExits(f) \/ FinishStop(f)
         \/ StartExecRun(f) \/ StartExecRunFails(f) \/ SubmitPrompt(f) \/ SendInput(f)
  PROVE  OpEffect(f)
<1>1. ~FollowUpStarts
  <2>1. CASE StartClear(f) \/ ClearExits(f) \/ FinishStop(f) \/ SubmitPrompt(f) \/ SendInput(f)
    BY <2>1 DEF StartClear, ClearExits, FinishStop, SubmitPrompt, SendInput, FollowUpStarts,
       Started, IInv, BrokerInv, BrokerHoldsBudget, Runner
  <2>2. CASE StartExecRun(f)
    BY <2>2 DEF StartExecRun, Spawned, Started, FollowUpStarts, IInv, BrokerInv,
       BrokerHoldsBudget, Runner
  <2>3. CASE StartClearFails(f) \/ StartExecRunFails(f)
    BY <2>3 DEF StartClearFails, StartExecRunFails, FailedStarts, FollowUpStarts, IInv,
       BrokerInv, BrokerHoldsBudget, Runner
  <2> QED BY <2>1, <2>2, <2>3
<1>2. queue' = queue /\ followUps' = followUps
  BY DEF StartClear, StartClearFails, ClearExits, FinishStop, StartExecRun, StartExecRunFails,
         SubmitPrompt, SendInput
<1>3. control' \in {control, Synced(stage', queue, runner), Synced(stage', queue, runner')}
  <2>1. CASE StartClear(f) \/ ClearExits(f) \/ SubmitPrompt(f) \/ SendInput(f)
    BY <2>1 DEF StartClear, ClearExits, SubmitPrompt, SendInput, EnterCleanup
  <2>2. CASE StartExecRun(f) \/ StartClearFails(f) \/ StartExecRunFails(f)
    BY <2>2 DEF StartExecRun, StartClearFails, StartExecRunFails, EnterCleanup
  <2>3. CASE FinishStop(f)
    BY <2>3 DEF FinishStop
  <2> QED BY <2>1, <2>2, <2>3
<1> QED BY <1>1, <1>2, <1>3, SyncKeeps DEF OpEffect

\* A step of an operator's call that does not overlap with a follow-up start.
LEMMA OperatorSerial ==
  ASSUME IInv, SerialInv, NEW f \in Ops, Calling(f) \/ TakingOver(f), NoOverlap
  PROVE  SerialInv' /\ ~FollowUpStarts
<1>1. OpEffect(f)
  BY CallingEffect, StoppingEffect, DisposingEffect, GateEffect, LaunchingEffect DEF TakingOver
<1>2. FollowUpInFlight' <=> FollowUpInFlight
  BY OperatorSteps DEF OpStep, FollowUpInFlight
<1>3. CASE OpKeeps
  <2>1. Keeps
    BY <1>2, <1>3 DEF OpKeeps, Keeps, Holding
  <2> QED BY <1>1, <2>1, KeepsSerial DEF OpEffect
<1>4. CASE OpEnds(f)
  <2>1. ~FollowUpInFlight'
    BY <1>2, <1>4 DEF OpEnds, NoOverlap, SerialInv
  <2> QED BY <1>1, <1>4, <2>1, EndsSerial DEF OpEffect, OpEnds, Ends
<1> QED BY <1>1, <1>3, <1>4 DEF OpEffect

\* refreshProject restores the session the broker holds, and what it spent.
LEMMA RefreshAttachKeeps ==
  ASSUME IInv, SerialInv, NEW f \in Flows, RefreshAttach(f)
  PROVE  Keeps /\ ~FollowUpStarts
<1>1. /\ queue'.count = queue.count /\ queue'.armed = queue.armed
      /\ queue'.inFlight = queue.inFlight
      /\ queue'.active => Holding
      /\ queue.active => queue'.active
      /\ queue.count # NoCount
  BY ConstantsOK
     DEF RefreshAttach, RestoredQueue, Holding, IInv, BrokerInv, BrokerHoldsBudget, QueueSession,
         ControlState, NoCount
<1>2. control'.active => Holding
  BY <1>1 DEF RefreshAttach, SyncedByRestore, Synced, Holding, IInv, BrokerInv, BrokerHoldsBudget,
          ControlState, NoControl
<1>3. control'.count = NoCount => ~control'.active
  BY <1>1 DEF RefreshAttach, SyncedByRestore, Synced, SerialInv, IInv, BrokerInv,
          BrokerHoldsBudget, ControlState, NoControl
<1>4. FollowUpInFlight' <=> FollowUpInFlight
  <2>1. /\ flow' = [flow EXCEPT ![f].pc = "summary", ![f].exit = runner'.lastExit]
        /\ runner'.lastExit \in ExitCodes
    BY DEF RefreshAttach, Attached, IInv, BrokerInv, BrokerHoldsBudget, Runner, ExitCodes
  <2>2. "tick" \in Flows
    BY DEF Flows
  <2> QED BY <2>1, <2>2, ReconcileStep DEF IInv, FollowUpInFlight, RefreshAttach
<1>5. ~FollowUpStarts
  BY DEF RefreshAttach, Attached, FollowUpStarts, IInv, BrokerInv, BrokerHoldsBudget, Runner
<1> QED BY <1>1, <1>2, <1>3, <1>4, <1>5 DEF Keeps, Holding, RefreshAttach

\* Why a decision was taken, as far as the session depends on it.
LEMMA DecisionMeans ==
  ASSUME NEW q \in QueueSession(0..MaxContinuations), NEW running, NEW exit, NEW s, NEW n,
         NEW reason, reason = DecideQueueContinuation(q, running, exit, s, n, MaxContinuations)
  PROVE  /\ reason \in EndingReasons \cup {"pending-tasks-remain"} => q.active /\ ~q.inFlight
         /\ reason = "pending-tasks-remain" => q.count < MaxContinuations
         /\ reason = "continuation-limit-reached" => q.count = MaxContinuations
BY ConstantsOK DEF DecideQueueContinuation, BudgetLeft, EndingReasons, QueueSession

\* The session after a decision: armed with budget left, over for good, or merely stopped.
LEMMA ArmSerial ==
  ASSUME IInv, SerialInv, NEW f \in Flows, flow[f].pc \in {"summary", "tasklist"}, NEW count,
         ArmQueueContinuation(f, count), NoOverlap
  PROVE  SerialInv' /\ ~FollowUpStarts
<1> DEFINE reason == DecideQueueContinuation(queue, Live, flow[f].exit, stage', count,
                                             MaxContinuations)
<1>1. queue \in QueueSession(0..MaxContinuations)
  BY DEF IInv, BrokerInv, BrokerHoldsBudget
<1>2. /\ reason \in EndingReasons \cup {"pending-tasks-remain"} => queue.active /\ ~queue.inFlight
      /\ reason = "pending-tasks-remain" => queue.count < MaxContinuations
      /\ reason = "continuation-limit-reached" => queue.count = MaxContinuations
  BY <1>1, DecisionMeans
<1>3. /\ queue' = AfterDecision(queue, reason)
      /\ control' = IF stage' # stage \/ reason = "no-pending-tasks"
                      THEN Synced(stage', queue', runner) ELSE control
      /\ followUps' = followUps
      /\ runner' = runner
  BY DEF ArmQueueContinuation
<1>4. ~FollowUpStarts
  BY <1>3 DEF FollowUpStarts
<1>5. FollowUpInFlight' <=> FollowUpInFlight
  BY ReturnStep DEF IInv, ArmQueueContinuation, FollowUpInFlight
<1>6. FollowUpInFlight => queue.inFlight
  BY DEF SerialInv
<1> HIDE DEF reason
<1>8. CASE reason = "no-pending-tasks"
  <2>1. queue' = ClearedQueue
    BY <1>3, <1>8 DEF AfterDecision
  <2>2. ~control'.active
    BY <1>3, <1>8, <2>1, SyncEnds
  <2>3. ~FollowUpInFlight'
    BY <1>2, <1>5, <1>6, <1>8 DEF EndingReasons
  <2> QED BY <1>3, <1>4, <2>1, <2>2, <2>3, EndsSerial DEF Ends
<1>9. CASE reason = "pending-tasks-remain"
  <2>1. queue' = [queue EXCEPT !.armed = TRUE]
    BY <1>3, <1>9 DEF AfterDecision, EndingReasons
  <2>2. queue'.count = queue.count /\ queue'.active = queue.active /\ queue'.inFlight = queue.inFlight
    BY <1>1, <2>1 DEF QueueSession
  <2>3. Holding /\ ~FollowUpInFlight /\ ~FollowUpInFlight'
    BY <1>2, <1>5, <1>6, <1>9 DEF Holding
  <2>4. queue.count # NoCount /\ (control'.count = NoCount => ~control'.active)
    BY <1>1, <1>3, <2>2, ConstantsOK DEF SerialInv, Synced, NoControl, QueueSession, NoCount
  <2> QED BY <1>3, <1>4, <2>2, <2>3, <2>4 DEF SerialInv, WithinCap
<1>10. CASE reason \notin {"no-pending-tasks", "pending-tasks-remain"}
  <2>1. queue' \in {queue, [queue EXCEPT !.active = FALSE, !.armed = FALSE]}
    BY <1>3, <1>10 DEF AfterDecision
  <2>2. /\ queue'.count = queue.count /\ queue'.inFlight = queue.inFlight
        /\ queue'.armed => queue.armed
        /\ queue'.active => queue.active
    BY <1>1, <2>1 DEF QueueSession
  <2>3. queue.count # NoCount
    BY <1>1, ConstantsOK DEF QueueSession, NoCount
  <2>4. control'.active => Holding
    BY <1>3, <2>2 DEF Synced, Holding
  <2>5. control'.count = NoCount => ~control'.active
    BY <1>3, <2>2, <2>3 DEF SerialInv, Synced
  <2>6. FollowUpInFlight => queue' = queue
    BY <1>2, <1>3, <1>6, <1>10 DEF AfterDecision, EndingReasons
  <2>7. Keeps
    BY <1>3, <1>5, <2>2, <2>4, <2>5, <2>6 DEF Keeps, Holding
  <2> QED BY <1>4, <2>7, KeepsSerial
<1> QED BY <1>8, <1>9, <1>10

\* A step that changes neither the queue session nor whose turn the interval has.
LEMMA QuietSerial ==
  ASSUME IInv, SerialInv, NoOverlap, queue' = queue, followUps' = followUps,
         flow'["tick"].job = flow["tick"].job,
         NEW s, NEW r, control' \in {control, NoControl, Synced(s, queue, r)}
  PROVE  SerialInv'
<1>1. OpKeeps
  BY SyncKeeps
<1>2. Keeps
  BY <1>1 DEF OpKeeps, Keeps, Holding, FollowUpInFlight
<1> QED BY <1>2, KeepsSerial

LEMMA RefreshingSerial ==
  ASSUME IInv, SerialInv, NEW f \in Flows, Refreshing(f), NoOverlap
  PROVE  SerialInv' /\ ~FollowUpStarts
<1>1. CASE RefreshAttach(f)
  BY <1>1, RefreshAttachKeeps, KeepsSerial
<1>2. CASE ReadTaskList(f)
  BY <1>2, ArmSerial DEF ReadTaskList
<1>3. CASE ReadSummary(f)
  <2>1. CASE \E n \in {0, pending} : ArmQueueContinuation(f, n)
    BY <1>3, <2>1, ArmSerial DEF ReadSummary
  <2>2. CASE /\ GoTo(f, "tasklist")
             /\ UNCHANGED <<stage, queue, tracking, runner, control, pending, followUps>>
    <3>1. flow[f].ret # "none" /\ "tick" \in Flows
      BY <1>3 DEF ReadSummary, IInv, FlowInv, FlowsWellFormed, Flows
    <3>2. flow'["tick"].job = flow["tick"].job
      BY <2>2, <3>1, GoToStep DEF IInv, Awaits
    <3> QED BY <2>2, <3>2, QuietSerial DEF FollowUpStarts
  <2> QED BY <1>3, <2>1, <2>2 DEF ReadSummary
<1>4. CASE TaskListUnavailable(f)
  <2>1. flow'["tick"].job = flow["tick"].job
    BY <1>4, ReturnStep DEF IInv, TaskListUnavailable
  <2>2. queue' = queue /\ followUps' = followUps /\ runner' = runner
        /\ control' \in {control, NoControl, Synced(stage', queue, runner)}
    BY <1>4 DEF TaskListUnavailable
  <2> QED BY <2>1, <2>2, QuietSerial DEF FollowUpStarts
<1> QED BY <1>1, <1>2, <1>3, <1>4 DEF Refreshing

\* A start that throws: a follow-up drops the session, which the broker may still hold.
LEMMA StartThrowsKeeps ==
  ASSUME IInv, SerialInv, NEW f \in Flows, StartThrows(f, queue), followUps' = followUps,
         NEW s, NEW r, control' \in {control, Synced(s, queue, r)}
  PROVE  Keeps
<1>1. queue \in QueueSession(0..MaxContinuations)
  BY DEF IInv, BrokerInv, BrokerHoldsBudget
<1>2. flow'[f].job = "none" /\ \A g \in Flows \ {f} : flow'[g].job = flow[g].job
  BY FinishStep DEF IInv, StartThrows
<1>3. "tick" \in Flows /\ (flow[f].job = "auto" => f = "tick")
  BY DEF IInv, FlowInv, FlowsWellFormed, Flows
<1>4. /\ queue'.count = queue.count /\ queue'.armed = queue.armed
      /\ queue'.active => queue.active
      /\ flow[f].job # "auto" => queue' = queue
  BY <1>1 DEF StartThrows, QueueSession
<1>5. FollowUpInFlight' => FollowUpInFlight /\ queue' = queue
  BY <1>2, <1>3, <1>4 DEF FollowUpInFlight
<1>6. queue.count # NoCount
  BY <1>1, ConstantsOK DEF QueueSession, NoCount
<1>7. /\ control'.active => Holding
      /\ control'.count = NoCount => ~control'.active
  BY <1>6 DEF SerialInv, Synced, Holding
<1> QED BY <1>4, <1>5, <1>7 DEF Keeps, Holding

LEMMA PreparingSerial ==
  ASSUME IInv, SerialInv, NoOverlap, NEW f \in Flows,
         \/ ResolveCatalog(f) \/ StatusCheckFails(f) \/ PassStartGate(f)
         \/ DisposeBeforeStart(f) \/ StartQueueRunFails(f)
  PROVE  SerialInv' /\ ~FollowUpStarts
<1>1. "tick" \in Flows
  BY DEF Flows
<1>2. followUps' = followUps
  BY DEF ResolveCatalog, StatusCheckFails, PassStartGate, DisposeBeforeStart, Dispose,
         StartQueueRunFails
<1>3. ~FollowUpStarts
  <2>1. CASE DisposeBeforeStart(f)
    BY <2>1, DisposeEffect DEF DisposeBeforeStart
  <2>2. CASE StartQueueRunFails(f)
    BY <2>2 DEF StartQueueRunFails, FailedStarts, FollowUpStarts, IInv, BrokerInv,
       BrokerHoldsBudget, Runner
  <2> QED BY <2>1, <2>2 DEF ResolveCatalog, StatusCheckFails, PassStartGate, FollowUpStarts
<1>4. CASE StartThrows(f, queue)
  <2>1. ASSUME NEW r, control' \in {control, Synced(stage', queue, r)} PROVE SerialInv'
    BY <1>2, <1>4, <2>1, StartThrowsKeeps, KeepsSerial
  <2>2. \/ control' = control
        \/ control' = Synced(stage', queue, runner')
        \/ DisposeBeforeStart(f)
    BY DEF ResolveCatalog, StatusCheckFails, PassStartGate, StartQueueRunFails
  <2>3. CASE DisposeBeforeStart(f)
    <3>1. GoTo(f, "start") /\ Finish(f)
      BY <1>4, <2>3 DEF DisposeBeforeStart, StartThrows
    <3>2. flow \in [Flows -> Flow]
      BY DEF IInv, FlowInv
    <3>3. flow'[f].pc = "start" /\ flow'[f].pc = "idle"
      BY <3>1, <3>2 DEF GoTo, Finish, Idle, Flow
    <3> QED BY <3>3
  <2> QED BY <1>3, <2>1, <2>2, <2>3
<1>5. CASE queue' = queue /\ flow'["tick"].job = flow["tick"].job
  <2>1. control' \in {control, NoControl, Synced(stage', queue, runner')}
    <3>1. CASE DisposeBeforeStart(f)
      BY <3>1, DisposeEffect DEF DisposeBeforeStart
    <3> QED BY <3>1 DEF ResolveCatalog, StatusCheckFails, PassStartGate, StartQueueRunFails
  <2> QED BY <1>2, <1>3, <1>5, <2>1, QuietSerial
<1>6. StartThrows(f, queue) \/ (queue' = queue /\ flow'["tick"].job = flow["tick"].job)
  <2>1. CASE ResolveCatalog(f)
    BY <1>1, <2>1, RefreshStep DEF ResolveCatalog, IInv
  <2>2. CASE StatusCheckFails(f) \/ StartQueueRunFails(f)
    BY <2>2 DEF StatusCheckFails, StartQueueRunFails
  <2>3. CASE DisposeBeforeStart(f)
    BY <1>1, <2>3, GoToStep DEF DisposeBeforeStart, IInv, Awaits
  <2>4. CASE PassStartGate(f)
    <3> DEFINE replaces == flow[f].job = "auto" \/ queue.active
               to == IF HasSession THEN "dispose" ELSE "start"
    <3>1. CASE queue' = queue /\ flow' = [flow EXCEPT ![f].pc = to, ![f].flag = replaces]
      <4>1. replaces \in BOOLEAN /\ to \in Awaits /\ to \in {"dispose", "start"}
        BY DEF IInv, BrokerInv, BrokerHoldsBudget, QueueSession, Awaits
      <4> HIDE DEF replaces, to
      <4> QED BY <1>1, <3>1, <4>1, FlagStep DEF IInv
    <3> QED BY <2>4, <3>1 DEF PassStartGate
  <2> QED BY <2>1, <2>2, <2>3, <2>4
<1> QED BY <1>4, <1>5, <1>6

\* A start of the queue: the operator's begins a new session with nothing spent, which no
\* follow-up start overlaps; a follow-up's spends one more.
LEMMA StartQueueRunSerial ==
  ASSUME IInv, SerialInv, NoOverlap, NEW f \in Flows, StartQueueRun(f)
  PROVE  SerialInv' /\ (FollowUpStarts => queue.active)
<1> DEFINE auto == flow[f].job = "auto"
<1>1. flow'[f].job = "none" /\ \A g \in Flows \ {f} : flow'[g].job = flow[g].job
  BY FinishStep DEF IInv, StartQueueRun
<1>2. "tick" \in Flows /\ (auto => f = "tick")
  BY DEF IInv, FlowInv, FlowsWellFormed, Flows
<1>3. queue.count \in 0..MaxContinuations /\ followUps \in 0..(MaxContinuations + 1)
  BY DEF IInv, BrokerInv, BrokerHoldsBudget, QueueSession, ProjectInv
<1>4. auto => FollowUpInFlight
  BY <1>2 DEF FollowUpInFlight
<1>5. ~auto => ~FollowUpInFlight
  <2>1. flow[f].job \in Starters
    BY DEF StartQueueRun, At
  <2> QED BY <1>2, <2>1 DEF SerialInv, FollowUpInFlight, Starters, Harmless, Flows
<1>6. ~FollowUpInFlight'
  BY <1>1, <1>2, <1>4, <1>5 DEF FollowUpInFlight
<1>7. queue' = [active |-> TRUE, armed |-> FALSE, inFlight |-> FALSE,
                count |-> IF auto THEN queue.count + 1 ELSE 0]
  BY DEF StartQueueRun, SpentCount
<1>8. followUps' = IF ~auto THEN 0
                   ELSE IF followUps > MaxContinuations THEN followUps ELSE followUps + 1
  BY DEF StartQueueRun
<1>9. auto => followUps <= queue.count /\ queue.count < MaxContinuations
  BY <1>4 DEF SerialInv, IInv, BudgetInv, FollowUpHasBudget
<1>10. followUps' <= queue'.count /\ queue'.count \in 0..MaxContinuations
  <2>1. CASE auto
    BY <1>3, <1>7, <1>8, <1>9, <2>1, ConstantsOK
  <2>2. CASE ~auto
    BY <1>7, <1>8, <2>2, ConstantsOK
  <2> QED BY <2>1, <2>2
<1>11. followUps' <= MaxContinuations
  <2>1. followUps' \in Nat
    BY <1>3, <1>8, ConstantsOK
  <2> QED BY <1>10, <2>1, ConstantsOK
<1>12. control'.count = NoCount => ~control'.active
  <2>1. control' = Synced(stage', queue', runner')
    BY DEF StartQueueRun, Sync
  <2>2. queue'.count # NoCount
    BY <1>10, ConstantsOK DEF NoCount
  <2> QED BY <2>1, <2>2 DEF Synced, SerialInv
<1>13. FollowUpStarts => auto
  BY DEF StartQueueRun, Spawned, Started, FollowUpStarts, IInv, BrokerInv, BrokerHoldsBudget,
         Runner
<1> HIDE DEF auto
<1> QED BY <1>4, <1>6, <1>10, <1>11, <1>12, <1>13 DEF SerialInv, WithinCap

LEMMA TickSerial ==
  ASSUME IInv, SerialInv, NoOverlap, TickStarts \/ RunQueueContinuations
  PROVE  SerialInv' /\ ~FollowUpStarts
<1>1. "tick" \in Flows /\ flow \in [Flows -> Flow]
  BY DEF IInv, FlowInv, Flows
<1>2. followUps' = followUps /\ control' = control /\ ~FollowUpStarts
  BY DEF TickStarts, RunQueueContinuations, FollowUpStarts
<1>3. queue \in QueueSession(0..MaxContinuations)
  BY DEF IInv, BrokerInv, BrokerHoldsBudget
<1>4. CASE /\ queue' \in {queue, [queue EXCEPT !.armed = FALSE]}
           /\ flow'["tick"].job # "auto"
  <2>1. /\ queue'.count = queue.count /\ queue'.active = queue.active
        /\ queue'.armed => queue.armed
    BY <1>3, <1>4 DEF QueueSession
  <2>2. Keeps
    BY <1>2, <1>4, <2>1 DEF Keeps, Holding, FollowUpInFlight, SerialInv
  <2> QED BY <1>2, <2>2, KeepsSerial
<1>5. CASE /\ queue.armed /\ queue.active
           /\ queue' = [queue EXCEPT !.armed = FALSE, !.inFlight = TRUE]
           /\ flow' = [flow EXCEPT !["tick"].job = "auto", !["tick"].pc = "catalog"]
  <2>1. /\ queue'.count = queue.count /\ queue'.active = queue.active
        /\ ~queue'.armed /\ queue'.inFlight
    BY <1>3, <1>5 DEF QueueSession
  <2>2. FollowUpInFlight'
    BY <1>1, <1>5 DEF FollowUpInFlight, Flow
  <2>3. followUps <= queue.count
    BY <1>5 DEF SerialInv, Holding
  <2>4. queue'.active
    BY <1>5, <2>1
  <2>5. FollowUpInFlight' => queue'.active /\ queue'.inFlight /\ \A f \in Ops : flow'[f].job \in Harmless
    BY <2>1, <2>4 DEF NoOverlap
  <2> QED BY <1>2, <2>1, <2>3, <2>5 DEF SerialInv, WithinCap, Holding
<1>6. CASE TickStarts
  <2>1. flow'["tick"].job = "tick"
    BY <1>1, <1>6 DEF TickStarts, Idle, Flow
  <2> QED BY <1>4, <1>6, <2>1 DEF TickStarts
<1>7. CASE RunQueueContinuations
  <2>1. Finish("tick") => flow'["tick"].job = "none"
    BY <1>1, FinishStep DEF IInv
  <2> QED BY <1>4, <1>5, <1>7, <2>1 DEF RunQueueContinuations
<1> QED BY <1>6, <1>7

LEMMA WorldSerial ==
  ASSUME IInv, SerialInv, NoOverlap, SubmitGo \/ TaktExits \/ Enqueue
  PROVE  SerialInv' /\ ~FollowUpStarts
<1>1. /\ queue' = queue /\ followUps' = followUps /\ flow' = flow
      /\ control' \in {control, NoControl, Synced(stage', queue, runner')}
  BY DEF SubmitGo, TaktExits, ProcessExits, Enqueue
<1>2. ~FollowUpStarts
  BY DEF SubmitGo, TaktExits, ProcessExits, Enqueue, Live, FollowUpStarts
<1> QED BY <1>1, <1>2, QuietSerial

\* A reload has no start in flight, and takes the session from a broker that has its count.
LEMMA ReloadSerial ==
  ASSUME IInv, SerialInv, Reload
  PROVE  SerialInv' /\ ~FollowUpStarts
<1>1. ~FollowUpInFlight'
  BY DEF Reload, IInv, FlowInv, Flows, Idle, FollowUpInFlight
<1>2. /\ queue'.active => control.active
      /\ ~queue'.armed /\ ~control'.active
  <2>1. control.active \in BOOLEAN
    <3>1. CASE control \in ControlState
      BY <3>1 DEF ControlState
    <3>2. CASE control = NoControl
      <4>1. control.active = FALSE
        BY <3>2 DEF NoControl
      <4> QED BY <4>1
    <3> QED BY <3>1, <3>2 DEF IInv, BrokerInv, BrokerHoldsBudget
  <2>2. queue' = [ClearedQueue EXCEPT !.active = control.active,
                                     !.count = queue'.count]
    BY <2>1 DEF Reload, RestoredQueue, ClearedQueue
  <2>3. ~control'.active
    BY DEF Reload, SyncedByNewRuntime, NoControl, IInv, BrokerInv, BrokerHoldsBudget, ControlState
  <2> QED BY <2>2, <2>3 DEF ClearedQueue
<1>3. control.active => Holding /\ queue'.count = queue.count
  BY DEF Reload, RestoredQueue, ClearedQueue, NoControl, SerialInv, Holding, IInv, BrokerInv,
         BrokerHoldsBudget, ControlState
<1>4. ~FollowUpStarts /\ followUps' = followUps
  BY DEF Reload, FollowUpStarts, IInv, BrokerInv, BrokerHoldsBudget, Runner
<1> QED BY <1>1, <1>2, <1>3, <1>4 DEF SerialInv, Holding, WithinCap

LEMMA InitSerial == Init => SerialInv
BY ConstantsOK DEF Init, SerialInv, Holding, FollowUpInFlight, Flows, Idle, ClearedQueue, NoControl,
   NoCount, WithinCap

LEMMA NextSerial ==
  ASSUME IInv, SerialInv, [Step /\ NoOverlap]_vars
  PROVE  SerialInv' /\ (FollowUpStarts => queue.active)
<1>1. CASE UNCHANGED vars
  BY <1>1 DEF vars, SerialInv, FollowUpInFlight, Holding, WithinCap, FollowUpStarts
<1>2. CASE Step /\ NoOverlap
  <2>1. CASE TickStarts \/ RunQueueContinuations
    BY <1>2, <2>1, TickSerial
  <2>2. CASE \E f \in Flows : Refreshing(f) \/ Starting(f)
    BY <1>2, <2>2, RefreshingSerial, PreparingSerial, StartQueueRunSerial DEF Starting
  <2>3. CASE \E f \in Ops : Calling(f) \/ TakingOver(f)
    BY <1>2, <2>3, OperatorSerial
  <2>4. CASE SubmitGo \/ TaktExits \/ Enqueue
    BY <1>2, <2>4, WorldSerial
  <2>5. CASE Reload
    BY <2>5, ReloadSerial
  <2> QED BY <1>2, <2>1, <2>2, <2>3, <2>4, <2>5 DEF Step
<1> QED BY <1>1, <1>2

\* No call has overlapped with a follow-up start after a step: then none had before it.
LEMMA StaysApart ==
  ASSUME [Next]_allVars, ~overlapped'
  PROVE  ~overlapped /\ [Step /\ NoOverlap]_vars
<1>1. CASE UNCHANGED allVars
  BY <1>1 DEF allVars
<1>2. CASE Next
  BY <1>2 DEF Next
<1> QED BY <1>1, <1>2

LEMMA SerialAlways == Spec => [](~overlapped => SerialInv)
<1>1. Init => (~overlapped => SerialInv)
  BY InitSerial
<1>2. IInv /\ (~overlapped => SerialInv) /\ [Next]_allVars => (~overlapped => SerialInv)'
  <2> SUFFICES ASSUME IInv, ~overlapped => SerialInv, [Next]_allVars, ~overlapped'
               PROVE  SerialInv'
    OBVIOUS
  <2> QED BY StaysApart, NextSerial
<1> QED BY <1>1, <1>2, Invariance, PTL DEF Spec

\* Until a call that starts, stops, clears or takes over overlaps with a follow-up start, the
\* bridge starts at most MaxContinuations follow-up runs per start of the queue, reloads
\* included.
THEOREM BudgetRespectedTheorem == Spec => []BudgetRespected
<1>1. (~overlapped => SerialInv) => BudgetRespected
  BY DEF SerialInv, WithinCap, BudgetRespected
<1> QED BY <1>1, SerialAlways, PTL

\* A follow-up run that starts without a queue session, which NoFollowUpAfterEnd forbids and
\* the code allows, takes such an overlap: neither a refresh nor a reload brings one about.
THEOREM FollowUpHasSession == Spec => [][FollowUpStarts => queue.active \/ overlapped']_allVars
<1>1. /\ IInv /\ (~overlapped => SerialInv) /\ [Next]_allVars
      => [FollowUpStarts => queue.active \/ overlapped']_allVars
  <2> SUFFICES ASSUME IInv, ~overlapped => SerialInv, [Next]_allVars, FollowUpStarts, ~overlapped'
               PROVE  queue.active
    OBVIOUS
  <2> QED BY StaysApart, NextSerial
<1> QED BY <1>1, Invariance, SerialAlways, PTL DEF Spec

-----------------------------------------------------------------------------
(* One call at a time: an ended queue session is never the broker's to restore *)

\* The operator makes one call at a time; the refresh interval runs beside it.
OneCall == \A f, g \in Ops : flow[f].pc # "idle" /\ flow[g].pc # "idle" => f = g

\* Calls that have ended the queue session and not returned yet.
Ending(f) ==
  \/ flow[f].job \in Takeovers
  \/ flow[f].job = "stop" /\ flow[f].pc \notin {"undo", "confirm"}

\* What EndedIsNotRestored asks of the broker.
EndedIsSynced == Live /\ control.active => queue.active

\* The broker of a free PTY holds a session only for the `takt run` that is to start next.
FreeIsEnded ==
  ~HasSession /\ control # NoControl => ~Holding \/ \E f \in Flows : At(f, Starters, "start")

EndingHasEnded == \A f \in Ops : Ending(f) => ~Holding

\* While the editor of sendInput is open only a follow-up start can free the PTY.
EditorHasSession ==
  \A f \in Ops :
    flow[f].pc = "editor" => runner.up /\ (HasSession \/ At("tick", Starters, "start"))

FollowUpIsNotLive == FollowUpInFlight => ~Live

\* A controller that attaches to a broker with a free PTY knows of no exit.
FreshAttach == ~HasSession /\ runner.connected => runner.lastExit = "none"

\* Which calls reach the start of a run or of `takt clear`.
StartsAreNamed ==
  /\ \A f \in Flows : flow[f].pc \in {"start", "clear"} => flow[f].job \notin Harmless \cup {"tick"}
  /\ flow["tick"].job \in {"none", "tick", "auto"} /\ flow["tick"].pc # "editor"

LiveInv ==
  /\ EndedIsSynced /\ FreeIsEnded /\ EndingHasEnded /\ EditorHasSession
  /\ FollowUpIsNotLive /\ FreshAttach /\ StartsAreNamed

\* A step of flow f alone.
Moves(f) == \A g \in Flows \ {f} : flow'[g] = flow[g]

\* A call moves on without an end of the session it has not already brought about, and
\* without an editor; only calls that may reach a start.
MovesOn(f) ==
  /\ Moves(f)
  /\ Ending(f)' => Ending(f)
  /\ flow'[f].pc # "editor"
  /\ flow'[f].pc \in {"start", "clear"} => flow'[f].job \notin Harmless \cup {"tick"}
  /\ f = "tick" => flow'[f].job \in {"none", "tick", "auto"}

\* What a step has to show of the session, the broker and the PTY.
LEMMA LiveIntro ==
  ASSUME IInv, LiveInv, NEW f \in Flows, MovesOn(f),
         (Holding' => Holding) \/ \A g \in Ops : ~Ending(g),
         EndedIsSynced',
         runner'.session = "none" /\ control' # NoControl =>
           ~Holding' \/ \E g \in Flows : flow'[g].job \in Starters /\ flow'[g].pc = "start",
         runner.up => runner'.up,
         \A g \in Ops \ {f} : flow[g].pc = "editor" =>
           runner'.session # "none" \/ (flow'["tick"].job \in Starters /\ flow'["tick"].pc = "start"),
         FollowUpInFlight' => runner'.session # "live",
         runner'.session = "none" /\ runner'.connected => runner'.lastExit = "none"
  PROVE  LiveInv'
<1> USE DEF MovesOn, Moves
<1>1. \A g \in Ops : g \in Flows /\ g # "tick"
  BY OpIsFlow
<1>2. FreeIsEnded'
  BY DEF FreeIsEnded, HasSession, At
<1>3. EndingHasEnded'
  <2> SUFFICES ASSUME NEW g \in Ops, Ending(g)' PROVE ~Holding'
    BY DEF EndingHasEnded
  <2>1. Ending(g)
    BY <1>1 DEF Ending
  <2> QED BY <2>1 DEF LiveInv, EndingHasEnded
<1>4. EditorHasSession'
  <2> SUFFICES ASSUME NEW g \in Ops, flow'[g].pc = "editor"
               PROVE  /\ runner'.up
                      /\ \/ runner'.session # "none"
                         \/ flow'["tick"].job \in Starters /\ flow'["tick"].pc = "start"
    BY DEF EditorHasSession, HasSession, At
  <2>1. g # f /\ flow[g].pc = "editor"
    BY <1>1
  <2> QED BY <2>1 DEF LiveInv, EditorHasSession
<1>5. FollowUpIsNotLive' /\ FreshAttach'
  BY DEF FollowUpIsNotLive, FreshAttach, Live, HasSession
<1>6. StartsAreNamed'
  <2>1. "tick" \in Flows
    BY DEF Flows
  <2> QED BY <2>1 DEF LiveInv, StartsAreNamed
<1> QED BY <1>2, <1>3, <1>4, <1>5, <1>6 DEF LiveInv

\* How the helpers move a call.
LEMMA GoToMoves ==
  ASSUME FlowInv, NEW f \in Flows, NEW pc, GoTo(f, pc)
  PROVE  Moves(f) /\ flow'[f].pc = pc /\ flow'[f].job = flow[f].job
BY DEF FlowInv, GoTo, Moves, Flow

LEMMA RefreshMoves ==
  ASSUME FlowInv, NEW f \in Flows, NEW ret, Refresh(f, ret)
  PROVE  Moves(f) /\ flow'[f].pc = "refresh" /\ flow'[f].job = flow[f].job
BY DEF FlowInv, Refresh, Moves, Flow

LEMMA FinishMoves ==
  ASSUME FlowInv, NEW f \in Flows, Finish(f)
  PROVE  Moves(f) /\ flow'[f].pc = "idle" /\ flow'[f].job = "none"
BY DEF FlowInv, Finish, Moves, Idle

LEMMA FlagMoves ==
  ASSUME FlowInv, NEW f \in Flows, NEW pc, NEW flag,
         flow' = [flow EXCEPT ![f].pc = pc, ![f].flag = flag]
  PROVE  Moves(f) /\ flow'[f].pc = pc /\ flow'[f].job = flow[f].job
BY DEF FlowInv, Moves, Flow

LEMMA CallMoves ==
  ASSUME FlowInv, NEW f \in Flows, NEW job, NEW pc, NEW ret, Call(f, job, pc, ret)
  PROVE  Moves(f) /\ flow'[f].pc = pc /\ flow'[f].job = job /\ flow[f].pc = "idle"
BY DEF FlowInv, Call, Moves, Idle

LEMMA CleanupMoves ==
  ASSUME FlowInv, NEW f \in Flows, NEW r, EnterCleanup(f, r)
  PROVE  Moves(f) /\ flow'[f].pc = "abort" /\ flow'[f].job = flow[f].job
BY DEF FlowInv, EnterCleanup, Moves, Flow

LEMMA BeginExecMoves ==
  ASSUME FlowInv, NEW f \in Flows, BeginExec(f)
  PROVE  Moves(f) /\ flow'[f].pc = "start" /\ flow'[f].job = flow[f].job
BY GoToMoves DEF BeginExec

\* Of the steps of a call after its first, all but the confirmation of a stop move it on.
LEMMA TakingOverMoves ==
  ASSUME IInv, NEW f \in Ops, TakingOver(f), ~ConfirmStop(f)
  PROVE  MovesOn(f) /\ flow[f].pc # "idle" /\ ~At(f, Starters, "start")
<1>1. f \in Flows /\ f # "tick" /\ FlowInv
  BY OpIsFlow DEF IInv
<1> USE <1>1 DEF MovesOn, Ending, At, Takeovers, Starters, Harmless
<1>3. CASE StopRun(f) \/ StopInCleanup(f)
  BY <1>3, GoToMoves DEF StopRun, StopInCleanup, StopAndWait
<1>4. CASE StopTimesOut(f)
  BY <1>4, FinishMoves, CleanupMoves DEF StopTimesOut
<1>5. CASE DisposeInCleanup(f)
  BY <1>5, FinishMoves DEF DisposeInCleanup
<1>6. CASE PassOperatorGate(f)
  <2>1. CASE GoTo(f, "takeover") \/ Finish(f)
    BY <1>6, <2>1, GoToMoves, FinishMoves DEF PassOperatorGate
  <2>2. CASE flow[f].job = "clear" /\ GoTo(f, IF HasSession THEN "stop" ELSE "clear")
    BY <1>6, <2>2, GoToMoves DEF PassOperatorGate
  <2> QED BY <1>6, <2>1, <2>2 DEF PassOperatorGate
<1>7. CASE TakeOverForExec(f)
  <2>1. GoTo(f, IF HasSession THEN "stop" ELSE "start")
    BY <1>7 DEF TakeOverForExec
  <2> QED BY <1>7, <2>1, GoToMoves DEF TakeOverForExec
<1>8. CASE PassTakeoverGate(f)
  <2>1. CASE Finish(f)
    BY <1>8, <2>1, FinishMoves DEF PassTakeoverGate
  <2>2. CASE EnterCleanup(f, runner)
    BY <1>8, <2>2, CleanupMoves DEF PassTakeoverGate
  <2>3. ASSUME NEW flag, flow' = [flow EXCEPT ![f].pc = "stop", ![f].flag = flag]
        PROVE  MovesOn(f) /\ flow[f].pc # "idle" /\ ~At(f, Starters, "start")
    <3>1. flow[f].job \in Takeovers /\ flow[f].pc = "gate"
      BY <1>8 DEF PassTakeoverGate
    <3>2. Moves(f) /\ flow'[f].pc = "stop" /\ flow'[f].job = flow[f].job
      BY <2>3, FlagMoves
    <3> QED BY <3>1, <3>2
  <2> QED BY <1>8, <2>1, <2>2, <2>3 DEF PassTakeoverGate
<1>9. CASE DisposeForTakeover(f)
  BY <1>9, BeginExecMoves, RefreshMoves DEF DisposeForTakeover
<1>10. CASE TakeoverRefreshFails(f)
  BY <1>10, CleanupMoves DEF TakeoverRefreshFails
<1>11. CASE PassTakeoverRegate(f)
  BY <1>11, CleanupMoves, GoToMoves, BeginExecMoves DEF PassTakeoverRegate
<1>12. CASE StartClear(f) \/ StartClearFails(f) \/ ClearExits(f)
  BY <1>12, GoToMoves, CleanupMoves DEF StartClear, StartClearFails, ClearExits
<1>13. CASE DisposeAfterClear(f)
  BY <1>13, BeginExecMoves, FinishMoves DEF DisposeAfterClear
<1>14. CASE DisposeForLaunch(f)
  <2>1. GoTo(f, IF flow[f].job = "exec" THEN "start" ELSE "clear")
    BY <1>14 DEF DisposeForLaunch
  <2> QED BY <1>14, <2>1, GoToMoves DEF DisposeForLaunch
<1>15. CASE DisposeForStop(f) \/ FinishStop(f)
  BY <1>15, FinishMoves, RefreshMoves DEF DisposeForStop, FinishStop
<1>16. CASE StartExecRun(f)
  BY <1>16, GoToMoves, FinishMoves DEF StartExecRun
<1>17. CASE StartExecRunFails(f)
  BY <1>17, CleanupMoves, FinishMoves DEF StartExecRunFails
<1>18. CASE SubmitPrompt(f) \/ SendInput(f)
  BY <1>18, CleanupMoves, FinishMoves DEF SubmitPrompt, SendInput
<1> QED BY <1>3, <1>4, <1>5, <1>6, <1>7, <1>8, <1>9, <1>10, <1>11, <1>12, <1>13, <1>14, <1>15,
           <1>16, <1>17, <1>18 DEF TakingOver

\* While one call is under way, no other call is.
LEMMA OthersIdle ==
  ASSUME IInv, OneCall, OneCall', NEW f \in Ops, Moves(f), flow[f].pc # "idle" \/ flow'[f].pc # "idle"
  PROVE  \A g \in Ops \ {f} : flow[g].pc = "idle" /\ flow[g].job = "none" /\ ~Ending(g)
<1> SUFFICES ASSUME NEW g \in Ops \ {f} PROVE flow[g].pc = "idle" /\ flow[g].job = "none" /\ ~Ending(g)
  OBVIOUS
<1>1. g \in Flows /\ flow'[g] = flow[g]
  BY OpIsFlow DEF Moves
<1>2. flow[g].pc = "idle"
  BY <1>1 DEF OneCall
<1>3. flow[g].job = "none"
  BY <1>1, <1>2 DEF IInv, FlowInv, FlowsWellFormed
<1> QED BY <1>2, <1>3 DEF Ending, Takeovers

\* Beside a call no start of `takt run` waits for its process, unless the call is harmless.
LEMMA NoRivalStart ==
  ASSUME IInv, SerialInv, LiveInv, OneCall, OneCall', NEW f \in Ops, Moves(f),
         flow[f].pc # "idle" \/ flow'[f].pc # "idle", ~At(f, Starters, "start"),
         NEW g \in Flows, At(g, Starters, "start")
  PROVE  g = "tick" /\ FollowUpInFlight /\ flow[f].job \in Harmless
<1>1. g \in Ops => g = f
  BY OthersIdle DEF At
<1>2. g = "tick"
  BY <1>1 DEF Flows
<1>3. FollowUpInFlight
  BY <1>2 DEF LiveInv, StartsAreNamed, At, Starters, FollowUpInFlight
<1> QED BY <1>2, <1>3 DEF SerialInv

\* A step of a call that leaves the PTY and the session alone, and may sync.
LEMMA SyncLive ==
  ASSUME IInv, SerialInv, LiveInv, OneCall, OneCall', NEW f \in Ops, MovesOn(f),
         flow[f].pc # "idle" \/ flow'[f].pc # "idle", ~At(f, Starters, "start"),
         runner' = runner, queue' = queue, NEW s, control' \in {control, Synced(s, queue, runner)},
         \/ control' = control \/ HasSession \/ ~Holding \/ At("tick", Starters, "start")
  PROVE  LiveInv'
<1>1. f \in Flows /\ f # "tick" /\ "tick" \in Flows
  BY OpIsFlow DEF Flows
<1>2. flow'["tick"] = flow["tick"]
  BY <1>1 DEF MovesOn, Moves
<1>3. Holding' => Holding
  BY DEF Holding, Synced
<1>4. EndedIsSynced'
  BY DEF LiveInv, EndedIsSynced, Live, Synced
<1>5. runner'.session = "none" /\ control' # NoControl =>
        ~Holding' \/ \E g \in Flows : flow'[g].job \in Starters /\ flow'[g].pc = "start"
  <2> SUFFICES ASSUME ~HasSession, control' # NoControl, Holding'
               PROVE  At("tick", Starters, "start")
    BY <1>1, <1>2 DEF HasSession, At
  <2>1. CASE control' = control
    <3>1. PICK g \in Flows : At(g, Starters, "start")
      BY <1>3, <2>1 DEF LiveInv, FreeIsEnded
    <3> QED BY <3>1, NoRivalStart DEF MovesOn
  <2> QED BY <1>3, <2>1
<1>6. FollowUpInFlight' => runner'.session # "live"
  BY <1>2 DEF LiveInv, FollowUpIsNotLive, FollowUpInFlight, Live
<1>7. runner'.session = "none" /\ runner'.connected => runner'.lastExit = "none"
  BY DEF LiveInv, FreshAttach, HasSession
<1>8. \A g \in Ops \ {f} : flow[g].pc # "editor"
  BY OthersIdle DEF MovesOn
<1> QED BY <1>1, <1>3, <1>4, <1>5, <1>6, <1>7, <1>8, LiveIntro

\* dispose() frees the PTY and empties the broker; a cleared session is synced: either way
\* there is nothing left to restore.
LEMMA EmptyLive ==
  ASSUME IInv, LiveInv, OneCall, OneCall', NEW f \in Ops, MovesOn(f),
         flow[f].pc # "idle" \/ flow'[f].pc # "idle",
         queue'.active => queue.active, ~control'.active,
         \/ control' = NoControl /\ runner'.session = "none" /\ ~runner'.connected /\ runner'.up = runner.up
         \/ ~queue'.active /\ runner' = runner
  PROVE  LiveInv'
<1>1. f \in Flows /\ f # "tick" /\ "tick" \in Flows
  BY OpIsFlow DEF Flows
<1>2. flow'["tick"] = flow["tick"]
  BY <1>1 DEF MovesOn, Moves
<1>3. Holding' => Holding
  BY DEF Holding
<1>4. EndedIsSynced'
  BY DEF EndedIsSynced
<1>5. runner'.session = "none" /\ control' # NoControl => ~Holding'
  BY DEF Holding
<1>6. FollowUpInFlight' => runner'.session # "live"
  BY <1>2 DEF LiveInv, FollowUpIsNotLive, FollowUpInFlight, Live
<1>7. runner'.session = "none" /\ runner'.connected => runner'.lastExit = "none"
  BY DEF LiveInv, FreshAttach, HasSession
<1>8. \A g \in Ops \ {f} : flow[g].pc # "editor"
  BY OthersIdle DEF MovesOn
<1> QED BY <1>1, <1>3, <1>4, <1>5, <1>6, <1>7, <1>8, LiveIntro

\* The process exits: the screen of an exited session keeps the PTY.
LEMMA ExitLive ==
  ASSUME IInv, LiveInv, NEW f \in Flows, MovesOn(f),
         NEW code \in {"ok", "fail"}, ProcessExits(code)
  PROVE  LiveInv'
<1>1. /\ runner'.session = "exited" /\ runner'.up = runner.up
      /\ queue' = queue
      /\ control' \in {control, Synced(stage', queue, runner')}
  BY DEF ProcessExits, IInv, BrokerInv, BrokerHoldsBudget, Runner
<1>2. Holding' => Holding
  BY <1>1 DEF Holding, Synced
<1>3. EndedIsSynced'
  BY <1>1 DEF EndedIsSynced, Live
<1> QED BY <1>1, <1>2, <1>3, LiveIntro

\* A call launches something other than `takt run`: the broker of the PTY it found free
\* holds no session.
LEMMA LaunchLive ==
  ASSUME IInv, SerialInv, LiveInv, OneCall, OneCall', NEW f \in Ops, MovesOn(f),
         flow[f].pc \in {"start", "clear"}, ~At(f, Starters, "start"), ~HasSession,
         queue' = queue, NEW s, control' \in {control, Synced(s, queue, runner')},
         runner'.session \in {"live", "exited"}, runner'.up
  PROVE  LiveInv'
<1>1. f \in Flows /\ f # "tick" /\ "tick" \in Flows /\ flow[f].pc # "idle"
  BY OpIsFlow DEF Flows
<1>2. flow'["tick"] = flow["tick"]
  BY <1>1 DEF MovesOn, Moves
<1>3. flow[f].job \notin Harmless
  BY <1>1 DEF LiveInv, StartsAreNamed
<1>4. ~FollowUpInFlight
  BY <1>3 DEF SerialInv
<1>5. ~control.active
  <2>1. \A g \in Flows : ~At(g, Starters, "start")
    BY <1>1, <1>3, NoRivalStart DEF MovesOn
  <2> QED BY <2>1 DEF LiveInv, FreeIsEnded, NoControl, Holding
<1>6. EndedIsSynced'
  BY <1>5 DEF EndedIsSynced, Synced
<1>7. Holding' => Holding
  BY DEF Holding, Synced
<1>8. \A g \in Ops \ {f} : flow[g].pc # "editor"
  BY <1>1, OthersIdle DEF MovesOn
<1>9. ~FollowUpInFlight'
  BY <1>2, <1>4 DEF FollowUpInFlight
<1> QED BY <1>1, <1>6, <1>7, <1>8, <1>9, LiveIntro

\* A start that throws leaves the PTY as it was, or with a screen that keeps it.
LEMMA FailedStartForms ==
  ASSUME IInv, NEW f, NEW r \in FailedStarts(f)
  PROVE  \/ r = runner
         \/ ~HasSession /\ r.session = "exited" /\ r.connected /\ r.up
BY DEF FailedStarts, IInv, BrokerInv, BrokerHoldsBudget, Runner

LEMMA DisposeLive ==
  ASSUME IInv, LiveInv, OneCall, OneCall', NEW f \in Ops, MovesOn(f), flow[f].pc # "idle",
         NEW code \in KillCodes, Dispose(code), queue'.active => queue.active
  PROVE  LiveInv'
<1>1. /\ runner'.session = "none" /\ ~runner'.connected /\ runner'.up = runner.up
      /\ control' = NoControl
  BY DEF Dispose, IInv, BrokerInv, BrokerHoldsBudget, Runner
<1>2. ~control'.active
  BY <1>1 DEF NoControl
<1> QED BY <1>1, <1>2, EmptyLive

\* A call ends the session as it begins, or as a stop is confirmed.
LEMMA EndedLive ==
  ASSUME IInv, LiveInv, NEW f \in Ops, Moves(f),
         flow'[f].pc \notin {"editor", "start", "clear"}, runner' = runner, ~Holding',
         \A g \in Ops \ {f} : flow[g].pc = "idle" /\ flow[g].job = "none" /\ ~Ending(g)
  PROVE  LiveInv'
<1>1. f \in Flows /\ f # "tick" /\ "tick" \in Flows /\ \A g \in Ops : g \in Flows
  BY OpIsFlow DEF Flows
<1>2. \A g \in Flows \ {f} : flow'[g] = flow[g]
  BY DEF Moves
<1>3. EndedIsSynced' /\ FreeIsEnded' /\ EndingHasEnded'
  BY DEF Holding, EndedIsSynced, FreeIsEnded, EndingHasEnded
<1>4. EditorHasSession'
  BY <1>1, <1>2 DEF EditorHasSession
<1>5. FollowUpIsNotLive' /\ FreshAttach'
  BY <1>1, <1>2 DEF LiveInv, FollowUpIsNotLive, FreshAttach, FollowUpInFlight, Live, HasSession
<1>6. StartsAreNamed'
  BY <1>1, <1>2 DEF LiveInv, StartsAreNamed
<1> QED BY <1>3, <1>4, <1>5, <1>6 DEF LiveInv

\* The editor of sendInput opens while the process is there.
LEMMA EditorLive ==
  ASSUME IInv, LiveInv, NEW f \in Ops, Moves(f), CallInput(f)
  PROVE  LiveInv'
<1>1. f \in Flows /\ f # "tick" /\ "tick" \in Flows /\ \A g \in Ops : g \in Flows
  BY OpIsFlow DEF Flows
<1>2. \A g \in Flows \ {f} : flow'[g] = flow[g]
  BY DEF Moves
<1>3. flow'[f].pc = "editor" /\ flow'[f].job = "input" /\ flow[f].pc = "idle"
  BY <1>1, CallMoves DEF CallInput, IInv
<1>4. UNCHANGED <<queue, runner, control>> /\ HasSession /\ runner.up
  BY DEF CallInput, Live, HasSession, IInv, BrokerInv, BrokerHoldsBudget
<1>5. EndedIsSynced' /\ FreeIsEnded' /\ FreshAttach'
  BY <1>4 DEF LiveInv, EndedIsSynced, FreeIsEnded, FreshAttach, HasSession, Live
<1>6. EndingHasEnded'
  <2> SUFFICES ASSUME NEW g \in Ops, Ending(g)' PROVE ~Holding'
    BY DEF EndingHasEnded
  <2>1. Ending(g)
    BY <1>1, <1>2, <1>3 DEF Ending, Takeovers
  <2> QED BY <1>4, <2>1 DEF LiveInv, EndingHasEnded, Holding
<1>7. EditorHasSession'
  BY <1>4 DEF EditorHasSession, HasSession
<1>8. FollowUpIsNotLive'
  BY <1>1, <1>2, <1>4 DEF LiveInv, FollowUpIsNotLive, FollowUpInFlight, Live
<1>9. StartsAreNamed'
  BY <1>1, <1>2, <1>3 DEF LiveInv, StartsAreNamed
<1> QED BY <1>5, <1>6, <1>7, <1>8, <1>9 DEF LiveInv

LEMMA CallingLive ==
  ASSUME IInv, SerialInv, LiveInv, OneCall, OneCall', NEW f \in Ops, Calling(f)
  PROVE  LiveInv'
<1>1. f \in Flows /\ f # "tick" /\ FlowInv
  BY OpIsFlow DEF IInv
<1>2. flow[f].pc = "idle" /\ flow[f].job = "none" /\ Moves(f) /\ flow'[f].pc # "idle"
  <2>1. flow[f].pc = "idle" /\ Moves(f) /\ flow'[f].pc # "idle"
    BY <1>1, CallMoves DEF Calling, CallRunPending, CallTakeover, CallExec, CallClear, CallStop,
       CallRefresh, CallInput
  <2> QED BY <1>1, <2>1 DEF FlowInv, FlowsWellFormed
<1>3. ~At(f, Starters, "start")
  BY <1>2 DEF At
<1>4. CASE CallTakeover(f)
  <2>1. flow'[f].job \in Takeovers /\ flow'[f].pc = "refresh"
    BY <1>1, <1>4, CallMoves DEF CallTakeover
  <2>2. queue' = ClearedQueue /\ runner' = runner /\ ~control'.active
    BY <1>4, SyncEnds DEF CallTakeover, Sync, ClearQueue
  <2>3. ~Holding'
    BY <2>2 DEF Holding, ClearedQueue
  <2>4. \A g \in Ops \ {f} : flow[g].pc = "idle" /\ flow[g].job = "none" /\ ~Ending(g)
    BY <1>2, OthersIdle
  <2> QED BY <1>1, <1>2, <2>1, <2>2, <2>3, <2>4, EndedLive
<1>5. CASE CallInput(f)
  BY <1>1, <1>2, <1>5, EditorLive
<1>6. CASE ~CallTakeover(f) /\ ~CallInput(f)
  <2>1. runner' = runner /\ queue' = queue /\ control' = control
    BY <1>6 DEF Calling, CallRunPending, CallExec, CallClear, CallStop, CallRefresh
  <2>2. /\ flow'[f].pc \in {"catalog", "refresh", "confirm", "undo"}
        /\ flow'[f].job \notin Takeovers
        /\ flow'[f].job = "stop" => flow'[f].pc \in {"confirm", "undo"}
    <3>1. CASE CallStop(f)
      <4>1. Call(f, "stop", IF Live THEN "confirm" ELSE "undo", "none")
        BY <3>1 DEF CallStop
      <4> QED BY <1>1, <4>1, CallMoves DEF Takeovers
    <3> QED BY <1>1, <1>6, <3>1, CallMoves
            DEF Calling, CallRunPending, CallExec, CallClear, CallRefresh, Takeovers
  <2>3. MovesOn(f)
    BY <1>1, <1>2, <2>2 DEF MovesOn, Ending
  <2> QED BY <1>2, <1>3, <2>1, <2>3, SyncLive
<1> QED BY <1>4, <1>5, <1>6

LEMMA ConfirmStopLive ==
  ASSUME IInv, SerialInv, LiveInv, OneCall, OneCall', NEW f \in Ops, ConfirmStop(f)
  PROVE  LiveInv'
<1>1. f \in Flows /\ f # "tick" /\ FlowInv
  BY OpIsFlow DEF IInv
<1>2. flow[f].pc = "confirm" /\ flow[f].job = "stop" /\ runner' = runner
  BY DEF ConfirmStop, At
<1>3. CASE Finish(f) /\ UNCHANGED <<stage, queue, control>>
  <2>1. MovesOn(f)
    BY <1>1, <1>3, FinishMoves DEF MovesOn, Ending, Takeovers
  <2>2. ~At(f, Starters, "start")
    BY <1>2 DEF At
  <2> QED BY <1>2, <1>3, <2>1, <2>2, SyncLive
<1>4. CASE /\ ClearQueue /\ GoTo(f, "stop")
           /\ control' = Synced(stage', queue', runner')
  <2>1. Moves(f) /\ flow'[f].pc = "stop" /\ flow'[f].job = "stop"
    BY <1>1, <1>2, <1>4, GoToMoves
  <2>2. queue' = ClearedQueue /\ ~control'.active
    BY <1>2, <1>4, SyncEnds DEF ClearQueue
  <2>3. ~Holding'
    BY <2>2 DEF Holding, ClearedQueue
  <2>4. \A g \in Ops \ {f} : flow[g].pc = "idle" /\ flow[g].job = "none" /\ ~Ending(g)
    BY <1>2, <2>1, OthersIdle
  <2> QED BY <1>1, <1>2, <2>1, <2>2, <2>3, <2>4, EndedLive
<1> QED BY <1>2, <1>3, <1>4 DEF ConfirmStop

LEMMA StoppingLive ==
  ASSUME IInv, SerialInv, LiveInv, OneCall, OneCall', NEW f \in Ops,
         StopRun(f) \/ StopInCleanup(f) \/ StopTimesOut(f) \/ DisposeInCleanup(f)
  PROVE  LiveInv'
<1>1. MovesOn(f) /\ flow[f].pc # "idle" /\ ~At(f, Starters, "start") /\ f \in Flows
  <2>1. ~ConfirmStop(f)
    BY DEF ConfirmStop, At, StopRun, StopInCleanup, StopAndWait, StopTimesOut, DisposeInCleanup
  <2> QED BY <2>1, TakingOverMoves, OpIsFlow DEF TakingOver
<1>2. CASE StopRun(f) \/ StopInCleanup(f)
  <2>1. CASE Live
    <3>1. PICK code \in {"ok", "fail"} : ProcessExits(code)
      BY <1>2, <2>1 DEF StopRun, StopInCleanup, StopAndWait
    <3> QED BY <1>1, <3>1, ExitLive
  <2>2. CASE ~Live
    <3>1. runner' = runner /\ queue' = queue /\ control' = control
      BY <1>2, <2>2 DEF StopRun, StopInCleanup, StopAndWait
    <3> QED BY <1>1, <3>1, SyncLive
  <2> QED BY <2>1, <2>2
<1>3. CASE StopTimesOut(f)
  <2>1. runner' = runner /\ queue' = queue /\ HasSession
    BY <1>3 DEF StopTimesOut, ExitNeverComes, HasSession
  <2>2. control' \in {control, Synced(stage', queue, runner)}
    BY <1>3 DEF StopTimesOut, EnterCleanup
  <2> QED BY <1>1, <2>1, <2>2, SyncLive
<1>4. CASE DisposeInCleanup(f)
  <2>1. PICK code \in KillCodes : Dispose(code)
    BY <1>4 DEF DisposeInCleanup
  <2>2. queue' = queue
    BY <1>4 DEF DisposeInCleanup
  <2> QED BY <1>1, <2>1, <2>2, DisposeLive
<1> QED BY <1>2, <1>3, <1>4

LEMMA DisposingLive ==
  ASSUME IInv, SerialInv, LiveInv, OneCall, OneCall', NEW f \in Ops,
         \/ DisposeForTakeover(f) \/ DisposeAfterClear(f) \/ DisposeForLaunch(f)
         \/ DisposeForStop(f)
  PROVE  LiveInv'
<1>1. MovesOn(f) /\ flow[f].pc # "idle"
  <2>1. ~ConfirmStop(f)
    BY DEF ConfirmStop, At, DisposeForTakeover, DisposeAfterClear, DisposeForLaunch, DisposeForStop
  <2> QED BY <2>1, TakingOverMoves DEF TakingOver
<1>2. PICK code \in KillCodes : Dispose(code)
  BY DEF DisposeForTakeover, DisposeAfterClear, DisposeForLaunch, DisposeForStop
<1>3. queue' \in {queue, ClearedQueue}
  BY DEF DisposeForTakeover, DisposeAfterClear, DisposeForLaunch, DisposeForStop, BeginExec,
         ClearQueue
<1> QED BY <1>1, <1>2, <1>3, DisposeLive DEF ClearedQueue

LEMMA GateLive ==
  ASSUME IInv, SerialInv, LiveInv, OneCall, OneCall', NEW f \in Ops,
         \/ PassOperatorGate(f) \/ TakeOverForExec(f) \/ PassTakeoverGate(f)
         \/ TakeoverRefreshFails(f) \/ PassTakeoverRegate(f)
  PROVE  LiveInv'
<1>1. MovesOn(f) /\ flow[f].pc # "idle" /\ ~At(f, Starters, "start")
  <2>1. ~ConfirmStop(f)
    BY DEF ConfirmStop, At, PassOperatorGate, TakeOverForExec, PassTakeoverGate,
           TakeoverRefreshFails, PassTakeoverRegate
  <2> QED BY <2>1, TakingOverMoves DEF TakingOver
<1>2. runner' = runner
  BY DEF PassOperatorGate, TakeOverForExec, PassTakeoverGate, TakeoverRefreshFails,
         PassTakeoverRegate
<1>3. CASE PassOperatorGate(f)
  BY <1>1, <1>3, SyncLive DEF PassOperatorGate
<1>4. CASE TakeOverForExec(f)
  <2>1. queue' = ClearedQueue /\ ~control'.active
    BY <1>4, SyncEnds DEF TakeOverForExec, Sync, ClearQueue
  <2> QED BY <1>1, <1>2, <2>1, EmptyLive DEF ClearedQueue
<1>5. CASE PassTakeoverGate(f) \/ TakeoverRefreshFails(f)
  <2>1. queue' = queue
    BY <1>5 DEF PassTakeoverGate, TakeoverRefreshFails
  <2>2. \/ control' = control
        \/ HasSession /\ control' = Synced(stage', queue, runner)
    BY <1>5 DEF PassTakeoverGate, TakeoverRefreshFails, EnterCleanup, HasSession, Live
  <2> QED BY <1>1, <1>2, <2>1, <2>2, SyncLive
<1>6. CASE PassTakeoverRegate(f)
  <2>1. ~Holding
    BY <1>6 DEF PassTakeoverRegate, At, LiveInv, EndingHasEnded, Ending
  <2>2. CASE queue' = queue /\ control' \in {control, Synced(stage', queue, runner)}
    BY <1>1, <1>2, <2>1, <2>2, SyncLive
  <2>3. CASE queue' = ClearedQueue /\ control' = Synced(stage', queue', runner)
    <3>1. ~control'.active
      BY <2>3, SyncEnds
    <3> QED BY <1>1, <1>2, <2>3, <3>1, EmptyLive DEF ClearedQueue
  <2> QED BY <1>6, <2>2, <2>3 DEF PassTakeoverRegate, BeginExec, ClearQueue, EnterCleanup
<1> QED BY <1>3, <1>4, <1>5, <1>6

LEMMA LaunchingLive ==
  ASSUME IInv, SerialInv, LiveInv, OneCall, OneCall', NEW f \in Ops,
         \/ StartClear(f) \/ StartClearFails(f) \/ ClearExits(f) \/ FinishStop(f)
         \/ StartExecRun(f) \/ StartExecRunFails(f) \/ SubmitPrompt(f) \/ SendInput(f)
  PROVE  LiveInv'
<1>1. MovesOn(f) /\ flow[f].pc # "idle" /\ ~At(f, Starters, "start")
  <2>1. ~ConfirmStop(f)
    BY DEF ConfirmStop, At, StartClear, StartClearFails, ClearExits, FinishStop, StartExecRun,
           StartExecRunFails, SubmitPrompt, SendInput
  <2> QED BY <2>1, TakingOverMoves DEF TakingOver
<1>2. queue' = queue
  BY DEF StartClear, StartClearFails, ClearExits, FinishStop, StartExecRun, StartExecRunFails,
         SubmitPrompt, SendInput
<1>3. CASE StartClear(f)
  <2>1. runner'.session = "live" /\ runner'.up /\ control' = control /\ ~HasSession /\ flow[f].pc = "clear"
    BY <1>3 DEF StartClear, Started, IInv, BrokerInv, BrokerHoldsBudget, Runner
  <2> QED BY <1>1, <1>2, <2>1, LaunchLive
<1>4. CASE StartExecRun(f)
  <2>1. runner'.session \in {"live", "exited"} /\ runner'.up
    BY <1>4 DEF StartExecRun, Spawned, Started, IInv, BrokerInv, BrokerHoldsBudget, Runner
  <2>2. /\ control' \in {control, Synced(stage', queue, runner')}
        /\ ~HasSession /\ flow[f].pc = "start"
    BY <1>4 DEF StartExecRun, At
  <2> QED BY <1>1, <1>2, <2>1, <2>2, LaunchLive
<1>5. CASE StartClearFails(f) \/ StartExecRunFails(f)
  <2>1. runner' \in FailedStarts(f) /\ flow[f].pc \in {"start", "clear"}
    BY <1>5 DEF StartClearFails, StartExecRunFails, At
  <2>2. control' = control \/ (runner'.session = "live" /\ control' = Synced(stage', queue, runner'))
    BY <1>5 DEF StartClearFails, StartExecRunFails, EnterCleanup
  <2>3. CASE runner' = runner
    BY <1>1, <1>2, <2>2, <2>3, SyncLive DEF HasSession
  <2>4. CASE ~HasSession /\ runner'.session = "exited" /\ runner'.connected /\ runner'.up
    BY <1>1, <1>2, <2>1, <2>2, <2>4, LaunchLive
  <2> QED BY <2>1, <2>3, <2>4, FailedStartForms
<1>6. CASE ClearExits(f) \/ SubmitPrompt(f)
  <2>1. runner' = runner
    BY <1>6 DEF ClearExits, SubmitPrompt
  <2>2. control' = control \/ (HasSession /\ control' = Synced(stage', queue, runner))
    BY <1>6 DEF ClearExits, SubmitPrompt, EnterCleanup, Live, HasSession
  <2> QED BY <1>1, <1>2, <2>1, <2>2, SyncLive
<1>7. CASE FinishStop(f)
  <2>1. ~Holding
    BY <1>7 DEF FinishStop, At, LiveInv, EndingHasEnded, Ending
  <2> QED BY <1>1, <1>7, <2>1, SyncLive DEF FinishStop
<1>8. CASE SendInput(f)
  <2>1. HasSession \/ At("tick", Starters, "start")
    BY <1>8 DEF SendInput, LiveInv, EditorHasSession
  <2>2. control' \in {control, Synced(stage', queue, runner)} /\ runner' = runner
    BY <1>8 DEF SendInput
  <2> QED BY <1>1, <1>2, <2>1, <2>2, SyncLive
<1> QED BY <1>3, <1>4, <1>5, <1>6, <1>7, <1>8

LEMMA OperatorLive ==
  ASSUME IInv, SerialInv, LiveInv, OneCall, OneCall', NEW f \in Ops, Calling(f) \/ TakingOver(f)
  PROVE  LiveInv'
BY CallingLive, ConfirmStopLive, StoppingLive, DisposingLive, GateLive, LaunchingLive DEF TakingOver

\* A step that leaves the PTY alone, drops the session at most, and syncs what there is.
LEMMA RefreshLive ==
  ASSUME IInv, LiveInv, NEW f \in Flows, MovesOn(f), ~At(f, Starters, "start"),
         runner' = runner, queue'.active => queue.active,
         NEW s, control' \in {control, Synced(s, queue', runner)},
         Live => queue'.active = queue.active,
         HasSession \/ control' = control \/ ~queue'.active,
         FollowUpInFlight' => ~Live
  PROVE  LiveInv'
<1>1. Holding' => Holding
  BY DEF Holding, Synced
<1>2. EndedIsSynced'
  BY DEF LiveInv, EndedIsSynced, Live, Synced
<1>3. runner'.session = "none" /\ control' # NoControl =>
        ~Holding' \/ \E g \in Flows : flow'[g].job \in Starters /\ flow'[g].pc = "start"
  <2> SUFFICES ASSUME ~HasSession, control' # NoControl, Holding'
               PROVE  \E g \in Flows : flow'[g].job \in Starters /\ flow'[g].pc = "start"
    BY DEF HasSession
  <2>1. control' = control
    BY DEF Holding, Synced
  <2>2. PICK g \in Flows : At(g, Starters, "start")
    BY <1>1, <2>1 DEF LiveInv, FreeIsEnded
  <2>3. flow'[g] = flow[g]
    BY <2>2 DEF MovesOn, Moves
  <2> QED BY <2>2, <2>3 DEF At
<1>4. \A g \in Ops \ {f} : flow[g].pc = "editor" =>
        runner'.session # "none" \/ (flow'["tick"].job \in Starters /\ flow'["tick"].pc = "start")
  <2> SUFFICES ASSUME At("tick", Starters, "start")
               PROVE  flow'["tick"].job \in Starters /\ flow'["tick"].pc = "start"
    BY DEF LiveInv, EditorHasSession, HasSession
  <2>1. f # "tick" /\ "tick" \in Flows
    BY DEF Flows
  <2> QED BY <2>1 DEF MovesOn, Moves, At
<1>5. FollowUpInFlight' => runner'.session # "live"
  BY DEF Live
<1>6. runner'.session = "none" /\ runner'.connected => runner'.lastExit = "none"
  BY DEF LiveInv, FreshAttach, HasSession
<1> QED BY <1>1, <1>2, <1>3, <1>4, <1>5, <1>6, LiveIntro

\* refreshProject moves a call on, to where it returns to.
LEMMA RefreshMovesOn ==
  ASSUME IInv, LiveInv, NEW f \in Flows, flow[f].pc \in {"refresh", "summary", "tasklist"},
         Moves(f), flow'[f].pc \in {"summary", "tasklist", "gate", "regate", "continue"},
         flow'[f].job = flow[f].job
  PROVE  MovesOn(f) /\ ~At(f, Starters, "start") /\ (FollowUpInFlight' => FollowUpInFlight)
<1>1. flow'["tick"].job = flow["tick"].job
  BY DEF Moves, Flows
<1> QED BY <1>1 DEF MovesOn, Ending, At, LiveInv, StartsAreNamed, FollowUpInFlight

LEMMA ReturnMovesOn ==
  ASSUME IInv, LiveInv, NEW f \in Flows, flow[f].pc \in {"summary", "tasklist"},
         GoTo(f, flow[f].ret)
  PROVE  MovesOn(f) /\ ~At(f, Starters, "start") /\ (FollowUpInFlight' => FollowUpInFlight)
<1>1. flow[f].ret \in {"gate", "regate", "continue"}
  BY DEF IInv, FlowInv, FlowsWellFormed, Flow
<1>2. Moves(f) /\ flow'[f].pc = flow[f].ret /\ flow'[f].job = flow[f].job
  BY GoToMoves DEF IInv
<1> QED BY <1>1, <1>2, RefreshMovesOn

LEMMA ArmLive ==
  ASSUME IInv, LiveInv, NEW f \in Flows, flow[f].pc \in {"summary", "tasklist"}, NEW count,
         ArmQueueContinuation(f, count)
  PROVE  LiveInv'
<1> DEFINE reason == DecideQueueContinuation(queue, Live, flow[f].exit, stage', count,
                                             MaxContinuations)
<1>1. queue \in QueueSession(0..MaxContinuations)
  BY DEF IInv, BrokerInv, BrokerHoldsBudget
<1>2. /\ queue' = AfterDecision(queue, reason)
      /\ control' = IF stage' # stage \/ reason = "no-pending-tasks"
                      THEN Synced(stage', queue', runner) ELSE control
      /\ runner' = runner
      /\ ~Live => stage' = stage
  BY DEF ArmQueueContinuation, ExecOutcomes
<1>3. Live => reason \notin EndingReasons \cup {"pending-tasks-remain"}
  BY DEF DecideQueueContinuation, EndingReasons
<1>4. MovesOn(f) /\ ~At(f, Starters, "start") /\ (FollowUpInFlight' => FollowUpInFlight)
  BY ReturnMovesOn DEF ArmQueueContinuation
<1> HIDE DEF reason
<1>5. /\ Live => queue' = queue
      /\ queue'.active => queue.active
      /\ reason = "no-pending-tasks" => ~queue'.active
  <2>1. CASE reason = "pending-tasks-remain"
    BY <1>1, <1>2, <1>3, <2>1 DEF AfterDecision, QueueSession
  <2>2. CASE reason = "no-pending-tasks"
    BY <1>1, <1>2, <1>3, <2>2 DEF AfterDecision, ClearedQueue, EndingReasons
  <2>3. CASE reason \in EndingReasons \ {"no-pending-tasks"}
    <3>1. queue' = [queue EXCEPT !.active = FALSE, !.armed = FALSE]
      BY <1>2, <2>3 DEF AfterDecision, EndingReasons
    <3> QED BY <1>1, <1>3, <2>3, <3>1 DEF QueueSession
  <2>4. CASE reason \notin EndingReasons \cup {"pending-tasks-remain"}
    BY <1>2, <2>4 DEF AfterDecision, EndingReasons
  <2> QED BY <2>1, <2>2, <2>3, <2>4
<1>6. control' \in {control, Synced(stage', queue', runner)}
  BY <1>2
<1>7. HasSession \/ control' = control \/ ~queue'.active
  BY <1>2, <1>5 DEF HasSession, Live
<1>8. FollowUpInFlight' => ~Live
  BY <1>4 DEF LiveInv, FollowUpIsNotLive
<1> QED BY <1>2, <1>4, <1>5, <1>6, <1>7, <1>8, RefreshLive

LEMMA RefreshAttachLive ==
  ASSUME IInv, SerialInv, LiveInv, NEW f \in Flows, RefreshAttach(f)
  PROVE  LiveInv'
<1>1. MovesOn(f) /\ ~At(f, Starters, "start") /\ (FollowUpInFlight' => FollowUpInFlight)
  <2>1. /\ flow[f].pc = "refresh"
        /\ Moves(f) /\ flow'[f].pc = "summary" /\ flow'[f].job = flow[f].job
    BY DEF RefreshAttach, Moves, IInv, FlowInv, Flow
  <2> QED BY <2>1, RefreshMovesOn
<1>2. Holding' => Holding
  BY RefreshAttachKeeps DEF Keeps
<1>3. /\ runner'.session = runner.session /\ runner'.up = runner.up
      /\ ~HasSession => runner'.connected = runner.up
      /\ ~HasSession /\ runner'.connected => runner'.lastExit = "none"
  BY DEF RefreshAttach, Attached, Attaches, HasSession, LiveInv, FreshAttach, IInv, BrokerInv,
         BrokerHoldsBudget, Runner
<1>4. EndedIsSynced'
  <2> SUFFICES ASSUME Live, control'.active PROVE queue'.active
    BY <1>3 DEF EndedIsSynced, Live
  <2>1. ~Attaches
    BY DEF Attaches, HasSession, Live
  <2>2. queue' = queue /\ control' \in {control, Synced(stage', queue', runner')}
    BY <2>1 DEF RefreshAttach
  <2> QED BY <2>2 DEF LiveInv, EndedIsSynced, Synced
<1>5. ~HasSession /\ control' # NoControl => control # NoControl
  <2> SUFFICES ASSUME ~HasSession, control = NoControl PROVE control' = NoControl
    OBVIOUS
  <2>1. CASE Attaches
    <3>1. runner'.connected /\ runner'.lastExit = "none"
      BY <1>3, <2>1 DEF Attaches
    <3>2. control' = SyncedByRestore(queue)
      BY <2>1, <3>1 DEF RefreshAttach, ReconciledStage
    <3> QED BY <3>2 DEF SyncedByRestore
  <2>2. CASE ~Attaches
    <3>1. ~runner'.connected
      BY <1>3, <2>2 DEF Attaches, IInv, BrokerInv, BrokerHoldsBudget, Runner
    <3> QED BY <2>2, <3>1 DEF RefreshAttach, Synced
  <2> QED BY <2>1, <2>2
<1>6. runner'.session = "none" /\ control' # NoControl =>
        ~Holding' \/ \E g \in Flows : flow'[g].job \in Starters /\ flow'[g].pc = "start"
  <2> SUFFICES ASSUME ~HasSession, control' # NoControl, Holding'
               PROVE  \E g \in Flows : flow'[g].job \in Starters /\ flow'[g].pc = "start"
    BY <1>3 DEF HasSession
  <2>1. PICK g \in Flows : At(g, Starters, "start")
    BY <1>2, <1>5 DEF LiveInv, FreeIsEnded
  <2>2. flow'[g] = flow[g]
    BY <1>1, <2>1 DEF MovesOn, Moves
  <2> QED BY <2>1, <2>2 DEF At
<1>7. \A g \in Ops \ {f} : flow[g].pc = "editor" =>
        runner'.session # "none" \/ (flow'["tick"].job \in Starters /\ flow'["tick"].pc = "start")
  <2> SUFFICES ASSUME At("tick", Starters, "start")
               PROVE  flow'["tick"].job \in Starters /\ flow'["tick"].pc = "start"
    BY <1>3 DEF LiveInv, EditorHasSession, HasSession
  <2>1. f # "tick" /\ "tick" \in Flows
    BY <1>1 DEF Flows
  <2> QED BY <1>1, <2>1 DEF MovesOn, Moves, At
<1>8. FollowUpInFlight' => runner'.session # "live"
  BY <1>1, <1>3 DEF LiveInv, FollowUpIsNotLive, Live
<1> QED BY <1>1, <1>2, <1>3, <1>4, <1>6, <1>7, <1>8, LiveIntro DEF HasSession

LEMMA RefreshingLive ==
  ASSUME IInv, SerialInv, LiveInv, NEW f \in Flows, Refreshing(f)
  PROVE  LiveInv'
<1>1. CASE RefreshAttach(f)
  BY <1>1, RefreshAttachLive
<1>2. CASE ReadTaskList(f)
  BY <1>2, ArmLive DEF ReadTaskList
<1>3. CASE ReadSummary(f)
  <2>1. CASE \E n \in {0, pending} : ArmQueueContinuation(f, n)
    BY <1>3, <2>1, ArmLive DEF ReadSummary
  <2>2. CASE /\ GoTo(f, "tasklist")
             /\ UNCHANGED <<stage, queue, tracking, runner, control, pending, followUps>>
    <3>1. MovesOn(f) /\ ~At(f, Starters, "start") /\ (FollowUpInFlight' => FollowUpInFlight)
      BY <1>3, <2>2, GoToMoves, RefreshMovesOn DEF ReadSummary, IInv
    <3>2. FollowUpInFlight' => ~Live
      BY <3>1 DEF LiveInv, FollowUpIsNotLive
    <3> QED BY <2>2, <3>1, <3>2, RefreshLive
  <2> QED BY <1>3, <2>1, <2>2 DEF ReadSummary
<1>4. CASE TaskListUnavailable(f)
  <2>1. MovesOn(f) /\ ~At(f, Starters, "start") /\ (FollowUpInFlight' => FollowUpInFlight)
    BY <1>4, ReturnMovesOn DEF TaskListUnavailable
  <2>2. /\ queue' = queue /\ runner' = runner
        /\ control' \in {control, Synced(stage', queue', runner)}
        /\ HasSession \/ control' = control
    BY <1>4 DEF TaskListUnavailable, ExecOutcomes, HasSession, Live
  <2>3. FollowUpInFlight' => ~Live
    BY <2>1 DEF LiveInv, FollowUpIsNotLive
  <2> QED BY <2>1, <2>2, <2>3, RefreshLive
<1> QED BY <1>1, <1>2, <1>3, <1>4 DEF Refreshing

\* A start of `takt run` that throws before it has begun one.
LEMMA StartThrowsLive ==
  ASSUME IInv, SerialInv, LiveInv, NEW f \in Flows, flow[f].pc \in {"catalog", "summary", "gate"},
         flow[f].job = "auto" => f = "tick", StartThrows(f, queue),
         runner' = runner, control' = control
  PROVE  LiveInv'
<1>1. Moves(f) /\ flow'[f].pc = "idle" /\ flow'[f].job = "none"
  BY FinishMoves DEF StartThrows, IInv
<1>2. MovesOn(f) /\ ~At(f, Starters, "start")
  BY <1>1 DEF MovesOn, Ending, Takeovers, At
<1>3. FollowUpInFlight' => FollowUpInFlight
  BY <1>1 DEF FollowUpInFlight, Moves, Flows
<1>4. FollowUpInFlight' => ~Live
  BY <1>3 DEF LiveInv, FollowUpIsNotLive
<1>5. (queue'.active => queue.active) /\ (flow[f].job # "auto" => queue' = queue)
  BY DEF StartThrows, IInv, BrokerInv, BrokerHoldsBudget, QueueSession
<1>6. Live => queue'.active = queue.active
  BY <1>5 DEF LiveInv, FollowUpIsNotLive, FollowUpInFlight
<1> QED BY <1>2, <1>4, <1>5, <1>6, RefreshLive

LEMMA PreparingLive ==
  ASSUME IInv, SerialInv, LiveInv, NEW f \in Flows,
         ResolveCatalog(f) \/ StatusCheckFails(f) \/ PassStartGate(f)
  PROVE  LiveInv'
<1>1. flow[f].job = "auto" => f = "tick"
  BY DEF IInv, FlowInv, FlowsWellFormed
<1>2. CASE StartThrows(f, queue) /\ runner' = runner /\ control' = control
  BY <1>1, <1>2, StartThrowsLive DEF ResolveCatalog, StatusCheckFails, PassStartGate, At
<1>3. f = "tick" => flow[f].job \in {"none", "tick", "auto"}
  BY DEF LiveInv, StartsAreNamed
<1>4. CASE ResolveCatalog(f) /\ Refresh(f, "gate") /\ UNCHANGED queue
  <2>1. Moves(f) /\ flow'[f].pc = "refresh" /\ flow'[f].job = flow[f].job
    BY <1>4, RefreshMoves DEF IInv
  <2>2. MovesOn(f) /\ ~At(f, Starters, "start")
    BY <1>3, <1>4, <2>1 DEF MovesOn, Ending, Takeovers, At, ResolveCatalog, Starters
  <2>3. ~Live /\ runner' = runner /\ control' = control
    BY <1>4, <2>1, FinishMoves DEF ResolveCatalog, StartThrows, IInv
  <2> QED BY <1>4, <2>2, <2>3, RefreshLive
<1>5. CASE /\ PassStartGate(f)
           /\ flow' = [flow EXCEPT ![f].pc = IF HasSession THEN "dispose" ELSE "start",
                                   ![f].flag = flow[f].job = "auto" \/ queue.active]
           /\ control' = IF HasSession THEN control ELSE Synced(stage', queue, runner)
           /\ UNCHANGED queue
  <2>1. /\ Moves(f) /\ flow'[f].job = flow[f].job
        /\ flow'[f].pc = IF HasSession THEN "dispose" ELSE "start"
    BY <1>5, FlagMoves DEF IInv
  <2>2. flow[f].job \in Starters /\ flow[f].pc = "gate" /\ runner' = runner /\ queue' = queue
    BY <1>5 DEF PassStartGate, At
  <2>3. MovesOn(f) /\ ~At(f, Starters, "start")
    BY <1>3, <2>1, <2>2 DEF MovesOn, Ending, Takeovers, At, Starters, Harmless
  <2>4. FollowUpInFlight' => FollowUpInFlight
    BY <2>1 DEF FollowUpInFlight, Moves, Flows
  <2>5. FollowUpInFlight' => ~Live
    BY <2>4 DEF LiveInv, FollowUpIsNotLive
  <2>6. CASE HasSession
    BY <1>5, <2>2, <2>3, <2>5, <2>6, RefreshLive
  <2>7. CASE ~HasSession
    <3>1. flow'[f].job \in Starters /\ flow'[f].pc = "start"
      BY <2>1, <2>2, <2>7
    <3>2. control' = Synced(stage', queue, runner)
      BY <1>5, <2>7
    <3>3. Holding' => Holding
      BY <2>2, <3>2 DEF Holding, Synced
    <3>4. EndedIsSynced'
      BY <2>2, <2>7 DEF EndedIsSynced, Live, HasSession
    <3>5. \A g \in Ops \ {f} : flow[g].pc = "editor" =>
            \/ runner'.session # "none"
            \/ flow'["tick"].job \in Starters /\ flow'["tick"].pc = "start"
      <4> SUFFICES ASSUME At("tick", Starters, "start")
                   PROVE  flow'["tick"].job \in Starters /\ flow'["tick"].pc = "start"
        BY <2>2 DEF LiveInv, EditorHasSession, HasSession
      <4>1. f # "tick" /\ "tick" \in Flows
        BY <2>3 DEF Flows
      <4> QED BY <2>1, <4>1 DEF Moves, At
    <3>6. runner'.session = "none" /\ runner'.connected => runner'.lastExit = "none"
      BY <2>2 DEF LiveInv, FreshAttach, HasSession
    <3>7. FollowUpInFlight' => runner'.session # "live"
      BY <2>2, <2>5 DEF Live
    <3> QED BY <2>2, <2>3, <3>1, <3>3, <3>4, <3>5, <3>6, <3>7, LiveIntro
  <2> QED BY <2>6, <2>7
<1> QED BY <1>2, <1>4, <1>5 DEF ResolveCatalog, StatusCheckFails, PassStartGate

\* The other operator calls beside a start of the queue: none, or harmless ones.
LEMMA StartersBeside ==
  ASSUME IInv, SerialInv, LiveInv, OneCall, OneCall', NEW f \in Flows, flow[f].job \in Starters,
         flow[f].pc \in {"dispose", "start"}, Moves(f)
  PROVE  /\ \A g \in Ops : ~Ending(g)
         /\ f # "tick" => ~FollowUpInFlight /\ \A g \in Ops \ {f} : flow[g].pc = "idle"
         /\ f = "tick" => FollowUpInFlight
         /\ \A g \in Flows \ {f} : flow[g].pc \notin {"start", "clear"}
<1>1. CASE f = "tick"
  <2>1. FollowUpInFlight
    BY <1>1 DEF LiveInv, StartsAreNamed, Starters, FollowUpInFlight
  <2>2. \A g \in Ops : flow[g].job \in Harmless /\ ~Ending(g)
    BY <2>1 DEF SerialInv, Harmless, Ending, Takeovers
  <2>3. \A g \in Flows \ {f} : flow[g].pc \notin {"start", "clear"}
    BY <1>1, <2>2 DEF LiveInv, StartsAreNamed, Flows
  <2> QED BY <1>1, <2>1, <2>2, <2>3
<1>2. CASE f # "tick"
  <2>1. f \in Ops
    BY <1>2 DEF Flows
  <2>2. \A g \in Ops \ {f} : flow[g].pc = "idle" /\ flow[g].job = "none" /\ ~Ending(g)
    BY <2>1, OthersIdle
  <2>3. ~Ending(f)
    BY DEF Ending, Starters, Takeovers
  <2>4. flow[f].job \notin Harmless
    BY <1>2 DEF IInv, FlowInv, FlowsWellFormed, Starters, Harmless
  <2>5. ~FollowUpInFlight
    BY <2>1, <2>4 DEF SerialInv
  <2>6. flow["tick"].pc \notin {"start", "clear"}
    BY <2>5 DEF LiveInv, StartsAreNamed, Flows, Harmless, FollowUpInFlight
  <2> QED BY <1>2, <2>2, <2>3, <2>5, <2>6 DEF Flows
<1> QED BY <1>1, <1>2

LEMMA DisposeBeforeStartLive ==
  ASSUME IInv, SerialInv, LiveInv, OneCall, OneCall', NEW f \in Flows, DisposeBeforeStart(f)
  PROVE  LiveInv'
<1>1. flow[f].job \in Starters /\ flow[f].pc = "dispose" /\ queue' = queue
  BY DEF DisposeBeforeStart, At
<1>2. Moves(f) /\ flow'[f].pc = "start" /\ flow'[f].job = flow[f].job
  BY GoToMoves DEF DisposeBeforeStart, IInv
<1>3. /\ \A g \in Ops : ~Ending(g)
      /\ f # "tick" => ~FollowUpInFlight /\ \A g \in Ops \ {f} : flow[g].pc = "idle"
  BY <1>1, <1>2, StartersBeside
<1>4. PICK code \in KillCodes : Dispose(code)
  BY DEF DisposeBeforeStart
<1>5. /\ runner'.session = "none" /\ ~runner'.connected /\ runner'.up = runner.up
      /\ control' = NoControl
  BY <1>4 DEF Dispose, IInv, BrokerInv, BrokerHoldsBudget, Runner
<1>6. MovesOn(f)
  BY <1>1, <1>2 DEF MovesOn, Ending, Takeovers, Starters, Harmless, LiveInv, StartsAreNamed
<1>7. EndedIsSynced'
  BY <1>5 DEF EndedIsSynced, NoControl
<1>8. \A g \in Ops \ {f} : flow[g].pc = "editor" =>
        flow'["tick"].job \in Starters /\ flow'["tick"].pc = "start"
  BY <1>1, <1>2, <1>3
<1> QED BY <1>3, <1>5, <1>6, <1>7, <1>8, LiveIntro

LEMMA StartQueueRunLive ==
  ASSUME IInv, SerialInv, LiveInv, OneCall, OneCall', NEW f \in Flows, StartQueueRun(f)
  PROVE  LiveInv'
<1>1. flow[f].job \in Starters /\ flow[f].pc = "start"
  BY DEF StartQueueRun, At
<1>2. Moves(f) /\ flow'[f].pc = "idle" /\ flow'[f].job = "none"
  BY FinishMoves DEF StartQueueRun, IInv
<1>3. /\ \A g \in Ops : ~Ending(g)
      /\ f # "tick" => ~FollowUpInFlight
  BY <1>1, <1>2, StartersBeside
<1>4. runner'.session \in {"live", "exited"} /\ runner'.up
  BY DEF StartQueueRun, Spawned, Started, IInv, BrokerInv, BrokerHoldsBudget, Runner
<1>5. queue'.active
  BY DEF StartQueueRun
<1>6. MovesOn(f)
  BY <1>2 DEF MovesOn, Ending, Takeovers
<1>7. EndedIsSynced'
  BY <1>5 DEF EndedIsSynced
<1>8. ~FollowUpInFlight'
  BY <1>2, <1>3 DEF Moves, FollowUpInFlight, Flows
<1> QED BY <1>3, <1>4, <1>6, <1>7, <1>8, LiveIntro

LEMMA StartQueueRunFailsLive ==
  ASSUME IInv, SerialInv, LiveInv, OneCall, OneCall', NEW f \in Flows, StartQueueRunFails(f)
  PROVE  LiveInv'
<1>1. flow[f].job \in Starters /\ flow[f].pc = "start"
  BY DEF StartQueueRunFails, At
<1>2. Moves(f) /\ flow'[f].pc = "idle" /\ flow'[f].job = "none"
  BY FinishMoves DEF StartQueueRunFails, StartThrows, IInv
<1>3. /\ \A g \in Ops : ~Ending(g)
      /\ f # "tick" => ~FollowUpInFlight /\ \A g \in Ops \ {f} : flow[g].pc = "idle"
      /\ f = "tick" => FollowUpInFlight
      /\ \A g \in Flows \ {f} : flow[g].pc \notin {"start", "clear"}
  BY <1>1, <1>2, StartersBeside
<1>4. runner' \in FailedStarts(f) /\ control' \in {control, Synced(stage', queue, runner')}
  BY DEF StartQueueRunFails
<1>5. (queue'.active => queue.active) /\ (flow[f].job # "auto" => queue' = queue)
  BY DEF StartQueueRunFails, StartThrows, IInv, BrokerInv, BrokerHoldsBudget, QueueSession
<1>6. \/ runner' = runner
      \/ ~HasSession /\ runner'.session = "exited" /\ runner'.connected /\ runner'.up
  BY <1>4, FailedStartForms
<1>7. runner'.session = "none" => runner' = runner /\ ~runner.up /\ ~HasSession
  <2> SUFFICES ASSUME runner'.session = "none" PROVE runner' = runner /\ ~runner.up /\ ~HasSession
    OBVIOUS
  <2>1. runner' = runner
    BY <1>6
  <2>2. ~HasSession
    BY <2>1 DEF HasSession
  <2>3. CASE runner' \in (IF runner.up THEN {} ELSE {runner})
    BY <2>1, <2>2, <2>3
  <2>4. runner' \notin {[runner EXCEPT !.session = "exited", !.kind = "none", !.lastExit = "none",
                                       !.connected = TRUE, !.up = TRUE]}
    BY DEF IInv, BrokerInv, BrokerHoldsBudget, Runner
  <2>5. ~\E g \in Flows \ {f} : flow[g].pc \in {"start", "clear"}
    BY <1>3
  <2> QED BY <1>4, <2>2, <2>3, <2>4, <2>5 DEF FailedStarts
<1>8. MovesOn(f)
  BY <1>2 DEF MovesOn, Ending, Takeovers
<1>9. EndedIsSynced'
  <2> SUFFICES ASSUME runner'.session = "live", control'.active PROVE queue'.active
    BY DEF EndedIsSynced, Live
  <2>1. runner' = runner /\ Live
    BY <1>6 DEF Live
  <2>2. queue' = queue
    BY <1>3, <1>5, <2>1 DEF LiveInv, FollowUpIsNotLive, IInv, FlowInv, FlowsWellFormed
  <2> QED BY <1>4, <2>1, <2>2 DEF LiveInv, EndedIsSynced, Synced
<1>10. runner'.session = "none" => control' = NoControl
  BY <1>4, <1>7 DEF Synced, IInv, BrokerInv, BrokerHoldsBudget
<1>11. \A g \in Ops \ {f} : flow[g].pc = "editor" => runner'.session # "none"
  BY <1>3, <1>7 DEF LiveInv, EditorHasSession
<1>12. FollowUpInFlight' => runner'.session # "live"
  <2>1. FollowUpInFlight' => FollowUpInFlight
    BY <1>2 DEF Moves, FollowUpInFlight, Flows
  <2> QED BY <1>6, <2>1 DEF LiveInv, FollowUpIsNotLive, Live
<1>13. runner'.session = "none" /\ runner'.connected => runner'.lastExit = "none"
  BY <1>7 DEF IInv, BrokerInv, BrokerHoldsBudget
<1>14. runner.up => runner'.up
  BY <1>6
<1> QED BY <1>3, <1>8, <1>9, <1>10, <1>11, <1>12, <1>13, <1>14, LiveIntro

LEMMA TickLive ==
  ASSUME IInv, LiveInv, TickStarts \/ RunQueueContinuations
  PROVE  LiveInv'
<1>1. "tick" \in Flows /\ FlowInv /\ flow["tick"].pc \in {"idle", "continue"}
  BY DEF IInv, Flows, TickStarts, RunQueueContinuations, At
<1>2. runner' = runner /\ control' = control
  BY DEF TickStarts, RunQueueContinuations
<1>3. queue'.active = queue.active
  BY DEF TickStarts, RunQueueContinuations, IInv, BrokerInv, BrokerHoldsBudget, QueueSession
<1>4. /\ Moves("tick") /\ flow'["tick"].pc \in {"idle", "refresh", "catalog"}
      /\ flow'["tick"].job \in {"none", "tick", "auto"}
      /\ flow'["tick"].job = "auto" => ~Live
  <2>1. CASE TickStarts
    BY <1>1, <2>1 DEF TickStarts, FlowInv, Moves, Idle
  <2>2. CASE RunQueueContinuations /\ Finish("tick")
    BY <1>1, <2>2, FinishMoves
  <2>3. CASE /\ ~Live
             /\ flow' = [flow EXCEPT !["tick"].job = "auto", !["tick"].pc = "catalog"]
    BY <1>1, <2>3 DEF FlowInv, Moves, Flow
  <2> QED BY <2>1, <2>2, <2>3 DEF RunQueueContinuations
<1>5. MovesOn("tick") /\ ~At("tick", Starters, "start")
  BY <1>1, <1>4 DEF MovesOn, Ending, Takeovers, At
<1>6. FollowUpInFlight' => ~Live
  BY <1>4 DEF FollowUpInFlight
<1> QED BY <1>1, <1>2, <1>3, <1>5, <1>6, RefreshLive

LEMMA WorldLive ==
  ASSUME IInv, LiveInv, SubmitGo \/ TaktExits \/ Enqueue
  PROVE  LiveInv'
<1>1. flow' = flow /\ "tick" \in Flows
  BY DEF SubmitGo, TaktExits, Enqueue, Flows
<1>2. CASE TaktExits
  <2>1. PICK code \in {"ok", "fail"} : ProcessExits(code)
    BY <1>2 DEF TaktExits
  <2>2. MovesOn("tick")
    BY <1>1 DEF MovesOn, Moves, Ending, LiveInv, StartsAreNamed
  <2> QED BY <1>1, <2>1, <2>2, ExitLive
<1>3. CASE SubmitGo \/ Enqueue
  <2>1. /\ queue' = queue /\ runner' = runner
        /\ control' \in {control, Synced(stage', queue, runner)}
        /\ control' = control \/ Live
    BY <1>3 DEF SubmitGo, Enqueue
  <2>2. Holding' => Holding
    BY <2>1 DEF Holding, Synced
  <2>3. EndedIsSynced'
    BY <2>1 DEF LiveInv, EndedIsSynced, Live, Synced
  <2>4. FreeIsEnded'
    BY <1>1, <2>1 DEF LiveInv, FreeIsEnded, HasSession, Live, Holding, At
  <2>5. EndingHasEnded'
    BY <1>1, <2>2 DEF LiveInv, EndingHasEnded, Ending
  <2>6. EditorHasSession' /\ FollowUpIsNotLive' /\ FreshAttach' /\ StartsAreNamed'
    BY <1>1, <2>1 DEF LiveInv, EditorHasSession, FollowUpIsNotLive, FreshAttach, StartsAreNamed,
       HasSession, Live, At, FollowUpInFlight
  <2> QED BY <2>3, <2>4, <2>5, <2>6 DEF LiveInv
<1> QED BY <1>2, <1>3

\* A new runtime takes the session over: what it then syncs holds none.
LEMMA ReloadLive ==
  ASSUME IInv, LiveInv, Reload
  PROVE  LiveInv'
<1>1. \A g \in Flows : flow[g].pc = "idle" /\ flow[g].job = "none" /\ ~Ending(g)
  <2>1. \A g \in Flows : flow[g].pc = "idle" /\ flow[g].job = "none"
    BY DEF Reload, IInv, FlowInv, FlowsWellFormed
  <2> QED BY <2>1 DEF Ending, Takeovers
<1>2. "tick" \in Flows /\ \A g \in Ops : g \in Flows
  BY DEF Flows
<1>3. Moves("tick") /\ flow'["tick"].pc = "refresh" /\ flow'["tick"].job = "tick"
  BY <1>2 DEF Reload, IInv, FlowInv, Moves, Idle
<1>4. MovesOn("tick")
  BY <1>3 DEF MovesOn, Ending, Takeovers
<1>5. /\ runner'.session = runner.session /\ runner'.up = runner.up
      /\ runner'.session = "none" => runner'.lastExit = "none"
  BY DEF Reload, HasSession, IInv, BrokerInv, BrokerHoldsBudget, Runner
<1>6. ~control'.active /\ (control' # NoControl => control # NoControl)
  <2>1. ~control'.active
    BY DEF Reload, SyncedByNewRuntime, NoControl, IInv, BrokerInv, BrokerHoldsBudget, ControlState
  <2>2. control' # NoControl => control # NoControl
    BY DEF Reload, SyncedByNewRuntime
  <2> QED BY <2>1, <2>2
<1>7. queue'.active => control.active
  BY DEF Reload, RestoredQueue, ClearedQueue
<1>8. EndedIsSynced'
  BY <1>6 DEF EndedIsSynced
<1>9. runner'.session = "none" /\ control' # NoControl => ~Holding'
  BY <1>1, <1>5, <1>6, <1>7 DEF LiveInv, FreeIsEnded, Holding, HasSession, At
<1>10. ~FollowUpInFlight'
  BY <1>3 DEF FollowUpInFlight
<1> QED BY <1>1, <1>2, <1>4, <1>5, <1>8, <1>9, <1>10, LiveIntro

LEMMA InitLive == Init => LiveInv
<1> SUFFICES ASSUME Init PROVE LiveInv
  OBVIOUS
<1>1. \A f \in Flows : flow[f].pc = "idle" /\ flow[f].job = "none"
  BY DEF Init, Idle
<1>2. "tick" \in Flows /\ \A f \in Ops : f \in Flows
  BY DEF Flows
<1>3. ~queue.active /\ ~control.active /\ runner.session = "none" /\ runner.lastExit = "none"
  BY DEF Init, ClearedQueue, NoControl
<1> QED BY <1>1, <1>2, <1>3
        DEF LiveInv, EndedIsSynced, FreeIsEnded, EndingHasEnded, EditorHasSession,
            FollowUpIsNotLive, FreshAttach, StartsAreNamed, Holding, Ending, Takeovers, Live

LEMMA NextLive ==
  ASSUME IInv, SerialInv, LiveInv, OneCall, OneCall', [Step /\ NoOverlap]_vars
  PROVE  LiveInv'
<1>1. CASE UNCHANGED vars
  BY <1>1 DEF vars, LiveInv, EndedIsSynced, FreeIsEnded, EndingHasEnded, EditorHasSession,
     FollowUpIsNotLive, FreshAttach, StartsAreNamed, Holding, Ending, Live, HasSession, At,
     FollowUpInFlight
<1>2. CASE TickStarts \/ RunQueueContinuations
  BY <1>2, TickLive
<1>3. CASE \E f \in Flows : Refreshing(f) \/ Starting(f)
  BY <1>3, RefreshingLive, PreparingLive, DisposeBeforeStartLive, StartQueueRunLive,
     StartQueueRunFailsLive DEF Starting
<1>4. CASE \E f \in Ops : Calling(f) \/ TakingOver(f)
  BY <1>4, OperatorLive
<1>5. CASE SubmitGo \/ TaktExits \/ Enqueue
  BY <1>5, WorldLive
<1>6. CASE Reload
  BY <1>6, ReloadLive
<1> QED BY <1>1, <1>2, <1>3, <1>4, <1>5, <1>6 DEF Step

\* While the operator makes one call at a time, and until one overlaps with a follow-up start,
\* the broker never holds a session the bridge has ended under a live run: what a reload
\* restores is what the bridge has.
THEOREM EndedIsNotRestoredTheorem == Spec /\ []OneCall => []EndedIsNotRestored
<1>1. Init => (~overlapped => LiveInv)
  BY InitLive
<1>2. /\ IInv /\ (~overlapped => SerialInv) /\ (~overlapped => LiveInv)
      /\ OneCall /\ OneCall' /\ [Next]_allVars
      => (~overlapped => LiveInv)'
  <2> SUFFICES ASSUME IInv, ~overlapped => SerialInv, ~overlapped => LiveInv,
                      OneCall, OneCall', [Next]_allVars, ~overlapped'
               PROVE  LiveInv'
    OBVIOUS
  <2> QED BY StaysApart, NextLive
<1>3. (~overlapped => LiveInv) => EndedIsNotRestored
  BY DEF LiveInv, EndedIsSynced, EndedIsNotRestored
<1> QED BY <1>1, <1>2, <1>3, Invariance, SerialAlways, PTL DEF Spec
=============================================================================
