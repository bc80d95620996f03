----------------------------- MODULE InputQueue -----------------------------
(***************************************************************************)
(* Lines typed for one project while its TAKT session cannot take them:    *)
(* the queue of lib/takt-input-queue.ts, the stages of the project that    *)
(* fill, flush and clear it (extensions/index.ts), and the copy that the   *)
(* broker keeps for a reload.  The copy travels by control requests, of    *)
(* which setControlState sends the next one only when the last one is      *)
(* answered (lib/takt-run-controller.ts); a write overtakes them.          *)
(***************************************************************************)
EXTENDS Naturals, Sequences, FiniteSets

CONSTANTS
  Lines,         \* the lines the operator types, each once
  Destructive,   \* those isDestructiveTaktAutoInput holds back
  MaxRuns,       \* bound of the model: PTY runs of the project
  MaxSyncs       \* bound of the model: control requests that wait

ASSUME LinesAssumption == Destructive \subseteq Lines
ASSUME BoundsAssumption == MaxRuns \in Nat /\ MaxSyncs \in Nat

VARIABLES
  stage,      \* ManagedProject.stage
  run,        \* the live PTY run, 0 if runner.isRunning is false
  runs,       \* PTY runs so far
  call,       \* how far the call is that launches or stops the run
  queue,      \* queuedInputs
  connected,  \* the controller has a socket
  syncs,      \* control states that wait for their request
  control,    \* the control state the broker holds
  typed,      \* lines typed so far, in order
  written,    \* for the properties: what reached a PTY, and how
  killed      \* for the properties: Pi was killed at some time

vars == <<stage, run, runs, call, queue, connected, syncs, control, typed, written, killed>>

-----------------------------------------------------------------------------

TerminalStages == {"stopped", "completed", "failed"}
\* "busy" stands for pasting, waiting_go, awaiting_go and sending_go.
Stages == {"idle", "starting", "waiting_prompt", "busy", "running", "stopping"} \cup TerminalStages

\* A launch awaits its run, or has shown its prompt; the first /go of a queue run is due
\* (pendingRunAwaitingInput); or a stop awaits the exit.
Calls == {"none", "launch", "prompt", "go", "stop"}

Control == [stage: Stages, queue: Seq(Lines)]
NoControl == [stage |-> "idle", queue |-> <<>>]

TypeOK ==
  /\ stage \in Stages
  /\ run \in 0..MaxRuns /\ runs \in 0..MaxRuns
  /\ queue \in Seq(Lines)
  /\ connected \in BOOLEAN /\ call \in Calls
  /\ syncs \in Seq(Control) /\ Len(syncs) <= MaxSyncs
  /\ control \in Control
  /\ typed \in Seq(Lines)
  /\ written \in Seq([line: Lines, to: 1..MaxRuns, queued: BOOLEAN])
  /\ killed \in BOOLEAN

-----------------------------------------------------------------------------
(* The queue and its copy *)

\* How many of the indices do not exceed i: the place of i among them.
Rank(indices, i) == Cardinality({j \in indices : j <= i})

\* What Array.prototype.filter keeps: the elements of s at the given indices, in order.
Subsequence(s, indices) ==
  [k \in 1..Cardinality(indices) |-> s[CHOOSE i \in indices : Rank(indices, i) = k]]

Sendable(lines) == Subsequence(lines, {i \in DOMAIN lines : lines[i] \notin Destructive})
Held(lines) == Subsequence(lines, {i \in DOMAIN lines : lines[i] \in Destructive})

\* MUTANT: a write without a live run is taken.
WrittenAnyway(lines, queued) ==
  written \o [i \in DOMAIN lines |-> [line |-> lines[i], to |-> run, queued |-> queued]]

\* runner.write: without a live run the line is dropped.
Written(lines, queued) ==
  IF run = 0 THEN written
  ELSE written \o [i \in DOMAIN lines |-> [line |-> lines[i], to |-> run, queued |-> queued]]

\* MUTANT: only the stage is mirrored while lines are queued.
SyncedOnlyWhenEmpty(s, q) ==
  LET state == [stage |-> s, queue |-> q]
  IN  IF ~connected \/ q # <<>> THEN syncs
      ELSE IF syncs # <<>> /\ syncs[Len(syncs)] = state THEN syncs ELSE Append(syncs, state)

\* syncProjectControlState.  A request that repeats the one before it is left out.
Synced(s, q) ==
  LET state == [stage |-> s, queue |-> q]
  IN  IF ~connected THEN syncs
      ELSE IF syncs # <<>> /\ syncs[Len(syncs)] = state THEN syncs ELSE Append(syncs, state)

SyncBoundHolds == Len(syncs') <= MaxSyncs
Sync == syncs' = Synced(stage', queue') /\ SyncBoundHolds

\* The broker answers the request that is under way.
BrokerTakesSync ==
  /\ syncs # <<>> /\ connected
  /\ control' = Head(syncs)
  /\ syncs' = Tail(syncs)
  /\ UNCHANGED <<stage, run, runs, call, queue, connected, typed, written, killed>>

\* MUTANT: held lines go out with the others.
FlushEverything ==
  IF run = 0 THEN UNCHANGED <<queue, written>>
  ELSE /\ queue' = <<>>
       /\ written' = Written(queue, TRUE)

\* flushQueuedInputsFor and takeBatch: one paste of all sendable lines.  Its option
\* `force` changes nothing.
Flush ==
  IF run = 0 THEN UNCHANGED <<queue, written>>
  ELSE /\ queue' = Held(queue)
       /\ written' = Written(Sendable(queue), TRUE)

\* setProjectStage: waiting_prompt flushes, an outcome clears.
SetStage(s) ==
  /\ stage' = s
  /\ IF s = "waiting_prompt" THEN Flush
     ELSE /\ queue' = IF s \in TerminalStages THEN <<>> ELSE queue
          /\ UNCHANGED written
  /\ Sync

-----------------------------------------------------------------------------
(* The operator *)

\* MUTANT: a line that is queued goes to the front.
InputInFront(l, executing) ==
  IF executing
    THEN /\ queue' = <<l>> \o queue
         /\ syncs' = Synced(stage, queue') /\ SyncBoundHolds
         /\ UNCHANGED written
    ELSE /\ written' = Written(<<l>>, FALSE)
         /\ UNCHANGED <<queue, syncs>>

\* One line: queued while the session executes, else pasted at once.
Input(l, executing) ==
  IF executing
    THEN /\ queue' = Append(queue, l)
         /\ syncs' = Synced(stage, queue') /\ SyncBoundHolds
         /\ UNCHANGED written
    ELSE /\ written' = Written(<<l>>, FALSE)
         /\ UNCHANGED <<queue, syncs>>

NotTyped(l) == l \notin {typed[i] : i \in DOMAIN typed}

\* /takt:ask, "@name talk" and the inspector ask the runner and the stage.
Talk(l) ==
  /\ NotTyped(l) /\ typed' = Append(typed, l)
  /\ Input(l, run # 0 /\ stage # "waiting_prompt")
  /\ UNCHANGED <<stage, run, runs, call, connected, control, killed>>

\* sendInput, when its editor closes, asks the stage only.
Send(l) ==
  /\ runs > 0
  /\ NotTyped(l) /\ typed' = Append(typed, l)
  /\ Input(l, stage = "running")
  /\ UNCHANGED <<stage, run, runs, call, connected, control, killed>>

\* A line with a /go in it sets the project running, in whatever stage it is; while it is
\* running only the first of a queue run does, and any other is queued (Send).
SendGo(l) ==
  /\ runs > 0 /\ (stage # "running" \/ call = "go")
  /\ NotTyped(l) /\ typed' = Append(typed, l)
  /\ stage' = "running" /\ call' = IF call = "go" THEN "none" ELSE call
  /\ written' = Written(<<l>>, FALSE)
  /\ UNCHANGED <<run, runs, queue, connected, control, killed>>
  /\ Sync

FlushQueuedInputs ==
  /\ run # 0
  /\ UNCHANGED <<stage, run, runs, call, connected, control, typed, killed>>
  /\ Flush
  /\ Sync

-----------------------------------------------------------------------------
(* The session of the project *)

Elsewhere == UNCHANGED <<connected, control, typed, killed>>

\* An exec or a queue run begins; what is left of the last session is disposed.
Launch ==
  /\ run = 0 /\ runs < MaxRuns /\ stage \in {"idle"} \cup TerminalStages /\ call # "stop"
  /\ stage' = "starting" /\ call' = "launch"
  /\ connected' = FALSE /\ control' = NoControl /\ syncs' = <<>>
  /\ UNCHANGED <<run, runs, queue, typed, written, killed>>

Spawned ==
  /\ call = "launch" /\ run = 0 /\ runs < MaxRuns
  /\ runs' = runs + 1 /\ run' = runs'
  /\ connected' = TRUE
  /\ UNCHANGED <<stage, call, queue, syncs, control, typed, written, killed>>

\* takt exec waits for its prompt, then the prompt is pasted; takt run is running at once.
\* A /go that is awaited may come from the operator.
NextStage ==
  /\ run # 0
  /\ \/ call = "launch" /\ SetStage("waiting_prompt") /\ call' = "prompt"
     \/ call = "launch" /\ SetStage("running") /\ call' = "go"
     \/ call = "prompt" /\ SetStage("busy") /\ call' = "none"
     \/ stage = "busy" /\ SetStage("running") /\ call' = call
  /\ UNCHANGED <<run, runs>> /\ Elsewhere

\* reconcileExecCompletion: the tracked run has an outcome, its PTY lives on.
ExecSettles ==
  /\ run # 0 /\ stage = "running"
  /\ SetStage("completed") /\ call' = IF call = "go" THEN "none" ELSE call
  /\ UNCHANGED <<run, runs>> /\ Elsewhere

StopBegins ==
  /\ run # 0
  /\ SetStage("stopping") /\ call' = "stop"
  /\ UNCHANGED <<run, runs>> /\ Elsewhere

StopEnds ==
  /\ run = 0 /\ call = "stop"
  /\ SetStage("stopped") /\ call' = "none"
  /\ UNCHANGED <<run, runs>> /\ Elsewhere

\* onExit: a stop, or an outcome that is known, is left alone.  A launch fails with its run.
Exits ==
  /\ run # 0
  /\ run' = 0 /\ call' = IF call = "stop" THEN call ELSE "none"
  /\ IF stage \in TerminalStages \cup {"stopping"} THEN UNCHANGED <<stage, queue, syncs, written>>
     ELSE SetStage("completed")
  /\ UNCHANGED runs /\ Elsewhere

-----------------------------------------------------------------------------
(* A new window *)

\* What a new runtime restores: the stage, and the queue, which it syncs again.
Restored ==
  /\ stage' = control.stage
  /\ queue' = control.queue
  /\ connected' = (runs > 0) /\ call' = "none"
  /\ syncs' = <<>>

\* MUTANT: detach() does not wait.
DetachesAtOnce == TRUE

\* detach() waits for the control requests.
Detaches == syncs = <<>>

Reload ==
  /\ Detaches /\ Restored
  /\ UNCHANGED <<run, runs, control, typed, written, killed>>

\* Pi is killed, once at most: the requests that wait are lost.
Killed ==
  /\ ~killed /\ killed' = TRUE
  /\ Restored
  /\ UNCHANGED <<run, runs, control, typed, written>>

-----------------------------------------------------------------------------

Init ==
  /\ stage = "idle"
  /\ run = 0 /\ runs = 0 /\ call = "none"
  /\ queue = <<>>
  /\ connected = FALSE
  /\ syncs = <<>>
  /\ control = NoControl
  /\ typed = <<>>
  /\ written = <<>>
  /\ killed = FALSE

Next ==
  \/ \E l \in Lines : Talk(l) \/ Send(l) \/ SendGo(l)
  \/ FlushQueuedInputs \/ BrokerTakesSync
  \/ Launch \/ Spawned \/ NextStage \/ ExecSettles \/ StopBegins \/ StopEnds \/ Exits
  \/ Reload \/ Killed

Spec == Init /\ [][Next]_vars

-----------------------------------------------------------------------------
(* Properties *)

\* Unless Pi was killed, no line reaches a PTY twice: neither by two flushes nor by the
\* queue a reload restores.
LinesOnce ==
  ~killed => \A i, j \in DOMAIN written : written[i].line = written[j].line => i = j

\* The lines that were queued reach a PTY in the order they were typed, through every flush,
\* exit and reload (takt-input-queue.ts, "Order is preserved"), unless Pi was killed.
QueuedInOrder ==
  ~killed => \A i, j \in DOMAIN written :
    written[i].queued /\ written[j].queued /\ i < j =>
      \E m, n \in DOMAIN typed :
        m < n /\ typed[m] = written[i].line /\ typed[n] = written[j].line

\* A queued line that is destructive stays queued, and unsent, through every flush, one that
\* the operator asks for to confirm it too (flushQueuedInputsFor ignores `force`): it goes only
\* when the session has an outcome or the window is another.
HeldLinesStay ==
  [][/\ \A i \in DOMAIN queue : queue[i] \in Destructive =>
          \/ \E j \in DOMAIN queue' : queue'[j] = queue[i]
          \/ stage' \in TerminalStages \/ Reload \/ Killed
     /\ \A i \in DOMAIN written' :
          written'[i].queued /\ written'[i].line \in Destructive => i \in DOMAIN written]_vars

\* A reload loses no queued line, once the broker holds a control state of the session.
ReloadKeepsLines == [][Reload => queue' = queue \/ control = NoControl]_vars
=============================================================================
