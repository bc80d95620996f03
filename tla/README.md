# A TLA+ model of pi-takt-marionette

pi-takt-marionette is an extension of the Pi coding agent that drives TAKT, a
command-line workflow engine: it writes TAKT's task file, starts `takt` in a
pseudo-terminal that outlives the Pi window, mirrors its screen, types into it,
and keeps a queue of tasks going without the operator. This directory models the
parts of it that keep state, checks them with TLC and proves the results that
hold for every instance with TLAPS.

Contents: [inventory](#inventory), [modules](#modules-and-how-they-correspond-to-the-code),
[runs](#runs-and-what-they-show), [fairness](#fairness), [proofs](#proofs),
[disagreements](#where-the-code-and-its-words-disagree), [hazards](#hazards-beyond-the-list),
[limits](#what-is-not-modelled), [plan](#plan), [use](#running-it).

## Inventory

Hard behaviour is marked in bold.

| Component | Source | State | Operations | What makes it correct |
|---|---|---|---|---|
| Project lifecycle | `extensions/index.ts` | per project: stage, queue session (active, armed, in flight, count), exec tracking, summary | start, exec, exec with prompt, workflow, resume, stop, clear, view, enqueue, input; refresh every second; **every one of them awaits and the others run meanwhile** | `BudgetRespected`, `NoFollowUpAfterEnd`, `EndedIsNotRestored`, `StageIsHealed` |
| Queue continuation | `lib/takt-queue-continuation.ts` | none: a decision | decide: none, start, drained, failed, cap reached | `FollowUpHasBudget`, `QueueSessionIsDecided` |
| PTY broker | `lib/takt-run-broker.mjs` | PTY, transcript, sequence number, last exit, clients | snapshot, start, write, resize, stop, dispose, shutdown; **answers and broadcasts share a socket; a stop waits while others are served** | `MirrorAgrees`, `ScreenAgrees` |
| Run controller | `lib/takt-run-controller.ts` | socket, running, screen, last exit, applied sequence, queued events | attach, start, stop, dispose, detach, shutdown; **events overtake answers** | `NoPhantomRun`, `MirrorAgrees`, `ScreenAgrees` |
| Broker discovery | both of the above | descriptor file, socket, broker processes | look, connect, clean up, launch; **several windows at once, a broker killed at any step** | `OneBroker`, `ServingIsFound`, `DeadDescriptorGoes` |
| Task queue | `lib/takt-task-queue.ts` | `.takt/tasks.yaml`, its lock file, a directory per task | enqueue; **other processes between any two file-system calls, crashes, stale locks** | `MutualExclusion`, `TaskHasDir`, `ImplementsTaskStore`, `DeadLockGoes` |
| Task editing | `lib/takt-task-edit.ts`, `index.ts` | the same file, **without the lock** | delete, reset | `ImplementsTaskStore`, `NoTaskLost` |
| Session recovery, state reader | `lib/takt-session-recovery.ts`, `lib/takt-state.ts` | records TAKT leaves, the summary made of them | classify runs, gate a start, stop and force-close; **records of processes nobody here owns, pids used again** | `LiveRunBlocksStart`, `OrphansStopBlocking`, `ReconcileSparesTheLiving` |
| Focus view, input mode | `lib/takt-focus-view.ts`, `lib/takt-input-mode.ts`, `index.ts` | mode, phase, cursor, pinned session | keys, cycle, switch; **a run ends while the operator types** | `KeysReachTheConfirmedRun`, `FocusEndsWithItsRun` |
| Input queue | `lib/takt-input-queue.ts`, `index.ts` | queued lines, and a copy at the broker | talk, send, flush, clear, restore; **the copy travels behind** | `LinesOnce`, `QueuedInOrder`, `ReloadKeepsLines` |
| Workflow catalog, step models | `lib/takt-workflow-catalog.ts`, `takt-workflow-steps.ts`, `takt-runtime-yaml.ts` | `.takt/runtime.yaml` | resolve over three layers, list, pick models; **files change under an open dialog** | `CatalogResolves`, `EveryStepIsAsked`, `ChoicesTakeEffect` |
| Project setup, registries, task policy | `lib/takt-project-setup.ts`, `takt-*-registry.ts`, `takt-task-policy.ts` | JSON and YAML files | copy presets, add, remove | not modelled |
| Panel, widget, progress, i18n, keyboard, search, mentions | `lib/takt-live-panel.ts`, ... | none of their own | render | presentation, not modelled |
| Models of Pi, node-pty helpers, scripts, skills | | none | query, chmod, release checks | not modelled |

How they interact. The extension holds one `ManagedProject` per project and one run
controller in it. The controller finds or launches, through a descriptor file, a
detached broker process, the only one that owns the PTY, and talks to it over a local
socket; a broker outlives `/reload` and serves every Pi window that has the project. It
also keeps an opaque *control state*, in which the extension mirrors the stage, the
queue session and the queued lines so that a reload restores them. Exits come back as
events through the controller to the project's `onExit`, and to the focus view, which
leaves. The refresh interval attaches, reconciles, reads TAKT's files, decides the
queue session and flushes queued lines. TAKT itself and the enqueues of other Pi
windows change the task file under a lock file; TAKT processes of other terminals leave
records that the bridge reads and, on a forced stop, closes.

## Modules and how they correspond to the code

| Module | Models |
|---|---|
| `QueueContinuation` | the continuation decision and its effect on a queue session |
| `ProjectBridge` | one project of the extension; EXTENDS `QueueContinuation` |
| `RunMirror` | the controller's mirror of a run, as functions on its state |
| `PtyBroker` | the broker process; EXTENDS `RunMirror` |
| `BrokerSession` | controllers and broker together; EXTENDS `PtyBroker` |
| `BrokerDiscovery` | descriptor, launches and crashes of brokers, before there is a session |
| `TaskStore` | what the task file promises: the abstract specification |
| `TaskQueue` | the task file, its lock, enqueues, edits, crashes and TAKT; implements `TaskStore` |
| `RunRecords` | the classification of records and the decisions on it, pure |
| `ObservedRuns` | a window beside TAKT processes it does not own; EXTENDS `RunRecords` |
| `FocusView` | the fullscreen focus, as functions on a view |
| `InputMode` | modes, keys and automatic input, with runs that end; EXTENDS `FocusView` |
| `InputQueue` | queued lines of one project and the broker's copy |
| `WorkflowCatalog` | precedence, categories and steps of workflows, pure |
| `StepModels` | `/takt:models` and enqueue dialogs over changing files; EXTENDS `WorkflowCatalog` |
| `...Proofs` | proofs about `ProjectBridge`, `TaskQueue`, `BrokerSession`, `BrokerDiscovery`, `ObservedRuns`, `InputMode`, `InputQueue` and `StepModels` |
| `MC...` | instances of each for TLC, and the restrictions a run needs |

`ProjectBridge`. JavaScript runs one segment at a time, so an action is the code
from one `await` to the next, and actions of different flows interleave. `flow[f]`
says at which await a flow is (`pc`) and for which call (`job`); the flow `"tick"`
is the refresh interval, which also runs the follow-up starts, and the others are
operator calls. `queue` holds the four `queueContinuation*` fields, `runner` the
controller's flags with the PTY behind it, `control` what the broker was last
told. `pending` stands for the task list. `followUps` and `overlapped` serve the properties only.
The PTY and its broker are one object here; `PtyBroker` and `BrokerSession` have
them in detail. Summaries are read from disk, so what a refresh reads (whether
TAKT completed or failed an exec, whether the task list could be read) is a
nondeterministic choice. `startPending` is `CallRefresh` followed by
`CallRunPending`: the dialog in between is the operator's. `Reload` restores the
fields of the control state in the order of the code, with the sync that restoring
the queued lines causes before the queue session is restored.

`RunMirror`, `PtyBroker`, `BrokerSession`. `mirror[c]` is the controller of window
`c`; `inbox[c]` what the broker has written and `c` has not read. A chunk of the socket
has any length: its events are applied as they are read, and an answer only when its
promise continues, after the chunk. So a message is read by `ReadEvent` or `ReadAnswer`,
which leaves the answer in `answer[c]`, and `Continue` runs what comes after the await:
events read between the two are those that share the answer's chunk. Nothing else of a
controller is seen by others meanwhile, so that steps of others in between add only
chunks that are longer than any socket's; the run excludes those (`ChunksAreWhole` of
`MCBrokerSession`), the theorems do not. `DrainAttach` applies the events an attach held back, one by one.
Outputs are one symbol each; the transcript is the sequence of them. `unseen` is a history
variable with the cases the code does not handle: another window's start, and the end of a
broker that a window has known.
A stop or a dispose that waits (`serving`) sees the exit of its PTY in a later step
(`FinishStopping`), as `waitUntil` polls for it: a start can be served in between, whose
terminal a dispose then clears. `FinishShutdown` merges the 10 ms between the answer to a shutdown and the exit.

`BrokerDiscovery`. A window is at one place of `ensureBroker` (`pc[w]`), a broker at
one phase of its life, from its launch over `openSync` with "wx" (`OpenDescriptor`)
and the write (`WriteDescriptor`) to the shutdown of its socket and the removal of
its file; `Crash` kills it at any of them. Reading a descriptor and asking whether
its process lives is one step (`Clean`), the unlink another. A launch that loses the
race for the descriptor ends, and its window dials the winner.

`TaskQueue`. An enqueue is one synchronous function, so a process does nothing else
meanwhile, but other processes act between its calls to the file system: each call
is an action. `lock` records whose file it is, whether the pid is in it yet and
whether it is older than 30 s; reading a lock and asking whether its process lives
are one step, its unlink is another. Names are pairs of a slug and a number, `<<s, 1>>`
being written `s` and `<<s, n>>` `s-n`; slugs are not prefixes of one another.
`writeFileSync` of the task list is two steps, so the truncated file can be seen, and
a rename in between leaves the second with a file that is no longer there. TAKT is
outside the repository: it claims all pending tasks at startup, as docs/usage.md says,
gives up what a dead run left, and holds the lock for each change. A directory name
is never used twice; the local variables of a call are cleared when it ends. A process in
`Unlucky` may die at any of its calls, and may fail to read or to write the file, after the
write of its record too (`Throw`, `Verify`); whether the call has failed is `job[p].failed`,
and only then `Unlock` removes the directory, as the `catch` of `enqueue()` does. In the
code a failure after the rename can only be that of the verifying read, or a file whose
last record is not the new one.

The refinement. `TaskStore` has a set of tasks and atomic steps: enqueue, answer, choose
to delete, delete, reset, claim, finish, end. `TaskQueue!Stored` maps the file to that
set; while an edit has it truncated, to what the edit is about to put there, so that
opening the file is the atomic change and the write a stutter. The temporary file of an
enqueue is nothing until its rename.

`RunRecords`, `ObservedRuns`. A run has its entry of the task list, its `meta.json`
("torn" while TAKT replaces it, for good if it dies then), the age of its last write
(recent, old: half an hour is the threshold of the code) and the process; a run that
records no pid exists too, since the code has a case for it. `seen[p]` is the summary the
decisions use, which is older than the disk; `call` is the operator call in flight, one
action per await. Pids are used again, by TAKT or by other programs.

`FocusView`, `InputMode`. Every list of sessions is in the one order of
`orderTaktFocusSessions`, so a list is the set of its sessions, a cursor the session it is
on, and the next one is the next in that order (`Beside`). A run has a number, so that the run a key was meant for and
the run it reaches can be compared; the code has no such number. `view.run` and
`written` serve the properties. Pi's `ui.custom` is not in the repository: it builds
the component at once, and `done()` settles its promise before the next event. The
confirmation of an automatic input is an await (`AskForAutoInput`,
`AnswerAutoInput`).

`InputQueue`. `syncs` is the chain of `setControlState`, one request at a time; writes
overtake it. `Talk` and `Send` differ as in the code: one asks the runner and the stage,
the other the stage only. The session is reduced to the changes of `stage` that fill,
flush or clear the queue.

`WorkflowCatalog`, `StepModels`. The resolver and the catalog are separate operators because
they are separate programs, and they look for files in two ways. A layer is the sequence of
its directory entries, each with an id, an extension ("YAML" stands for any that is not in
small letters), a kind (file, link, directory) and what it declares. `ListedAt` has the
entries that are files, as `readdir` with `isFile()` has them, whatever their extension;
`FoundAt` what `existsSync` finds by the exact names. `IdOf` is `sanitizeWorkflowName`: the
operator and calls name workflows by `Names`, several of which may come to one id, or to
none. The first search for TAKT's installation is kept (`root`), as the code caches it, and
`ReachesBuiltins` and `LookedFor` say when the resolver searches at all.

Each dialog is an action, and `Edit`s change files while one is open. The steps of a workflow
are known by the spot they are found at: `<<i, 0>>` in the root, `<<i, j>>` in the workflow that
its `i`-th step calls. A call without a target is a step like others, and is asked for. Of the
spots with one key, `SelectableSteps` keeps the first, with the step of the last, as
`new Map(...)` does. `due` is what the operator should be asked when the steps are collected,
counted from the files themselves (`StepsDue`) and not from the spots.

A merge into `runtime.yaml` is three steps, since another Pi window is another process:
`ReadRuntime`, which merges what was picked with what the file holds, `TruncateRuntime`, after
which the file is `Blank` for all who read it, and `WriteRuntime`. This window does nothing
else meanwhile (`Responsive`). Of two windows that write at a time the longer text may
leave its end behind the shorter: a file that is valid no more. Selections are written one after
the other in the code; `Apply` says what they come to, the last one for a key or a profile
(`Picked`).

## Runs and what they show

Bounds are constants of the modules, named with `Max`, and the sizes of the sets.

| Run | Instance | Distinct states | Result |
|---|---|---|---|
| `bridge_calls` | all ten kinds of operator call, one at a time, beside the interval, with fairness; cap 2, one pending task | 2,294,849 | pass |
| `bridge_takeover` | start and workflow, one at a time, beside the interval | | `NoFollowUpAfterEnd` fails |
| `bridge_reload` | start; no restriction | | `ReloadKeepsQueueSession` fails |
| `broker_mirror` | a window that starts, stops, quits and one that watches; two runs, four sequence numbers, two unread messages | 7,437,129 | pass |
| `broker_start_race` | one window, one run | | `MirrorAgrees` fails |
| `discovery` | three windows, three brokers, one killed | 436,789 | pass |
| `tasks_serial` | three processes, one may die or fail to read and write, one edits; three tasks; TAKT runs once | 1,721,492 | pass |
| `tasks_edit_race` | two processes, one edits | | `NoTaskLost` fails |
| `observed_runs` | one project, two runs, two tasks, two pids | 4,431,945 | pass |
| `input_mode` | three projects, two runs each | 18,000 | pass |
| `input_queue` | two plain lines and a destructive one, two runs, two waiting requests | 356,019 | pass |
| `step_models` | two workflows that call each other, links, directories and extensions, three layers, four disks, three runtime files, two windows, two edits | 305,434 | pass |

**Project.** All interleavings of the calls, the interval, exits and reloads are checked in
one run. A follow-up start has budget left when it goes on after each of its awaits, and its
claim is never left behind. The queue session does not keep every promise: a takeover that
begins while `startPendingProject` awaits is followed by the follow-up's start, which makes a
session of its own (`bridge_takeover`, against docs/usage.md:49-51). After such an overlap of
a call that starts, stops, clears or takes over with a follow-up start (`overlapped`) the
count of follow-ups begins again and a session that was ended may come back, so
`BudgetRespected` and `EndedIsNotRestored` are promised until then: the budget over failures,
takeovers and reloads, and what was ended is not left with the broker for a reload to
revive. A reload that happens twice before anything syncs loses the session:
`bridge_reload`. A cap of 2 shows a chain of follow-ups; one task is enough since a decision
only asks whether any is pending. The theorems drop the bounds for all of the safety
properties that hold.

**Broker.** Mirrors agree with the broker in every state where a window has read all it
was sent, if no output arrives in one chunk with the answer to a start, ahead of the
answer's continuation, unless the run's exit is in that chunk too (`StartNotOvertaken`).
Without that, `broker_start_race` shows the
answer dropped as stale and a live run taken for none. Two runs and one restart of the
broker are enough to mix the events of a run with the snapshot of the next. A window that
outlived a broker is exempt from all three properties: the next broker numbers from zero, and
what it sends is dropped until its numbers catch up. With two windows that both start runs
(three sequence numbers, 10.8 million states, too many to check each time) TLC finds the same.
A window that missed the start of another's run is exempt from `MirrorAgrees`. If it is
starting a run itself, it is exempt from `ScreenAgrees` too (`Missed`): when the other's run
begins and ends between the snapshot of its `start()` and the request, that run's output stays on
the new screen.

**Discovery.** However the starts of windows race, and whichever broker is killed,
connected windows see one broker, and it is the one the descriptor names; a dead one's
descriptor goes. Two conditions are needed: no clean-up reads a living broker's descriptor
between its `openSync` and its write (`ReadsWhole`), and stale descriptors are judged in
turn (`CleansInTurn`). Each window may launch one broker and one may die, which is the
least with which a clean-up can hit the descriptor of a third.

**Tasks.** Whatever process dies at whatever call, the file is the atomic store of
`TaskStore`: no task is lost, no name, directory or branch is given twice, nothing is
answered that is not stored. Directories stay, and an enqueue that tries gets past a dead
process's lock. Five restrictions apply (`Tame`): locks grow old only for the dead
(`HoldersAreQuick`), stale locks are reaped in turn (`ReapInTurn`), edits have the file to
themselves (`EditsAreAlone`), one task list is open at a time (`EditsInTurn`), and the
name an edit looks for is that of the task the user picked (`PicksAreExact`). Each is
needed: two processes that find the same dead lock can both get inside, a process suspended
for 30 s loses its lock while inside, an edit undoes an enqueue (`tasks_edit_race`), and an
edit can hit another task, because its name begins like the one picked, or because it was
enqueued under that name after another list had deleted the one picked. Two processes that
edit show the last; the run has one, and the theorem any number. Three processes are the smallest number in which a dead holder
leaves two contenders; three tasks give each of them one.

**Observed runs.** A start is refused while a recorded run lives; an operator's force
closes the records of the dead and spares the living and the finished, however old the
summary is on which it acts; half an hour after the last process no record blocks a
start. Two runs of one project can hide each other in the list, in the summary and by
the reuse of a pid. The properties speak of runs that record their pid and do not share
their task text with another (`Known`); `DistinctSpec` therefore starts with distinct
tasks and at most one run without a pid, to save TLC the rest.

**Input.** A key reaches the run that was confirmed, or none: not the next run of the same
project, and none while the operator selects. When the pinned run ends the operator is
back in Pi. Three projects let a view, a pin and a session it may move to differ; two
runs each let a run be taken for its successor. A queued line goes out once, in order,
never if it is destructive (no flush sends those, the operator's own included), and is
kept by a reload; two plain lines have an order, the
third is held. A kill of Pi is a step too, and exempts what it must (`killed`).

**Workflows.** The initial disks have helpers, a file that cannot be read, a disabled
builtin, a link, overlays with and without "Others" and an invalid one; files that come while
a dialog is open have upper-case extensions, are directories, or share their declared name or
their id with others. An id both lookups see alike (`Ordinary`) is listed just if it
is resolved to a file that runs on its own, and it is the same file. The dialogs ask for
nothing but steps of the workflow and those it calls that can have a model, for each once, and for
all but those that share their key with a call. TAKT gives a step the model last chosen for it,
or one with the same profile, until both windows have merged at the same time. The three
exemptions are what the code does not keep (see [below](#where-the-code-and-its-words-disagree)):
the instance has cases of each, and TLC finds each property violated without its own.

`CHECK_DEADLOCK FALSE` is in every cfg because the bounds stop the system: when all
tasks are enqueued, or all runs have ended, there may be nothing left to do.

Symmetry: `observed_runs` and `input_queue` permute runs, tasks, pids and plain lines,
which the specification treats alike; their properties are invariants and properties of
single steps.

Every property has a mutant in `PROJECT.json`, a bug that could be in the code and under
which its run finds it violated.

## Fairness

- `ProjectBridge`: the interval fires (`WF TickStarts`) and its awaits return (`WF
  TickProceeds`): `setInterval` and promises that time out. The task list can be
  locked, and is read in the end if that is possible infinitely often (`SF
  ReadTaskList`). Nothing is assumed of the operator, of TAKT or of its exit; the
  liveness properties say so with `LeftAlone`: from some time on the operator makes no
  more calls, and those made are of six kinds (`PlainCalls`). The others are left out of the
  premise, not of the run: `stop` and `input` can each leave a stage nothing heals (see the
  hazards), and `exec`, `prompt` and `clear` forget the exit code that a decision waits for,
  or, begun under a follow-up start, leave a queue session active that nothing decides.
- `TaskQueue`: a live process goes on with a synchronous function. TAKT, crashes and
  new calls need not happen. The restrictions forbid steps that need not happen (an old
  lock, a pick, a crash) or delay others: the process that is about to reap, or that
  edits, goes on by its own fairness.
- `BrokerDiscovery`: a call of `ensureBroker` goes on until it returns, and so does a
  broker that has begun to start or to shut down. Windows, shutdowns and kills need not
  happen. `GiveUp` stands for the deadline, which is longer than a broker takes to start.

The other modules state no liveness.

## Proofs

`ProjectBridgeProofs` proves, for every set of operator calls, cap and bound, and with no
restriction on overlap: type correctness, `FollowUpHasBudget` and `InFlightIsOwned`.
The properties are not inductive. `FollowUpHasBudget` breaks if a refresh restores a
larger count from the broker while a follow-up start is in flight, so the invariant
adds that a connected broker's control state holds exactly the count of the bridge
(`BrokerInv`); and a start belongs to the interval alone (`FlowInv`), so no
other flow can increase the count meanwhile. `IInv` is the conjunction of these with
the types and the two properties. There is a lemma for each action, and lemmas for the
decision, for attaching and for the flows.

`BudgetRespected` is proved of the same specification, for any number of calls that overlap each
other; the latch `overlapped` is part of the property. A session that has been ended is not gone
for good: a control state that a reload finds with the broker can bring it back. `SerialInv`,
which holds until the latch is set, says why no follow-up comes of that: it comes back with its
budget spent. It also relates what has happened to what is counted: while a session is held,
here or by the broker (`Holding`), or a follow-up is being started, the follow-ups that have
begun are at most its count. From the same invariant follows what is left of
`NoFollowUpAfterEnd`: a follow-up that starts without a session takes such an overlap, and
neither a refresh, an exit nor a reload brings one about (`FollowUpHasSession`).

`EndedIsNotRestored` needs more: one call at a time (`OneCall`, as in the run), besides the latch in the property. With two, a
`/go` typed before a stop revives the session after it. `LiveInv` adds where an ended session
cannot be: with a call that stops or has taken over (`EndingHasEnded`), or with the broker of a
free PTY, unless a `takt run` is about to start (`FreeIsEnded`); that the editor of an input
is open over a PTY that only a follow-up start can free (`EditorHasSession`); that a follow-up
start never finds a live run (`FollowUpIsNotLive`); and that a window attached to a free PTY
knows of no exit (`FreshAttach`).

`TaskQueueProofs` proves `MutualExclusion` for every set of processes and every number of
tasks, edits and crashes, under `Timely`. `LockInv` adds that whoever is inside owns the
lock file, that an old lock is a dead process's, and that the one process about to
unlink a lock is about to unlink a dead one's. Most steps leave the lock alone and are
covered by one lemma, `PassingKeepsLock`; those that touch it have one each.

Under `Tame` it proves `TypeOK`, `TaskHasDir` and that the file implements `TaskStore`:
initial states map to initial states (`NothingIsStored`), and every step to a step of the
store or to a stutter, with one lemma per action. Neither is inductive. A record keeps its
directory only if no enqueue that fails, before its write or after it, cleans up a directory that a record points to, and a step of the
store is the right one only if what a process read is still true when it writes. So
`StoreInv` joins to `LockInv` that the directories of records and of enqueues under way differ
(`Numbered`, `JobInv`), that the list a process is about to write an addition to is the file (`pc = "write"`
in `JobInv`), and that an edit is about to change the task that was picked, while the list
it shows is a beginning of the file (`EditInv`). The proof is what showed that one list
must be open at a time: `StillThere` is not kept otherwise.

`BrokerSessionProofs` proves `NoPhantomRun` for every number of windows, whoever starts,
stops and quits, of runs, brokers and unread messages, and any chunks. The property speaks of a window at rest; the
invariant speaks of what is on its way. Nothing a window has or may still read is newer than
the broker (`NumberInv`). Of all that tells of a live run, be it a snapshot or an output in the
inbox, held back by `attach()` or read and not yet continued with, it holds that the run is
live, or that the message will be dropped as outdated, or that an exit event with a greater
number follows (`Harmless`); and a window that shows a run as live has such an exit event
to come, or waits for the snapshot of its `start()` (`Truthful`). The exit of a run makes this
true for every window at once, since it is the newest message there is. `RequestInv` says
that a window has one request or answer on its way, so a reply in an inbox is the one
its call waits for, and `SocketInv` what a window without a socket may not have. `SessionInv`
joins these with the types.

`MirrorAgrees` and `ScreenAgrees` are proved for as many windows, runs and brokers, of
`TameSpec`, whose steps satisfy `StartNotOvertaken`. `MirrorInv` says what a window will show once it
has read what is on its way. Events come in the order of their numbers, held back or not, and
after an answer that includes what was before them (`OrderInv`). The outputs of the live run
that are due carry the positions of the transcript, and those of another run are followed by its
exit (`Tells`). A window that shows a run either has that exit to come, or is about to be
corrected by the snapshot of its `start()`, or shows a beginning of the transcript whose
rest is due as events it will not drop (`Good`); and a snapshot on its way would make it so
(`ReplyShows`). While a `start` request is on its way no run lives, and the screen is empty
(the last part of `Shown`): this is what the exempted window lacks. If a run is live, a window
that was told of it knows it or has an answer coming that says so and is not outdated (`Known`):
this is what `StartNotOvertaken` is for, for an output with a greater number would make the
answer be dropped. At rest nothing is due, and both properties follow.

`BrokerDiscoveryProofs` proves type correctness, `ServingIsFound` and `OneBroker` for every
number of windows, brokers and crashes, under `Lucky`. A window may be connected to a
broker that is shutting down, whose descriptor is still there, so `DiscoveryInv` says
that whoever holds the descriptor's place, from its write to its removal, is named by it
(`HolderIsNamed`), that windows are connected only to such a broker (`ClientsAreServed`), and
that whoever is about to unlink is about to unlink a dead broker's file
(`UnlinkerTakesDead`); `NamedHasLived` and `NotLaunchedIsNone` keep a launch from
taking the number of a broker that is named already.

`ObservedRunsProofs` proves all six properties of `observed_runs`, for every number of
projects, runs, tasks and pids, and without the distinct tasks of the run. What a window does
rests on a summary that is older than the disk, so the invariant relates the two: a snapshot
of a known run has its pid, and one it calls stale is of a run that is gone and stays so
(`Faithful`, `Gone`); the entries of a task list that was read are of runs that have begun
(`ListOf`); a stop in flight has only runs to close that are gone or its own (`StopInv`).
Lemmas say what the operators of `RunRecords` return: the dominant status, the
ages, what a summary counts.

`InputModeProofs` proves the four properties of `input_mode` for every number of projects and
runs. `InputInv` says of a pinned view that its session is in the list, that it runs, and
that it executes the run the operator confirmed. A switch or a cursor names a session of the
list, since the sessions after it in the shared order, or all of them, have a first one.

`InputQueueProofs` proves the four of `input_queue` for every set of lines and any number of runs and waiting
requests. `LinesOnce` and `QueuedInOrder` need each other and more (`Ordered`): what is queued
was typed in that order, is not written, and is later than what left the queue before, unless
it is destructive and held back. `ReloadKeepsLines` needs that the newest copy on its way to
the broker, or with it, is the queue (`CopyInv`), which every change of the queue restores
since it syncs in the same segment.

A filtered list holds the lines that pass, once each and in their order (`SubsequenceIsFilter`);
this rests on counting (`RankIsMonotone`, `RankIsOnto`), since a recursive filter is out of
reach.

`StepModelsProofs` proves the five of `step_models` for any workflow files, names, overlays,
models, runtime files and number of edits, without a hypothesis. Three of them are about
operators. What the catalog lists and what the resolver finds is the same entry where a layer
has one of an id and it is an ordinary file (`LookupsMeet`), and both look through the layers in one
order (`CatalogAlwaysResolves`); a workflow that is in some node of the categories is in the last
that has it (`NodesAreListed`); and the steps that are asked for have the keys of all steps
found, one each (`SelectableAre`), where every step that is due has a spot, in the root or under the
first step that calls its workflow (`StepsHaveSpots`). For the last one a key must have an
earliest and a latest spot, which it has since lists are finite (`SpotsOfAKey`).
`EveryStepIsAsked` follows from an invariant of the dialogs, that the keys asked for so far are
those of the steps passed (`AskedInOrder`). `ChoicesTakeEffect` needs one that speaks of what is
on its way too (`ChoicesHold`): until the windows have merged at the same time one of them merges,
the text it is about to write holds the choices made so far and its own, and
every profile with a bridge's name that a choice has stands for a model it is named for, so that
writing it again, for another step, leaves the steps that have it with that profile.

Assumptions: the named `ASSUME`s of the modules, which TLC evaluates in the runs.
`TaskQueueAssumption`: editors are processes, there is a slug, and the sentinels are not
values. `DisksAssumption`, `NewFilesAssumption` and `RuntimesAssumption`: the files at first and
later are workflow and runtime files. `RunsAssumption` and `ProjectsAssumption`: finitely many runs, whose names are not
those of the other users of a pid, and a project. The rest bound counters by naturals.

Only model-checked: liveness (`QueueSessionIsDecided`, `StageIsHealed`, `DeadLockGoes` and
`DeadDescriptorGoes`), since the provers do not reason about fairness of actions here, and the
four properties that are refuted. Every invariant and action property of a passing run
is stated by a theorem.

## Where the code and its words disagree

Four of them have a run that shows the violation, and an entry in `PROJECT.json`:

- `bridge_takeover`: a takeover clears the queue session, but a follow-up start that is in
  flight does not look at it again after its awaits (index.ts:778, 793, 811, 815): it
  goes on, spawns `takt run` and makes the session active with a count of one (816-822).
  docs/usage.md:49-51 says a takeover cannot be raced by a follow-up, and CHANGELOG.md:94 that
  the race is stopped.
- `bridge_reload`: `restoreProjectControlState` (index.ts:2182-2198) restores the queued
  lines first, and their `onChange` syncs the project to the broker before the queue
  session is restored; a second reload finds no session. docs/architecture.md:72-74 says
  it survives.
- `broker_start_race`: the first output of a run in one chunk with the answer to its start
  makes `applyState` drop the answer (takt-run-controller.ts:494), so the window takes the
  run for none. docs/architecture.md:121-123 says the mirror is kept aligned.
- `tasks_edit_race`: delete and reset (takt-task-edit.ts:44-76) use neither the lock nor a
  rename. docs/usage.md:25-26 says the file is written with locking and atomic
  replacement.

Four more have an entry there with the passing run whose model has the steps; the property
states what the code does, or exempts the case, and TLC finds it violated without the
exemption:

- A destructive line that is queued cannot be confirmed: `flushQueuedInputs` passes
  `force` (index.ts:2241), which `flushQueuedInputsFor` never reads (2202), and
  `takeBatch` holds the line back again. docs/usage.md:354-356 and the notification at
  index.ts:2221 say that it waits to be confirmed. `HeldLinesStay` of `input_queue`
  states what is the case: no flush sends it.
- The catalog and the resolver look for different files (takt-workflow-catalog.ts:67, 571-606,
  against docs/architecture.md:45-48): the one takes entries for which `isFile()` holds, with an
  extension in any case, the other whatever exists by the exact name. `CatalogResolves` is
  about ids on which they agree (`Ordinary`).
- "Keep the first occurrence" (takt-workflow-steps.ts:125-126) keeps the step of the last, since
  a `Map` is built from the pairs. When that is a call that was not expanded, the step that
  shares its key is never asked for. `EveryStepIsAsked` exempts such steps.
- Two windows that merge into `runtime.yaml` at the same time lose each other's targets, and one
  that reads the truncated file takes it for none (takt-runtime-yaml.ts:92, 122, 55-57, against
  its lines 76 and 118). `ChoicesTakeEffect` holds until it happens (`overlapped`).

Others were met on the way; the model has the step unless it says otherwise, and a
restriction or an exemption of the run named keeps it out:

- A successful run can lose its queue session: the exit code is read before an await, the
  stage after it (index.ts:2399, against docs/usage.md:36-39).
- `attach()` returns at once when the socket is open (takt-run-controller.ts:229), so a run
  another window starts is not adopted (against docs/usage.md:434-437); a new broker numbers
  from zero and a window that outlived the old one drops its snapshots and events (lines 198,
  494), and may even go on showing a run of the old one. `MirrorAgrees` exempts windows
  that missed a start, `ScreenAgrees` those of them that start runs, and all three
  properties those that outlived a broker.
- `start()` makes its screen and its promise before the request (takt-run-controller.ts:261-272),
  so what another window's run writes, and its exit, before the request is served go to them:
  the new run begins with the old one's output, and `waitForExit` has returned already.
  `ScreenAgrees` exempts a window that misses such a start (`Missed`).
- A descriptor is made with `openSync` and written afterwards (takt-run-broker.mjs:67-74);
  one that is read in between is unlinked as invalid (takt-run-controller.ts:585-587).
  docs/architecture.md:107 calls it atomic. `ReadsWhole` excludes it.
- The chosen label of the task list is matched by prefix (index.ts:3352): `fix-1` can be
  taken for `fix-12`. `PicksAreExact` excludes it. The edit then finds its task by that name in
  a file it reads again (takt-task-edit.ts:44-76), where the name may be a newer task's.
  `EditsInTurn` excludes it.
- `latestObservedActivityAt` says that a completed run must not keep an orphan fresh
  (takt-session-recovery.ts:109-111), and reads `summary.activityAt`, which completed runs
  set (line 107). `OrphansStopBlocking` is about projects with old records only.
- A line queued after the outcome was settled survives the exit and goes to the next
  session (index.ts:2304, against docs/usage.md:349-355, which flushes to the session it
  was typed for). `QueuedInOrder` does not forbid it.
- Choosing "(inherit global default)" for a step does not leave it untouched
  (docs/usage.md:490) when another choice of the same dialog becomes the default of a file
  without one (takt-runtime-yaml.ts:109-111). `ChoicesTakeEffect` is about steps that were
  given a model.
- `bridgeProfileName` (takt-runtime-yaml.ts:40-43) gives model references that differ in
  punctuation or case only one name, and choosing the second for a step changes the model of the
  steps that have the first. `ChoicesTakeEffect` allows for a model with the same profile. A
  profile that the operator wrote by hand under a bridge's name is replaced wholesale; a step
  that has it at first is no choice (`IsChoice`).

## Hazards beyond the list

`PROJECT.json` lists the forty that matter most. These are real too, and no module has a
property about them: `takt_stop` sets stopping, and an exit inside another flow's start
leaves it (index.ts:1710); exec tracking is begun before a start that is then refused
(index.ts:869); a follow-up start that fails writes its stage over a newer one
(index.ts:827); `waitForExit` after a refused spawn waits for nothing
(takt-run-controller.ts:302); the transcript is cut at 8 MB (takt-run-broker.mjs:216); a PTY
survives its stop (takt-run-broker.mjs:276); a task TAKT is running is reset and started
twice (takt-task-edit.ts:71); a crash leaves `tasks.yaml` half-written
(takt-task-edit.ts:40); registries are written by whoever comes last
(takt-json-registry.ts:19); the failed search for TAKT's installation is cached for good
(takt-workflow-catalog.ts:86); `ensureBroker` launches one broker and then only polls
(takt-run-controller.ts:381); `talk` queues what `send` writes at once (index.ts:955).

## What is not modelled

- Broker and controller: a broker killed with a live PTY inside a session (discovery has
  the kill, without the session), request time-outs, the cut of a transcript, a child that
  cannot be killed, resizing, authentication.
- Two calls of one controller at the same time in `BrokerSession`, and in its passing run
  two windows that start runs: a start refused because the PTY is live is modelled
  (`RefuseStart`) and not reached there.
- In `ProjectBridge`: flows of the runtime before a reload, adding and removing projects,
  prompt previews. `pendingRunAwaitingInput` is over-approximated by the kind of the run.
- State reader: log tails, phase progress, bundle information: presentation.
- A Pi process that enqueues while its own task list is open: the two take turns. A failure to
  write `order.md`, or to unlink the lock.
- In `StepModels`: a crash between the truncation and the write of `runtime.yaml`, edits by hand
  while Pi runs, a read in the middle of a write; directories of workflows deeper than one level
  and file systems that do not tell cases apart.
- The texts of directives, slugs, branches, descriptions and YAML.
- Task policy: a validation of two fields, without state.
- Project setup: files are copied one after the other, after checks; registries: a JSON file
  is read and written whole. Neither has a behaviour a test would not reach, apart from the
  last writer winning.
- Live panel, widget, progress, translations, keyboard, search and mentions: text made of
  states that other modules have.
- Models of Pi, node-pty helpers, release scripts and skills: queries, file permissions and
  checks of the repository's own release.

## Plan

1. Done: queue continuation, project lifecycle, broker session, task queue and its
   refinement of the atomic store, discovery, observed runs, input, workflows.
2. Done: proofs about `TaskQueue` (the refinement of `TaskStore`), `ObservedRuns`, `InputMode`,
   `InputQueue`, and `NoPhantomRun` of `BrokerSession`.
3. Done: proofs of `BudgetRespected`, and of `EndedIsNotRestored` for one call at a time.
   `NoFollowUpAfterEnd` is refuted, and becomes provable when `startPendingProject` looks at
   the session again after its awaits.
4. Done: `MirrorAgrees` and `ScreenAgrees` for every number of windows, under
   `StartNotOvertaken`.
5. Done: proofs about `StepModels`.
6. A broker killed inside a session.

## Running it

    tlasany TaskQueue.tla
    tlc -workers 2 -config tasks_serial.cfg MCTaskQueue
    tlapm TaskQueueProofs.tla

The longest passing run takes about two minutes. `PROJECT.json` names the
components, the runs, a mutant of the model for every property, the source lines of
every definition, the findings, the hazards and the theorems.
