----------------------------- MODULE InputMode -----------------------------
(***************************************************************************)
(* Who is typing: the input mode of TaktBridgeRuntime (extensions/index.ts)*)
(* with its focus view, and the keys and automatic inputs that end in the  *)
(* PTY of some project.                                                    *)
(*                                                                         *)
(* Pi's ui.custom is not part of this repository: it builds the component  *)
(* at once, and done() settles its promise before the next event, as the   *)
(* fakes of the tests do.  The promise is then pending exactly while the   *)
(* view is open, and a view that is closed never comes back.               *)
(***************************************************************************)
EXTENDS FocusView

CONSTANT MaxRuns     \* bound of the model: runs per project

ASSUME MaxRunsAssumption == MaxRuns \in Nat

VARIABLES
  run,       \* the run a project's PTY is executing, 0 if runner.isRunning is false
  started,   \* runs started so far, to tell them apart
  mode,      \* inputMode
  view,      \* focusView
  asked,     \* the input whose confirmation sendAutoInput awaits
  written    \* for the properties: what this step has written to a PTY

vars == <<run, started, mode, view, asked, written>>

Modes == {"pi", "takt", "pi-auto"}
Running == {p \in Projects : run[p] # 0}
NoInput == [by |-> "none"]

\* meant: the run the writer had in view.
Write(p, by, meant) ==
  written' = IF run[p] = 0 THEN NoInput ELSE [by |-> by, to |-> p, run |-> run[p], meant |-> meant]
WritesNothing == written' = NoInput

Views ==
  [phase: {"select", "pinned"}, sessions: SUBSET Projects, cursor: Projects,
   pinned: Projects \cup {NoProject}, run: 0..MaxRuns]

TypeOK ==
  /\ run \in [Projects -> 0..MaxRuns]
  /\ started \in [Projects -> 0..MaxRuns]
  /\ mode \in Modes
  /\ view \in Views \cup {NoView}
  /\ view # NoView => view.cursor \in view.sessions
  /\ asked \in [to: Projects, run: 1..MaxRuns] \cup {NoInput}
  /\ written \in [by: {"key", "auto"}, to: Projects, run: 1..MaxRuns, meant: 0..MaxRuns]
                 \cup {NoInput}

-----------------------------------------------------------------------------
(* Modes *)

\* cycleTaktInputMode
CycleMode(m) ==
  CASE m = "pi" -> "takt" [] m = "takt" -> "pi-auto" [] m = "pi-auto" -> "pi"

\* MUTANT: takt mode opens no view.
SetInputModeOpensNothing(m, runs) ==
  /\ mode' = IF \E p \in Projects : runs[p] # 0 THEN m ELSE "pi"
  /\ view' = IF mode' # "takt" THEN NoView ELSE view

\* setInputMode.  takt and pi-auto need a running session; takt opens the view unless
\* one is open, and the other modes close it, without its exit handler.
SetInputMode(m, runs) ==
  /\ mode' = IF \E p \in Projects : runs[p] # 0 THEN m ELSE "pi"
  /\ view' = IF mode' # "takt" THEN NoView ELSE IF view = NoView THEN NewView(runs) ELSE view

\* /takt:mode, and the calls that end in a mode: a prompt or a resume that was submitted
\* enters pi-auto, a tracked exec that settled leaves for pi.
ChooseMode ==
  /\ \E m \in Modes : SetInputMode(m, run)
  /\ WritesNothing /\ UNCHANGED <<run, started, asked>>

\* cycleInputMode: F6 in the editor or in the view.
CycleInputMode ==
  /\ SetInputMode(CycleMode(mode), run)
  /\ WritesNothing /\ UNCHANGED <<run, started, asked>>

-----------------------------------------------------------------------------
(* Keys in the view: handleInput, and /takt:session *)

Selecting == view.phase = "select"
Pinned == view.phase = "pinned"

Escape ==
  /\ view # NoView
  /\ SetInputMode("pi", run)
  /\ WritesNothing /\ UNCHANGED <<run, started, asked>>

Select ==
  /\ Selecting
  /\ view' \in {EnterKey(view, run)} \cup {MoveCursor(view, forward) : forward \in BOOLEAN}
  /\ WritesNothing /\ UNCHANGED <<run, started, mode, asked>>

Switch ==
  /\ Pinned /\ mode = "takt"
  /\ \E forward \in BOOLEAN : view' = SwitchTarget(view, run, forward)
  /\ WritesNothing /\ UNCHANGED <<run, started, mode, asked>>

TypeKey ==
  /\ Pinned
  /\ Write(view.pinned, "key", view.run)
  /\ UNCHANGED <<run, started, mode, view, asked>>

\* The host takes the overlay away without the view's exit: the finally-branch of
\* openTaktFullscreenFocus closes the view, and the mode stays as it is.
HostCloses ==
  /\ view # NoView
  /\ view' = NoView
  /\ WritesNothing /\ UNCHANGED <<run, started, mode, asked>>

-----------------------------------------------------------------------------
(* Automatic input *)

\* activeRunningProject
ActiveProject == IF Current \in Running THEN Current ELSE First(Running)

\* sendAutoInput.  A destructive text waits for the operator's confirmation; nothing is
\* looked at again after it.
SendAutoInput ==
  /\ mode = "pi-auto" /\ Running # {}
  /\ Write(ActiveProject, "auto", run[ActiveProject])
  /\ UNCHANGED <<run, started, mode, view, asked>>

AskForAutoInput ==
  /\ mode = "pi-auto" /\ Running # {} /\ asked = NoInput
  /\ asked' = [to |-> ActiveProject, run |-> run[ActiveProject]]
  /\ WritesNothing /\ UNCHANGED <<run, started, mode, view>>

AnswerAutoInput ==
  /\ asked # NoInput
  /\ asked' = NoInput
  /\ Write(asked.to, "auto", asked.run) \/ WritesNothing
  /\ UNCHANGED <<run, started, mode, view>>

-----------------------------------------------------------------------------
(* Runs *)

Starts(p) ==
  /\ run[p] = 0 /\ started[p] < MaxRuns
  /\ started' = [started EXCEPT ![p] = @ + 1]
  /\ run' = [run EXCEPT ![p] = started'[p]]
  /\ WritesNothing /\ UNCHANGED <<mode, view, asked>>

\* MUTANT: the view is not told of the exit.
LeavesFocusSilently(p) == FALSE

\* The view's subscription: the pinned runner has ended, so the operator is back in Pi.
LeavesFocus(p) == RunnerEnded(view, Running \ {p})

\* onExit: no project runs any more.
NoRunnerLeft(p) == Running = {p}

\* The exit event: the screen listeners run first, then onExit.
Ends(p) ==
  /\ run[p] # 0
  /\ run' = [run EXCEPT ![p] = 0]
  /\ IF LeavesFocus(p) \/ NoRunnerLeft(p) THEN SetInputMode("pi", run') ELSE UNCHANGED <<mode, view>>
  /\ WritesNothing /\ UNCHANGED <<started, asked>>

\* The timer of the view; another project may run meanwhile.
Tick ==
  /\ SelectionIsOver(view, Running)
  /\ SetInputMode("pi", run)
  /\ WritesNothing /\ UNCHANGED <<run, started, asked>>

\* Shutdown of the extension for a reload: the runs go on under their brokers.
Reload ==
  /\ mode' = "pi" /\ view' = NoView /\ asked' = NoInput
  /\ WritesNothing /\ UNCHANGED <<run, started>>

-----------------------------------------------------------------------------

Init ==
  /\ run = [p \in Projects |-> 0]
  /\ started = [p \in Projects |-> 0]
  /\ mode = "pi"
  /\ view = NoView
  /\ asked = NoInput
  /\ written = NoInput

Next ==
  \/ ChooseMode \/ CycleInputMode \/ Escape \/ Select \/ Switch \/ TypeKey \/ HostCloses
  \/ SendAutoInput \/ AskForAutoInput \/ AnswerAutoInput \/ Tick \/ Reload
  \/ \E p \in Projects : Starts(p) \/ Ends(p)

Spec == Init /\ [][Next]_vars

-----------------------------------------------------------------------------
(* Properties *)

\* A key reaches only the run that the operator has pinned, or that was the only one when
\* the view opened: never a later run of the same project, and none while selecting.
KeysReachTheConfirmedRun == written.by = "key" => written.run = written.meant

\* When the pinned run ends the operator is back in Pi, whatever else runs: "the next
\* keystroke cannot reach another session unexpectedly" (handleTaktFocusExit).
FocusEndsWithItsRun ==
  [][view.phase = "pinned" /\ run'[view.pinned] # view.run => mode' = "pi" /\ view' = NoView]_vars

\* Only the host can leave takt mode without its view.
TaktModeShowsView ==
  [][mode' = "takt" /\ view' = NoView => HostCloses \/ UNCHANGED <<mode, view>>]_vars
=============================================================================
