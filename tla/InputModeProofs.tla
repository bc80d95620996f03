-------------------------- MODULE InputModeProofs --------------------------
(***************************************************************************)
(* Keys reach the run the operator confirmed, for any number of projects   *)
(* and runs.  The argument: a pinned session is one of the view's, it      *)
(* runs, and the run it is executing is the one the view remembers.        *)
(***************************************************************************)
EXTENDS InputMode, Integers, WellFoundedInduction, TLAPS

\* What makes a view one that the operator can use.
ViewFits(v) == v \in Views /\ v.cursor \in v.sessions

PinnedIsConfirmed(v, runs) ==
  v.phase = "pinned" =>
    /\ v.pinned \in v.sessions
    /\ runs[v.pinned] # 0 /\ v.run = runs[v.pinned]

Usable(v, runs) == v # NoView => ViewFits(v) /\ PinnedIsConfirmed(v, runs)

FocusInv == TypeOK /\ Usable(view, run)

RunTypes(runs) == runs \in [Projects -> 0..MaxRuns]

-----------------------------------------------------------------------------
(* The view's operators                                                    *)

\* Every set of naturals that is not empty has a least element.
LEMMA LeastNatural ==
  ASSUME NEW T \in SUBSET Nat, T # {}
  PROVE  \E n \in T : \A m \in T : n <= m
<1> DEFINE Below == {ss \in Nat \X Nat : ss[1] < ss[2]}
<1>1. IsWellFoundedOn(Below, Nat)
  BY NatLessThanWellFounded DEF OpToRel
<1>2. PICK n \in T : \A m \in T : ~(<<m, n>> \in Below)
  BY <1>1, WFMin
<1>3. ASSUME NEW m \in T PROVE n <= m
  <2>1. m \in Nat /\ n \in Nat
    OBVIOUS
  <2>2. ~(m < n)
    BY <1>2, <2>1
  <2>3. QED
    BY <2>1, <2>2
<1>4. QED
  BY <1>3

LEMMA PlaceIsOne == \A p \in Projects : Place(p) \in 1..Len(Order)
<1>1. ASSUME NEW p \in Projects PROVE Place(p) \in DOMAIN Order
  BY DEF Projects, Place
<1>2. QED
  BY <1>1, OrderAssumption

\* A list that is not empty has a first session, and a last one.
LEMMA EndsAreThere ==
  ASSUME NEW S \in SUBSET Projects, S # {}
  PROVE  First(S) \in S /\ Last(S) \in S
<1>1. Len(Order) \in Nat /\ \A p \in S : Place(p) \in 1..Len(Order)
  BY PlaceIsOne, OrderAssumption
<1>2. \E p \in S : \A q \in S : Place(p) <= Place(q)
  <2> DEFINE T == {Place(p) : p \in S}
  <2>1. T \in SUBSET Nat /\ T # {}
    BY <1>1
  <2> HIDE DEF T
  <2>2. PICK n \in T : \A m \in T : n <= m
    BY <2>1, LeastNatural
  <2>3. QED
    BY <2>2 DEF T
<1>3. \E p \in S : \A q \in S : Place(q) <= Place(p)
  <2> DEFINE T == {Len(Order) - Place(p) : p \in S}
  <2>1. T \in SUBSET Nat /\ T # {}
    BY <1>1
  <2> HIDE DEF T
  <2>2. PICK n \in T : \A m \in T : n <= m
    BY <2>1, LeastNatural
  <2>3. PICK p \in S : n = Len(Order) - Place(p)
    BY DEF T
  <2>4. ASSUME NEW q \in S PROVE Place(q) <= Place(p)
    <3>1. n <= Len(Order) - Place(q)
      BY <2>2 DEF T
    <3>2. QED
      BY <1>1, <2>3, <3>1
  <2>5. QED
    BY <2>4
<1>4. QED
  BY <1>2, <1>3 DEF First, Last

\* The session beside one is a session of the list.
LEMMA BesideIsThere ==
  ASSUME NEW S \in SUBSET Projects, S # {}, NEW p, NEW forward
  PROVE  Beside(S, p, forward) \in S
<1>1. After(S, p) \in S
  BY EndsAreThere DEF After
<1>2. Before(S, p) \in S
  BY EndsAreThere DEF Before
<1>3. QED
  BY <1>1, <1>2 DEF Beside

\* The view that opens while something runs can be used, and it is open.
LEMMA NewViewFits ==
  ASSUME NEW runs, RunTypes(runs), \E p \in Projects : runs[p] # 0
  PROVE  NewView(runs) # NoView /\ Usable(NewView(runs), runs)
<1> DEFINE sessions == {p \in Projects : runs[p] # 0}
           cursor == IF Current \in sessions THEN Current ELSE First(sessions)
           alone == [phase |-> "pinned", sessions |-> sessions, cursor |-> cursor,
                     pinned |-> cursor, run |-> IF sessions = {cursor} THEN runs[cursor] ELSE 0]
           several == [phase |-> "select", sessions |-> sessions, cursor |-> cursor,
                       pinned |-> NoProject, run |-> 0]
<1>1. NewView(runs) = IF PinsAlone(sessions) THEN alone ELSE several
  BY DEF NewView
<1>2. cursor \in sessions /\ cursor \in Projects /\ sessions \in SUBSET Projects
  BY EndsAreThere
<1>3. runs[cursor] \in 0..MaxRuns /\ runs[cursor] # 0
  BY <1>2 DEF RunTypes
<1> HIDE DEF sessions, cursor
<1>4. CASE PinsAlone(sessions)
  <2>1. sessions = {cursor}
    BY <1>2, <1>4 DEF PinsAlone
  <2>2. ViewFits(alone)
    BY <1>2, <1>3, <2>1 DEF Views, ViewFits
  <2>3. PinnedIsConfirmed(alone, runs)
    BY <1>2, <1>3, <2>1 DEF PinnedIsConfirmed
  <2>4. QED
    BY <1>1, <1>4, <2>2, <2>3 DEF Usable, NoView
<1>5. CASE ~PinsAlone(sessions)
  <2>1. ViewFits(several)
    BY <1>2, MaxRunsAssumption DEF Views, ViewFits
  <2>2. QED
    BY <1>1, <1>5, <2>1 DEF Usable, PinnedIsConfirmed, NoView
<1>6. QED
  BY <1>4, <1>5

\* Leaving for pi closes the view.
LEMMA PiClosesView ==
  ASSUME NEW runs, SetInputMode("pi", runs)
  PROVE  mode' = "pi" /\ view' = NoView
BY DEF SetInputMode

\* Every mode leaves a usable view, and takt mode an open one.
LEMMA ModeKeepsView ==
  ASSUME NEW m \in Modes, FocusInv, SetInputMode(m, run)
  PROVE  /\ mode' \in Modes /\ Usable(view', run)
         /\ mode' = "takt" => view' # NoView
<1>1. mode' \in Modes
  BY DEF SetInputMode, Modes
<1>2. CASE mode' = "takt"
  <2>1. \E p \in Projects : run[p] # 0
    BY <1>2 DEF SetInputMode
  <2>2. view' = IF view = NoView THEN NewView(run) ELSE view
    BY <1>2 DEF SetInputMode
  <2>3. QED
    BY <1>1, <2>1, <2>2, NewViewFits DEF FocusInv, TypeOK, RunTypes
<1>3. CASE mode' # "takt"
  BY <1>1, <1>3 DEF SetInputMode, Usable
<1>4. QED
  BY <1>2, <1>3

\* A pin on a running session of the view is a confirmed one.
LEMMA PinFits ==
  ASSUME NEW v, ViewFits(v), NEW runs, RunTypes(runs), NEW p \in v.sessions, runs[p] # 0
  PROVE  LET w == Pin(v, p, runs)
         IN  ViewFits(w) /\ PinnedIsConfirmed(w, runs) /\ w # NoView
<1> DEFINE w == Pin(v, p, runs)
<1>1. v \in Views /\ p \in Projects
  BY DEF ViewFits, Views
<1>2. runs[p] \in 0..MaxRuns
  BY <1>1 DEF RunTypes
<1>3. /\ w \in Views /\ w.sessions = v.sessions /\ w.cursor = v.cursor
      /\ w.phase = "pinned" /\ w.pinned = p /\ w.run = runs[p]
  BY <1>1, <1>2 DEF Pin, Views
<1>4. ViewFits(w)
  BY <1>3 DEF ViewFits
<1>5. PinnedIsConfirmed(w, runs)
  BY <1>3 DEF PinnedIsConfirmed
<1>6. QED
  BY <1>3, <1>4, <1>5 DEF NoView

\* The cursor goes around the sessions.
LEMMA MovingFits ==
  ASSUME NEW v, ViewFits(v), v.phase = "select", NEW forward
  PROVE  ViewFits(MoveCursor(v, forward)) /\ MoveCursor(v, forward).phase = "select"
<1>1. v \in Views /\ v.sessions \in SUBSET Projects /\ v.sessions # {}
  BY DEF ViewFits, Views
<1>2. PICK p \in v.sessions : p = Beside(v.sessions, v.cursor, forward)
  BY <1>1, BesideIsThere
<1>3. MoveCursor(v, forward) = [v EXCEPT !.cursor = p]
  BY <1>1, <1>2 DEF MoveCursor, Views
<1>4. QED
  BY <1>1, <1>2, <1>3 DEF ViewFits, Views

\* F7 moves the pin from a confirmed session to a running one, in one step.
LEMMA SwitchFits ==
  ASSUME NEW v, ViewFits(v), NEW runs, RunTypes(runs), PinnedIsConfirmed(v, runs),
         v.phase = "pinned", NEW forward \in BOOLEAN
  PROVE  LET w == SwitchTarget(v, runs, forward)
         IN  ViewFits(w) /\ PinnedIsConfirmed(w, runs) /\ w # NoView
<1> DEFINE eligible == {p \in v.sessions : runs[p] # 0}
<1>1. CASE \A p, q \in eligible : p = q
  <2>1. SwitchTarget(v, runs, forward) = v
    BY <1>1 DEF SwitchTarget
  <2>2. QED
    BY <2>1 DEF NoView
<1>2. CASE ~(\A p, q \in eligible : p = q)
  <2>1. eligible \in SUBSET Projects /\ eligible # {}
    BY <1>2 DEF ViewFits, Views
  <2>2. PICK p \in eligible : p = Beside(eligible, v.pinned, forward)
    BY <2>1, BesideIsThere
  <2>3. SwitchTarget(v, runs, forward) = Pin(v, p, runs)
    BY <1>2, <2>2 DEF SwitchTarget
  <2>4. QED
    BY <2>3, PinFits
<1>3. QED
  BY <1>1, <1>2

-----------------------------------------------------------------------------
(* Steps                                                                   *)

\* What a step does to the view and to the run it shows; the rest is types.
Keeps ==
  /\ RunTypes(run') /\ mode' \in Modes /\ Usable(view', run')
  /\ mode' = "takt" /\ view' = NoView => HostCloses \/ UNCHANGED <<mode, view>>
  /\ view.phase = "pinned" /\ run'[view.pinned] # view.run => mode' = "pi" /\ view' = NoView

\* The step of a mode key, of a command or of the view's end.
LEMMA ModeStepKeeps ==
  ASSUME FocusInv, NEW m \in Modes, SetInputMode(m, run), run' = run
  PROVE  Keeps
<1>1. mode' \in Modes /\ Usable(view', run) /\ (mode' = "takt" => view' # NoView)
  BY ModeKeepsView
<1>2. view.phase = "pinned" => run[view.pinned] = view.run
  BY DEF FocusInv, Usable, PinnedIsConfirmed, NoView
<1>3. QED
  BY <1>1, <1>2 DEF Keeps, FocusInv, TypeOK, RunTypes

\* A step that leaves the runs and the mode alone, and the view open, if it was.
LEMMA ViewStepKeeps ==
  ASSUME FocusInv, UNCHANGED <<run, mode>>, Usable(view', run),
         view' = view \/ view' # NoView \/ HostCloses
  PROVE  Keeps
<1>1. view.phase = "pinned" => run[view.pinned] = view.run
  BY DEF FocusInv, Usable, PinnedIsConfirmed, NoView
<1>2. QED
  BY <1>1 DEF Keeps, FocusInv, TypeOK, RunTypes

\* The keys that select among several sessions.
LEMMA SelectKeeps ==
  ASSUME FocusInv, Select
  PROVE  Keeps
<1>1. /\ ViewFits(view) /\ view # NoView /\ view.phase = "select" /\ RunTypes(run)
      /\ view.cursor \in view.sessions
  BY DEF Select, Selecting, FocusInv, Usable, NoView, TypeOK, RunTypes, ViewFits
<1>2. CASE view' = EnterKey(view, run)
  <2>1. CASE run[view.cursor] # 0
    <3>1. view' = Pin(view, view.cursor, run)
      BY <1>2, <2>1 DEF EnterKey
    <3>2. Usable(view', run) /\ view' # NoView
      BY <1>1, <2>1, <3>1, PinFits DEF Usable
    <3>3. QED
      BY <3>2, ViewStepKeeps DEF Select
  <2>2. CASE run[view.cursor] = 0
    <3>1. view' = view
      BY <1>2, <2>2 DEF EnterKey
    <3>2. QED
      BY <3>1, ViewStepKeeps DEF Select, FocusInv
  <2>3. QED
    BY <2>1, <2>2
<1>3. ASSUME NEW forward \in BOOLEAN, view' = MoveCursor(view, forward)
      PROVE  Keeps
  <2>1. ViewFits(view') /\ view'.phase = "select"
    BY <1>1, <1>3, MovingFits
  <2>2. Usable(view', run) /\ view' # NoView
    BY <2>1 DEF Usable, PinnedIsConfirmed, NoView
  <2>3. QED
    BY <2>2, ViewStepKeeps DEF Select
<1>4. QED
  BY <1>2, <1>3 DEF Select

\* F7 and its reverse.
LEMMA SwitchKeeps ==
  ASSUME FocusInv, Switch
  PROVE  Keeps
<1>1. /\ ViewFits(view) /\ view # NoView /\ view.phase = "pinned" /\ RunTypes(run)
      /\ PinnedIsConfirmed(view, run)
  BY DEF Switch, Pinned, FocusInv, Usable, NoView, TypeOK, RunTypes
<1>2. Usable(view', run) /\ view' # NoView
  BY <1>1, SwitchFits DEF Switch, Usable
<1>3. QED
  BY <1>2, ViewStepKeeps DEF Switch

\* A run that starts is not the one a view has pinned: that one is running.
LEMMA StartKeeps ==
  ASSUME FocusInv, NEW p \in Projects, Starts(p)
  PROVE  Keeps
<1>1. started[p] \in Nat /\ started[p] + 1 \in 0..MaxRuns /\ UNCHANGED <<mode, view>>
  BY MaxRunsAssumption DEF Starts, FocusInv, TypeOK
<1>2. RunTypes(run')
  BY <1>1 DEF Starts, FocusInv, TypeOK, RunTypes
<1>3. view # NoView => view.pinned \in Projects \cup {NoProject}
  BY DEF FocusInv, Usable, ViewFits, Views
<1>4. view.phase = "pinned" =>
        /\ view # NoView /\ view.pinned \in Projects
        /\ run[view.pinned] = view.run /\ run[view.pinned] # 0
  <2>1. ASSUME view.phase = "pinned"
        PROVE  view # NoView /\ PinnedIsConfirmed(view, run) /\ ViewFits(view)
    BY <2>1 DEF FocusInv, Usable, NoView
  <2>2. ASSUME view.phase = "pinned" PROVE view.pinned \in Projects
    BY <2>1, <2>2 DEF PinnedIsConfirmed, ViewFits, Views
  <2>3. QED
    BY <2>1, <2>2 DEF PinnedIsConfirmed
<1>5. view.phase = "pinned" => run'[view.pinned] = run[view.pinned]
  BY <1>4 DEF Starts, FocusInv, TypeOK
<1>6. Usable(view', run')
  BY <1>1, <1>4, <1>5 DEF FocusInv, Usable, PinnedIsConfirmed
<1>7. QED
  BY <1>1, <1>2, <1>4, <1>5, <1>6 DEF Keeps, FocusInv, TypeOK

\* When the pinned run ends the view goes; another run that ends leaves it alone.
LEMMA EndKeeps ==
  ASSUME FocusInv, NEW p \in Projects, Ends(p)
  PROVE  Keeps
<1>1. RunTypes(run') /\ run' = [run EXCEPT ![p] = 0] /\ run \in [Projects -> 0..MaxRuns]
  BY MaxRunsAssumption DEF Ends, FocusInv, TypeOK, RunTypes
<1>2. CASE mode' = "pi" /\ view' = NoView
  BY <1>1, <1>2 DEF Keeps, Usable, Modes
<1>3. CASE ~(mode' = "pi" /\ view' = NoView)
  <2>1. ~LeavesFocus(p) /\ UNCHANGED <<mode, view>>
    BY <1>3, PiClosesView DEF Ends
  <2>2. view.phase = "pinned" =>
          view # NoView /\ PinnedIsConfirmed(view, run) /\ view.pinned # p
    BY <2>1 DEF LeavesFocus, RunnerEnded, FocusInv, Usable, NoView
  <2>3. view.phase = "pinned" => run'[view.pinned] = run[view.pinned]
    BY <1>1, <2>1, <2>2 DEF LeavesFocus, RunnerEnded, Running
  <2>4. Usable(view', run')
    BY <2>1, <2>2, <2>3 DEF FocusInv, Usable, PinnedIsConfirmed
  <2>5. QED
    BY <1>1, <2>1, <2>2, <2>3, <2>4 DEF Keeps, PinnedIsConfirmed, FocusInv, TypeOK
<1>4. QED
  BY <1>2, <1>3

\* Every step keeps the view usable and the pin confirmed.
LEMMA StepKeeps ==
  ASSUME FocusInv, [Next]_vars
  PROVE  Keeps
<1>1. CASE UNCHANGED vars
  BY <1>1, ViewStepKeeps DEF vars, FocusInv
<1>2. CASE ChooseMode
  BY <1>2, ModeStepKeeps DEF ChooseMode
<1>3. CASE CycleInputMode
  <2>1. CycleMode(mode) \in Modes
    BY DEF CycleMode, Modes, FocusInv, TypeOK
  <2>2. QED
    BY <1>3, <2>1, ModeStepKeeps DEF CycleInputMode
<1>4. CASE Escape \/ Tick
  <2>1. "pi" \in Modes
    BY DEF Modes
  <2>2. QED
    BY <1>4, <2>1, ModeStepKeeps DEF Escape, Tick
<1>5. CASE Select
  BY <1>5, SelectKeeps
<1>6. CASE Switch
  BY <1>6, SwitchKeeps
<1>7. CASE TypeKey \/ SendAutoInput \/ AskForAutoInput \/ AnswerAutoInput
  <2>1. UNCHANGED <<run, mode, view>>
    BY <1>7 DEF TypeKey, SendAutoInput, AskForAutoInput, AnswerAutoInput
  <2>2. QED
    BY <2>1, ViewStepKeeps DEF FocusInv
<1>8. CASE HostCloses
  <2>1. UNCHANGED <<run, mode>> /\ Usable(view', run)
    BY <1>8 DEF HostCloses, Usable
  <2>2. QED
    BY <1>8, <2>1, ViewStepKeeps
<1>9. CASE Reload
  BY <1>9 DEF Reload, Keeps, FocusInv, TypeOK, RunTypes, Usable, Modes
<1>10. ASSUME NEW p \in Projects, Starts(p) \/ Ends(p)
       PROVE  Keeps
  BY <1>10, StartKeeps, EndKeeps
<1>11. QED
  BY <1>1, <1>2, <1>3, <1>4, <1>5, <1>6, <1>7, <1>8, <1>9, <1>10 DEF Next

\* The project an automatic input goes to is running.
LEMMA ActiveRuns ==
  ASSUME FocusInv, Running # {}
  PROVE  ActiveProject \in Projects /\ run[ActiveProject] \in 1..MaxRuns
<1>1. Running \in SUBSET Projects
  BY DEF Running
<1>2. First(Running) \in Running
  BY <1>1, EndsAreThere
<1>3. ActiveProject \in Running
  BY <1>2 DEF ActiveProject
<1>4. QED
  BY <1>3, MaxRunsAssumption DEF Running, FocusInv, TypeOK

\* What reaches a PTY, and what waits for an answer, names a run.
Answerable(a) == a \in [to: Projects, run: 1..MaxRuns] \cup {NoInput}

Reached(w) ==
  /\ w \in [by: {"key", "auto"}, to: Projects, run: 1..MaxRuns, meant: 0..MaxRuns] \cup {NoInput}
  /\ w.by = "key" => w.run = w.meant

\* A write reaches the run of its project, or nothing.
LEMMA WriteReaches ==
  ASSUME FocusInv, NEW p \in Projects, NEW by \in {"key", "auto"}, NEW meant \in 0..MaxRuns,
         Write(p, by, meant), by = "key" => run[p] = meant
  PROVE  Reached(written')
<1>1. run[p] \in 0..MaxRuns /\ (run[p] # 0 => run[p] \in 1..MaxRuns)
  BY MaxRunsAssumption DEF FocusInv, TypeOK
<1>2. CASE run[p] = 0
  BY <1>2 DEF Write, Reached, NoInput
<1>3. CASE run[p] # 0
  BY <1>1, <1>3 DEF Write, Reached
<1>4. QED
  BY <1>2, <1>3

\* A step that writes nothing, or leaves what was written alone.
LEMMA SilentReaches ==
  ASSUME FocusInv, KeysReachTheConfirmedRun, WritesNothing \/ written' = written
  PROVE  Reached(written')
BY DEF FocusInv, TypeOK, KeysReachTheConfirmedRun, WritesNothing, Reached, NoInput

\* Keys, automatic inputs and confirmations reach a run that is there.
LEMMA InputReaches ==
  ASSUME FocusInv, KeysReachTheConfirmedRun,
         TypeKey \/ SendAutoInput \/ AskForAutoInput \/ AnswerAutoInput
  PROVE  Reached(written') /\ Answerable(asked')
<1>1. Answerable(asked)
  BY DEF FocusInv, TypeOK, Answerable
<1>2. CASE TypeKey
  <2>1. view # NoView /\ view \in Views /\ PinnedIsConfirmed(view, run) /\ view.phase = "pinned"
    BY <1>2 DEF TypeKey, Pinned, FocusInv, Usable, NoView, ViewFits
  <2>2. view.pinned \in Projects /\ view.run = run[view.pinned] /\ view.run \in 0..MaxRuns
    BY <2>1 DEF PinnedIsConfirmed, Views
  <2>3. Reached(written')
    BY <1>2, <2>2, WriteReaches DEF TypeKey
  <2>4. QED
    BY <1>1, <1>2, <2>3 DEF TypeKey
<1>3. CASE SendAutoInput
  <2>1. ActiveProject \in Projects /\ run[ActiveProject] \in 0..MaxRuns
    BY <1>3, ActiveRuns, MaxRunsAssumption DEF SendAutoInput
  <2>2. Reached(written')
    BY <1>3, <2>1, WriteReaches DEF SendAutoInput
  <2>3. QED
    BY <1>1, <1>3, <2>2 DEF SendAutoInput
<1>4. CASE AskForAutoInput
  <2>1. Answerable(asked')
    BY <1>4, ActiveRuns DEF AskForAutoInput, Answerable
  <2>2. QED
    BY <1>4, <2>1, SilentReaches DEF AskForAutoInput
<1>5. CASE AnswerAutoInput
  <2>1. asked.to \in Projects /\ asked.run \in 0..MaxRuns
    BY <1>1, <1>5, MaxRunsAssumption DEF AnswerAutoInput, Answerable
  <2>2. Reached(written')
    BY <1>5, <2>1, WriteReaches, SilentReaches DEF AnswerAutoInput
  <2>3. QED
    BY <1>5, <2>2 DEF AnswerAutoInput, Answerable
<1>6. QED
  BY <1>2, <1>3, <1>4, <1>5

\* Every step has the types of what is not the view's, and keys that reach what they mean.
LEMMA StepTypes ==
  ASSUME FocusInv, KeysReachTheConfirmedRun, [Next]_vars
  PROVE  started' \in [Projects -> 0..MaxRuns] /\ Answerable(asked') /\ Reached(written')
<1>1. started \in [Projects -> 0..MaxRuns] /\ Answerable(asked)
  BY DEF FocusInv, TypeOK, Answerable
<1>2. CASE UNCHANGED vars
  BY <1>1, <1>2, SilentReaches DEF vars
<1>3. CASE ChooseMode \/ CycleInputMode \/ Escape \/ Tick \/ Select \/ Switch \/ HostCloses
  <2>1. UNCHANGED <<started, asked>> /\ WritesNothing
    BY <1>3 DEF ChooseMode, CycleInputMode, Escape, Tick, Select, Switch, HostCloses
  <2>2. QED
    BY <1>1, <2>1, SilentReaches
<1>4. CASE TypeKey \/ SendAutoInput \/ AskForAutoInput \/ AnswerAutoInput
  <2>1. started' = started
    BY <1>4 DEF TypeKey, SendAutoInput, AskForAutoInput, AnswerAutoInput
  <2>2. QED
    BY <1>1, <1>4, <2>1, InputReaches
<1>5. CASE Reload
  <2>1. started' = started /\ Answerable(asked') /\ WritesNothing
    BY <1>5 DEF Reload, Answerable
  <2>2. QED
    BY <1>1, <2>1, SilentReaches
<1>6. ASSUME NEW p \in Projects, Starts(p) \/ Ends(p)
      PROVE  started' \in [Projects -> 0..MaxRuns] /\ Answerable(asked') /\ Reached(written')
  <2>1. asked' = asked /\ WritesNothing
    BY <1>6 DEF Starts, Ends
  <2>2. started' \in [Projects -> 0..MaxRuns]
    BY <1>1, <1>6, MaxRunsAssumption DEF Starts, Ends
  <2>3. QED
    BY <1>1, <2>1, <2>2, SilentReaches
<1>7. QED
  BY <1>2, <1>3, <1>4, <1>5, <1>6 DEF Next

-----------------------------------------------------------------------------
(* The theorems                                                            *)

InputInv == FocusInv /\ KeysReachTheConfirmedRun

\* The invariant holds at first.
LEMMA InputInit == Init => InputInv
<1> SUFFICES ASSUME Init PROVE InputInv
  OBVIOUS
<1>1. TypeOK
  BY MaxRunsAssumption DEF Init, TypeOK, Modes
<1>2. QED
  BY <1>1 DEF Init, InputInv, FocusInv, Usable, KeysReachTheConfirmedRun, NoInput

\* Every step keeps it.
LEMMA InputStep ==
  ASSUME InputInv, [Next]_vars
  PROVE  InputInv'
<1>1. RunTypes(run') /\ mode' \in Modes /\ Usable(view', run')
  BY StepKeeps DEF InputInv, Keeps
<1>2. started' \in [Projects -> 0..MaxRuns] /\ Answerable(asked') /\ Reached(written')
  BY StepTypes DEF InputInv
<1>3. TypeOK'
  BY <1>1, <1>2 DEF TypeOK, RunTypes, Answerable, Reached, Usable, ViewFits
<1>4. QED
  BY <1>1, <1>2, <1>3 DEF InputInv, FocusInv, Reached, KeysReachTheConfirmedRun

\* Every variable of the input mode and of its view keeps its type, for any projects and any
\* number of runs; the cursor stays among the sessions.
THEOREM InputTypes == Spec => []TypeOK
<1>1. InputInv => TypeOK
  BY DEF InputInv, FocusInv
<1>2. QED
  BY <1>1, InputInit, InputStep, PTL DEF Spec

\* A key reaches only the run the operator confirmed in the focus view, however runs end and
\* start again, sessions are switched and the host closes the view.
THEOREM KeysTheorem == Spec => []KeysReachTheConfirmedRun
<1>1. InputInv => KeysReachTheConfirmedRun
  BY DEF InputInv
<1>2. QED
  BY <1>1, InputInit, InputStep, PTL DEF Spec

\* The step in which the pinned run ends is the step in which the view closes and the
\* operator is back in Pi.
THEOREM FocusEndsTheorem == Spec => FocusEndsWithItsRun
<1>1. InputInv /\ [Next]_vars =>
        [view.phase = "pinned" /\ run'[view.pinned] # view.run => mode' = "pi" /\ view' = NoView]_vars
  BY StepKeeps DEF InputInv, Keeps
<1>2. QED
  BY <1>1, InputInit, InputStep, PTL DEF Spec, FocusEndsWithItsRun

\* No step but the host's leaves takt mode without its view.
THEOREM TaktModeTheorem == Spec => TaktModeShowsView
<1>1. InputInv /\ [Next]_vars =>
        [mode' = "takt" /\ view' = NoView => HostCloses \/ UNCHANGED <<mode, view>>]_vars
  BY StepKeeps DEF InputInv, Keeps
<1>2. QED
  BY <1>1, InputInit, InputStep, PTL DEF Spec, TaktModeShowsView
=============================================================================
