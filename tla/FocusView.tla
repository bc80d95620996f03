----------------------------- MODULE FocusView -----------------------------
(***************************************************************************)
(* The fullscreen focus of takt mode (lib/takt-focus-view.ts): which TAKT  *)
(* session the operator's keys go to.  The operators take a view and the   *)
(* projects that run, and give the view afterwards; NoView stands for a    *)
(* view that is closed, or for none.  What is drawn is left out.           *)
(*                                                                         *)
(* A session is the project it belongs to, and a list of sessions is the   *)
(* set of them, as all lists are in the one shared order; the cursor is    *)
(* the session it is on.  view.run is not in the code: it remembers which  *)
(* run of the pinned session the operator confirmed; a pin made by the     *)
(* view itself confirms only the session that is alone.                    *)
(***************************************************************************)
EXTENDS Naturals, Sequences

CONSTANTS
  Order,       \* the projects, in the order orderTaktFocusSessions shows them
  Current      \* the project of Pi's working directory

Projects == {Order[i] : i \in DOMAIN Order}

ASSUME OrderAssumption ==
  Order \in Seq(Projects) /\ \A i, j \in DOMAIN Order : Order[i] = Order[j] => i = j
ASSUME CurrentAssumption == Current \in Projects

NoProject == "none"
NoView == [phase |-> "closed"]

\* The place of a project in the shared order, and the ends of a list in it.
Place(p) == CHOOSE i \in DOMAIN Order : Order[i] = p
First(sessions) == CHOOSE p \in sessions : \A q \in sessions : Place(p) <= Place(q)
Last(sessions) == CHOOSE p \in sessions : \A q \in sessions : Place(q) <= Place(p)

\* The session after p, or before it, around the list.
After(sessions, p) ==
  LET later == {q \in sessions : Place(p) < Place(q)}
  IN  IF later = {} THEN First(sessions) ELSE First(later)
Before(sessions, p) ==
  LET earlier == {q \in sessions : Place(q) < Place(p)}
  IN  IF earlier = {} THEN Last(sessions) ELSE Last(earlier)
Beside(sessions, p, forward) == IF forward THEN After(sessions, p) ELSE Before(sessions, p)

\* MUTANT: the view pins the highlighted session though there are others.
PinsAtOnce(sessions) == TRUE

\* One eligible session pins itself, several wait for an Enter.
PinsAlone(sessions) == \A p, q \in sessions : p = q

\* The constructor, for the sessions that run now; run[p] is the run of p.
NewView(run) ==
  LET sessions == {p \in Projects : run[p] # 0}
      cursor == IF Current \in sessions THEN Current ELSE First(sessions)
  IN  IF PinsAlone(sessions)
        THEN [phase |-> "pinned", sessions |-> sessions, cursor |-> cursor, pinned |-> cursor,
              run |-> IF sessions = {cursor} THEN run[cursor] ELSE 0]
        ELSE [phase |-> "select", sessions |-> sessions, cursor |-> cursor,
              pinned |-> NoProject, run |-> 0]

Pin(view, p, run) == [view EXCEPT !.phase = "pinned", !.pinned = p, !.run = run[p]]

\* Enter while selecting pins the highlighted session, if it still runs.
EnterKey(view, run) == IF run[view.cursor] # 0 THEN Pin(view, view.cursor, run) ELSE view

\* MUTANT: the cursor goes around all projects.
MoveCursorAnywhere(view, forward) == [view EXCEPT !.cursor = Beside(Projects, @, forward)]

\* Up and down while selecting.
MoveCursor(view, forward) == [view EXCEPT !.cursor = Beside(view.sessions, @, forward)]

\* switchTarget: around the sessions of the view that run now, if there are several.  The
\* pin moves in one step.
SwitchTarget(view, run, forward) ==
  LET eligible == {p \in view.sessions : run[p] # 0}
  IN  IF view.phase # "pinned" \/ (\A p, q \in eligible : p = q) THEN view
      ELSE Pin(view, Beside(eligible, view.pinned, forward), run)

\* checkPinnedAlive: the pinned session is over.
RunnerEnded(view, running) == view.phase = "pinned" /\ view.pinned \notin running

\* handleTick: every session to select from is over.
SelectionIsOver(view, running) ==
  view.phase = "select" /\ view.sessions \cap running = {}
=============================================================================
