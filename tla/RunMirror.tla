----------------------------- MODULE RunMirror -----------------------------
(***************************************************************************)
(* What a TaktRunController (lib/takt-run-controller.ts) holds of the PTY  *)
(* its broker runs, and how a snapshot and an event of the broker change   *)
(* it.  Both carry the broker's sequence number; what is older than what   *)
(* has been applied already is dropped.                                    *)
(***************************************************************************)
EXTENDS Naturals, Sequences

CONSTANT MaxRuns         \* bound of the model: runs the brokers start in all
ASSUME MaxRunsAssumption == MaxRuns \in Nat

\* A run stands for its exit result too; 0 is none.  An output is known by its run and
\* its place in it.
Runs == 0..MaxRuns
Outputs == (Runs \X (Nat \ {0}))
NoScreen == <<<<0, 0>>>>

\* What the broker sends: events, and the state in its answers (BrokerResponse, BrokerState).
States ==
  [seq : Nat, running : BOOLEAN, session : BOOLEAN, lastExit : Runs, transcript : Seq(Outputs)]
Events ==
  [kind : {"output"}, seq : Nat, output : Outputs] \cup [kind : {"exit"}, seq : Nat, run : Runs]

\* running, session: isRunning and hasBrokerSession.  screen: what terminalInstance shows.
\* exit: exitPromise.  applied: appliedSequence.  queued: queuedAttachEvents.
EmptyMirror ==
  [running |-> FALSE, session |-> FALSE, lastExit |-> 0, screen |-> NoScreen,
   exit |-> "none", applied |-> 0, connected |-> FALSE, attaching |-> FALSE, queued |-> <<>>]

Mirrors ==
  [running : BOOLEAN, session : BOOLEAN, lastExit : Runs, screen : Seq(Outputs) \cup {NoScreen},
   exit : {"none", "pending", "resolved"}, applied : Nat, connected : BOOLEAN,
   attaching : BOOLEAN, queued : Seq(Events)]

\* hasSession: a screen is enough.
HasSession(m) == m.session \/ m.screen # NoScreen

\* MUTANT: applyEvent takes every event.
ApplyEventAnyway(m, e) ==
  IF e.kind = "output"
    THEN [m EXCEPT !.applied = e.seq,
                   !.screen = IF @ = NoScreen THEN @ ELSE Append(@, e.output)]
    ELSE [m EXCEPT !.applied = e.seq, !.running = FALSE, !.lastExit = e.run,
                   !.exit = IF @ = "pending" THEN "resolved" ELSE @]

\* applyEvent
ApplyEvent(m, e) ==
  IF e.seq <= m.applied THEN m
  ELSE IF e.kind = "output"
    THEN [m EXCEPT !.applied = e.seq,
                   !.screen = IF @ = NoScreen THEN @ ELSE Append(@, e.output)]
    ELSE [m EXCEPT !.applied = e.seq, !.running = FALSE, !.lastExit = e.run,
                   !.exit = IF @ = "pending" THEN "resolved" ELSE @]

\* MUTANT: applyState takes a snapshot that events have overtaken.
ApplyStateAnyway(m, s, replay) ==
  [m EXCEPT !.applied = s.seq, !.running = s.running, !.session = s.session,
            !.lastExit = s.lastExit,
            !.exit = IF s.running /\ @ = "none" THEN "pending" ELSE @,
            !.screen = IF replay /\ s.session THEN s.transcript ELSE @]

\* applyState: the transcript is replayed into a new screen, if it is asked for.
ApplyState(m, s, replay) ==
  IF s.seq < m.applied THEN m
  ELSE [m EXCEPT !.applied = s.seq, !.running = s.running, !.session = s.session,
                 !.lastExit = s.lastExit,
                 !.exit = IF s.running /\ @ = "none" THEN "pending" ELSE @,
                 !.screen = IF replay /\ s.session THEN s.transcript ELSE @]

\* MUTANT: an attaching controller applies events at once.
ReceiveAtOnce(m, e) == ApplyEvent(m, e)

\* handleData, for an event: attach() holds it back until its snapshot is applied.
Receive(m, e) ==
  IF m.attaching THEN [m EXCEPT !.queued = Append(@, e)] ELSE ApplyEvent(m, e)

\* drainAttachEvents, event by event.  They arrive in their order, and the sort leaves it.
ApplyQueued(m) == ApplyEvent([m EXCEPT !.queued = Tail(@)], Head(m.queued))

\* disconnect and handleDisconnect leave everything but the socket.
Disconnected(m) == [m EXCEPT !.connected = FALSE]

\* MUTANT: a failed attach() keeps the events it held back.
RejectedKeeps(m) == [Disconnected(m) EXCEPT !.attaching = FALSE]

\* The request in flight is rejected: attach() drops what it held back.
Rejected(m) == [Disconnected(m) EXCEPT !.attaching = FALSE, !.queued = <<>>]

\* The rest of dispose(): the exit result, and the sequence number, stay.
Cleared(m) ==
  [m EXCEPT !.running = FALSE, !.session = FALSE, !.screen = NoScreen, !.exit = "none",
            !.connected = FALSE]

\* resetTerminal and the new exitPromise of start().
Fresh(m) == [m EXCEPT !.screen = <<>>, !.exit = "pending"]
=============================================================================
