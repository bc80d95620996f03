--------------------------- MODULE BrokerSession ---------------------------
(***************************************************************************)
(* The controllers of several Pi windows on one project, each with a       *)
(* mirror of the PTY, and the broker they share.  A controller makes one   *)
(* call at a time.  The socket delivers chunks of any length: the events   *)
(* of a chunk are applied as it is read, and the code after an await runs  *)
(* once it is read.  No other process sees what a controller does while it *)
(* reads, so that each message is a step here, and the await another.      *)
(***************************************************************************)
EXTENDS PtyBroker

CONSTANTS
  Starters,    \* clients that start, stop and dispose runs; the others only attach
  Quitters     \* clients whose Pi may end in a real shutdown

ASSUME RolesAssumption == Starters \subseteq Clients /\ Quitters \subseteq Clients

VARIABLES
  mirror,    \* the TaktRunController of each client
  call,      \* the await it is at
  answer     \* the answer it has read there, before the chunk ends

vars == <<broker, request, serving, inbox, unseen, mirror, call, answer>>

Calls == {"absent", "idle", "attach", "replay", "check", "start", "stop", "dispose", "shutdown"}

NoAnswer == [kind |-> "none"]

\* Every variable has its type, and only attach() holds events back.
TypeOK ==
  /\ broker \in Brokers
  /\ request \in [Clients -> Requests]
  /\ serving \in [Clients -> [type : {"none", "stop", "dispose", "shutdown"}, run : Runs]]
  /\ inbox \in [Clients -> Seq(Events \cup Answers)]
  /\ unseen \subseteq Clients \X {"run", "end"}
  /\ mirror \in [Clients -> Mirrors]
  /\ \A c \in Clients : mirror[c].attaching \/ mirror[c].queued = <<>>
  /\ call \in [Clients -> Calls]
  /\ answer \in [Clients -> Answers \cup {NoAnswer}]

-----------------------------------------------------------------------------
(* Calls *)

Goes(c, next) == call' = [call EXCEPT ![c] = next]
Becomes(c, m) == mirror' = [mirror EXCEPT ![c] = m]
Send(c, type) == request' = [request EXCEPT ![c] = type]
Present(c) == call[c] # "absent"

\* The broker of this project accepts the connection.
Connects(c) == broker' = [broker EXCEPT !.clients = @ \cup {c}]

\* disconnect(): the socket is destroyed, with all it still holds.
HangsUp(c) ==
  /\ broker' = [broker EXCEPT !.clients = @ \ {c}]
  /\ request' = [request EXCEPT ![c] = "none"]
  /\ inbox' = [inbox EXCEPT ![c] = <<>>]

\* The controller is gone, and with it what it has missed.
Forgets(c) == unseen' = unseen \ ({c} \X {"run", "end"})

\* A Pi window opens, or the extension is loaded again.
Enter(c) ==
  /\ call[c] = "absent"
  /\ Becomes(c, EmptyMirror)
  /\ Goes(c, "idle")
  /\ UNCHANGED answer /\ UNCHANGED brokerVars

\* attach(), as the refresh interval calls it: only without a session, and to no effect
\* when there is no broker or the socket is open already.
Attach(c) ==
  /\ call[c] = "idle" /\ ~mirror[c].running /\ ~HasSession(mirror[c])
  /\ ~mirror[c].connected /\ broker.up
  /\ Connects(c)
  /\ Becomes(c, [mirror[c] EXCEPT !.connected = TRUE, !.attaching = TRUE, !.queued = <<>>])
  /\ Send(c, "snapshot")
  /\ Goes(c, "attach")
  /\ UNCHANGED <<serving, inbox, unseen, answer>>

\* The transcript is in the new screen: the events held back follow.
DrainAttach(c) ==
  /\ call[c] = "replay" /\ mirror[c].queued # <<>>
  /\ Becomes(c, ApplyQueued(mirror[c]))
  /\ UNCHANGED <<call, answer>> /\ UNCHANGED brokerVars

FinishAttach(c) ==
  /\ call[c] = "replay" /\ mirror[c].queued = <<>>
  /\ Becomes(c, [mirror[c] EXCEPT !.attaching = FALSE])
  /\ Goes(c, "idle")
  /\ UNCHANGED answer /\ UNCHANGED brokerVars

\* start(): ensureBroker connects, or launches a broker; then refreshSnapshot.
Start(c) ==
  /\ c \in Starters /\ call[c] = "idle"
  /\ IF mirror[c].connected THEN c \in broker.clients /\ UNCHANGED broker
     ELSE broker' = [broker EXCEPT !.up = TRUE, !.clients = @ \cup {c}]
  /\ Becomes(c, [mirror[c] EXCEPT !.connected = TRUE])
  /\ Send(c, "snapshot")
  /\ Goes(c, "check")
  /\ UNCHANGED <<serving, inbox, unseen, answer>>

Stop(c) ==
  /\ c \in Starters /\ call[c] = "idle" /\ mirror[c].running
  /\ c \in broker.clients
  /\ Send(c, "stop")
  /\ Goes(c, "stop")
  /\ UNCHANGED <<broker, serving, inbox, unseen, mirror, answer>>

\* dispose() asks the broker only when it is connected.
Dispose(c) ==
  /\ c \in Starters /\ call[c] = "idle"
  /\ IF mirror[c].connected
       THEN c \in broker.clients /\ Send(c, "dispose") /\ Goes(c, "dispose") /\ UNCHANGED mirror
       ELSE Becomes(c, Cleared(mirror[c])) /\ UNCHANGED <<request, call>>
  /\ UNCHANGED <<broker, serving, inbox, unseen, answer>>

\* /reload: detach().
Leave(c) ==
  /\ call[c] = "idle"
  /\ HangsUp(c)
  /\ Becomes(c, EmptyMirror)
  /\ Goes(c, "absent")
  /\ Forgets(c)
  /\ UNCHANGED <<serving, answer>>

\* Quit: shutdown().
Quit(c) ==
  /\ c \in Quitters /\ call[c] = "idle"
  /\ c \in broker.clients
  /\ Send(c, "shutdown")
  /\ Goes(c, "shutdown")
  /\ UNCHANGED <<broker, serving, inbox, unseen, mirror, answer>>

-----------------------------------------------------------------------------
(* What the socket brings *)

IsEvent(message) == message.kind \in {"output", "exit"}

\* handleData: an event is applied, or held back by attach(); an answer settles the promise
\* of its request, and the call goes on once the chunk is read.
ReadEvent(c) ==
  /\ mirror[c].connected /\ inbox[c] # <<>> /\ IsEvent(Head(inbox[c]))
  /\ Becomes(c, Receive(mirror[c], Head(inbox[c])))
  /\ inbox' = [inbox EXCEPT ![c] = Tail(@)]
  /\ UNCHANGED <<broker, request, serving, unseen, call, answer>>

ReadAnswer(c) ==
  /\ mirror[c].connected /\ inbox[c] # <<>> /\ ~IsEvent(Head(inbox[c]))
  /\ answer' = [answer EXCEPT ![c] = Head(inbox[c])]
  /\ inbox' = [inbox EXCEPT ![c] = Tail(@)]
  /\ UNCHANGED <<broker, request, serving, unseen, mirror, call>>

\* The code after the await of the call.
Answered(c) == answer[c] # NoAnswer
GoesOn(c, next) ==
  /\ answer' = [answer EXCEPT ![c] = NoAnswer]
  /\ Goes(c, next)
  /\ UNCHANGED serving

ContinueAttach(c) ==
  /\ call[c] = "attach" /\ Answered(c) /\ GoesOn(c, "replay")
  /\ Becomes(c, ApplyState(mirror[c], answer[c].state, TRUE))
  /\ UNCHANGED <<broker, request, inbox, unseen>>

\* start() after its snapshot: on only without a run and without a session.
ContinueCheck(c) ==
  /\ call[c] = "check" /\ Answered(c)
  /\ LET m == ApplyState(mirror[c], answer[c].state, TRUE)
     IN  IF m.running \/ HasSession(m)
           THEN GoesOn(c, "idle") /\ Becomes(c, m) /\ UNCHANGED request
           ELSE /\ GoesOn(c, "start") /\ Becomes(c, Fresh(m))
                /\ IF c \in broker.clients THEN Send(c, "start") ELSE UNCHANGED request
  /\ UNCHANGED <<broker, inbox, unseen>>

\* start() and stop() apply the state of their answer, or throw.
ContinueRun(c) ==
  /\ call[c] \in {"start", "stop"} /\ Answered(c) /\ GoesOn(c, "idle")
  /\ Becomes(c, IF answer[c].kind = "reply"
                  THEN ApplyState(mirror[c], answer[c].state, call[c] = "stop") ELSE mirror[c])
  /\ UNCHANGED <<broker, request, inbox, unseen>>

\* dispose() hangs up whatever the answer, and clears the rest if it was good.
ContinueDispose(c) ==
  /\ call[c] = "dispose" /\ Answered(c) /\ GoesOn(c, "idle")
  /\ HangsUp(c)
  /\ Becomes(c, IF answer[c].kind = "reply" THEN Cleared(mirror[c]) ELSE Disconnected(mirror[c]))
  /\ UNCHANGED unseen

ContinueShutdown(c) ==
  /\ call[c] = "shutdown" /\ Answered(c) /\ GoesOn(c, "absent")
  /\ HangsUp(c)
  /\ Becomes(c, EmptyMirror)
  /\ Forgets(c)

Continue(c) ==
  \/ ContinueAttach(c) \/ ContinueCheck(c) \/ ContinueRun(c) \/ ContinueDispose(c)
  \/ ContinueShutdown(c)

\* handleDisconnect: the request in flight is rejected, and only that is noticed; attach()
\* with its snapshot applied waits for none.
SeesClose(c) ==
  /\ mirror[c].connected /\ c \notin broker.clients /\ ~Answered(c)
  /\ inbox' = [inbox EXCEPT ![c] = <<>>]
  /\ \/ /\ call[c] = "replay"
        /\ Becomes(c, Disconnected(mirror[c]))
        /\ UNCHANGED <<call, unseen>>
     \/ /\ call[c] = "shutdown"
        /\ Becomes(c, EmptyMirror)
        /\ Goes(c, "absent") /\ Forgets(c)
     \/ /\ call[c] \notin {"replay", "shutdown"}
        /\ Becomes(c, Rejected(mirror[c]))
        /\ Goes(c, "idle") /\ UNCHANGED unseen
  /\ UNCHANGED <<broker, request, serving, answer>>

-----------------------------------------------------------------------------
(* The end of a broker *)

\* Without a client for longer than 30 s, or 5 min when a PTY is live.  A window that is
\* there reconnects within its refresh interval of 2 s.
IdleExit ==
  /\ broker.up /\ \A c \in Clients : ~Present(c)
  /\ BrokerEnds
  /\ UNCHANGED <<inbox, unseen, mirror, call, answer>>

-----------------------------------------------------------------------------

Init ==
  /\ broker = Down
  /\ request = [c \in Clients |-> "none"]
  /\ serving = [c \in Clients |-> [type |-> "none", run |-> 0]]
  /\ inbox = [c \in Clients |-> <<>>]
  /\ unseen = {}
  /\ mirror = [c \in Clients |-> EmptyMirror]
  /\ call = [c \in Clients |-> "absent"]
  /\ answer = [c \in Clients |-> NoAnswer]

\* The controllers that have heard of the present broker, or of one before it.
Knowing == {c \in Clients : mirror[c].connected \/ mirror[c].applied # 0}

Serving == BrokerActs(Knowing) /\ UNCHANGED <<mirror, call, answer>>

Controls(c) ==
  \/ Enter(c) \/ Attach(c) \/ DrainAttach(c) \/ FinishAttach(c) \/ Start(c) \/ Stop(c)
  \/ Dispose(c) \/ Leave(c) \/ Quit(c)
  \/ ReadEvent(c) \/ ReadAnswer(c) \/ Continue(c) \/ SeesClose(c)

Next == Serving \/ IdleExit \/ \E c \in Clients : Controls(c)

Spec == Init /\ [][Next]_vars

\* No output is read between an answer start() waits for and the code after the await,
\* unless the exit of the run is there too, and then that is read as well.
ExitIsDue(c) == \E i \in DOMAIN inbox[c] : inbox[c][i].kind = "exit"
StartNotOvertaken ==
  \A c \in Clients : call[c] \in {"check", "start"} /\ answer[c].kind = "reply" =>
    /\ ReadEvent(c) /\ Head(inbox[c]).kind = "output" => ExitIsDue(c)
    /\ Continue(c) /\ answer[c].state.seq < mirror[c].applied => ~ExitIsDue(c)

TameSpec == Init /\ [][Next /\ StartNotOvertaken]_vars

-----------------------------------------------------------------------------
(* Properties *)

\* A client that is connected and has nothing left to read or to wait for.
Settled(c) ==
  /\ call[c] = "idle" /\ mirror[c].connected /\ c \in broker.clients /\ inbox[c] = <<>>

\* No window shows a run as live whose process is gone, unless it has known an earlier
\* broker: a snapshot that its exit event has overtaken is not applied, nor an event that a
\* snapshot already includes.
NoPhantomRun ==
  \A c \in Clients :
    Settled(c) /\ mirror[c].running /\ <<c, "end">> \notin unseen => Live

\* What a window shows of the run agrees with the broker, and there is a promise that
\* waitForExit can wait for, unless the run was started by another window while this one
\* was connected, or it outlived an earlier broker.
MirrorAgrees ==
  \A c \in Clients :
    Settled(c) /\ {<<c, "run">>, <<c, "end">>} \cap unseen = {} =>
      /\ mirror[c].running = Live
      /\ Live => mirror[c].exit # "none"

\* A window that starts runs has missed the start of another's.
Missed(c) == c \in Starters /\ <<c, "run">> \in unseen

\* The screen of a live run shows each of its outputs once and in order, attached or not,
\* unless the window has known an earlier broker, or starts runs and missed the start of one.
ScreenAgrees ==
  \A c \in Clients :
    Settled(c) /\ mirror[c].running /\ <<c, "end">> \notin unseen /\ ~Missed(c)
      /\ broker.terminal => mirror[c].screen = broker.transcript
=============================================================================
