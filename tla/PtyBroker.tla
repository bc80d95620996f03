----------------------------- MODULE PtyBroker -----------------------------
(***************************************************************************)
(* The detached PTY broker of one project (lib/takt-run-broker.mjs): the   *)
(* PTY, the transcript, the clients' sockets and the requests it serves.   *)
(* A request that stops the PTY waits for its exit, and others are served  *)
(* meanwhile.                                                              *)
(***************************************************************************)
EXTENDS RunMirror, FiniteSets

CONSTANTS
  Clients,     \* controllers that may connect: one per Pi window
  MaxSeq,      \* bound of the model: the broker's sequence number
  MaxUnread    \* bound of the model: messages a client has not read when the PTY acts

ASSUME BrokerBoundsAssumption == MaxSeq \in Nat /\ MaxUnread \in Nat

VARIABLES
  broker,    \* the broker process and its module variables
  request,   \* the request each client has sent and the broker has not read
  serving,   \* the stop, dispose or shutdown that waits in stopPty, per client
  inbox,     \* what the broker has written to each client's socket
  unseen     \* history: clients that missed the start of a run, or have known an earlier broker

brokerVars == <<broker, request, serving, inbox, unseen>>

Requests == {"none", "snapshot", "start", "stop", "dispose", "shutdown"}

\* pty: the run the live PTY belongs to, 0 if there is none.  terminal: the broker has a
\* screen, without which it hears no output.  runs counts the runs of this broker and the
\* ones before it, to tell them apart.
Down == [up |-> FALSE, pty |-> 0, runs |-> 0, seq |-> 0, transcript |-> <<>>, lastExit |-> 0,
         terminal |-> FALSE, clients |-> {}]

Brokers ==
  [up : BOOLEAN, pty : Runs, runs : Runs, seq : Nat, transcript : Seq(Outputs), lastExit : Runs,
   terminal : BOOLEAN, clients : SUBSET Clients]

Live == broker.pty # 0

\* snapshot(), of a broker state b
Snapshot(b) ==
  [seq |-> b.seq, running |-> b.pty # 0,
   session |-> b.pty # 0 \/ b.lastExit # 0 \/ b.transcript # <<>>,
   lastExit |-> b.lastExit, transcript |-> b.transcript]

Respond(c, message) == inbox' = [inbox EXCEPT ![c] = Append(@, message)]
Reply(b) == [kind |-> "reply", state |-> Snapshot(b)]
Refusal == [kind |-> "refusal"]
Answers == [kind : {"reply"}, state : States] \cup {Refusal}

Broadcast(event) ==
  /\ \A c \in Clients : Len(inbox[c]) < MaxUnread
  /\ inbox' = [c \in Clients |-> IF c \in broker.clients THEN Append(inbox[c], event)
                               ELSE inbox[c]]

Take(c) == request' = [request EXCEPT ![c] = "none"]

-----------------------------------------------------------------------------

ServeSnapshot(c) ==
  /\ request[c] = "snapshot"
  /\ Respond(c, Reply(broker))
  /\ unseen' = unseen \ {<<c, "run">>}
  /\ Take(c)
  /\ UNCHANGED <<broker, serving>>

\* startPty, when the spawn succeeds.
ServeStart(c) ==
  /\ request[c] = "start" /\ ~Live
  /\ broker.runs < MaxRuns /\ broker.seq < MaxSeq
  /\ broker' = [broker EXCEPT !.pty = broker.runs + 1, !.runs = @ + 1, !.transcript = <<>>,
                              !.lastExit = 0, !.seq = @ + 1, !.terminal = TRUE]
  /\ Respond(c, Reply(broker'))
  /\ unseen' = unseen \cup ((broker.clients \ {c}) \X {"run"})
  /\ Take(c)
  /\ UNCHANGED serving

\* A PTY is live, or the spawn fails: then what startPty has reset so far stays reset.
RefuseStart(c) ==
  /\ request[c] = "start"
  /\ IF Live THEN UNCHANGED broker
     ELSE /\ broker.seq < MaxSeq
          /\ broker' = [broker EXCEPT !.transcript = <<>>, !.lastExit = 0, !.seq = @ + 1,
                                      !.terminal = TRUE]
  /\ Respond(c, Refusal)
  /\ Take(c)
  /\ UNCHANGED <<serving, unseen>>

\* stop, dispose and shutdown find a live PTY and wait for its exit.
ServeStopping(c) ==
  /\ request[c] \in {"stop", "dispose", "shutdown"}
  /\ serving' = [serving EXCEPT ![c] = [type |-> request[c], run |-> broker.pty]]
  /\ Take(c)
  /\ UNCHANGED <<broker, inbox, unseen>>

\* What dispose clears, whatever has happened while it waited.
Emptied ==
  [broker EXCEPT !.transcript = <<>>, !.lastExit = 0, !.seq = @ + 1, !.terminal = FALSE]

NotServing(c) == serving' = [serving EXCEPT ![c].type = "none", ![c].run = 0]

\* stopPty sees that the PTY it has stopped is gone.
FinishStopping(c) ==
  /\ serving[c].type \in {"stop", "dispose"} /\ (serving[c].run = 0 \/ broker.pty # serving[c].run)
  /\ IF serving[c].type = "dispose" THEN broker.seq < MaxSeq /\ broker' = Emptied
     ELSE UNCHANGED broker
  /\ Respond(c, Reply(broker'))
  /\ NotServing(c)
  /\ UNCHANGED <<request, unseen>>

\* The process survives Ctrl-C and the kill.
FailStopping(c) ==
  /\ serving[c].type # "none" /\ Live /\ broker.pty = serving[c].run
  /\ Respond(c, Refusal)
  /\ NotServing(c)
  /\ UNCHANGED <<broker, request, unseen>>

\* The PTY writes; the broker's screen takes it and passes it on.
PtyWrites ==
  /\ Live /\ broker.terminal /\ broker.seq < MaxSeq
  /\ LET output == <<broker.pty, Len(broker.transcript) + 1>>
     IN  /\ broker' = [broker EXCEPT !.transcript = Append(@, output), !.seq = @ + 1]
         /\ Broadcast([kind |-> "output", seq |-> broker'.seq, output |-> output])
  /\ UNCHANGED <<request, serving, unseen>>

PtyExits ==
  /\ Live /\ broker.seq < MaxSeq
  /\ broker' = [broker EXCEPT !.pty = 0, !.lastExit = broker.pty, !.seq = @ + 1]
  /\ Broadcast([kind |-> "exit", seq |-> broker'.seq, run |-> broker.pty])
  /\ UNCHANGED <<request, serving, unseen>>

\* A control request of a connected client: the number grows and nobody is told.
ServeControl ==
  /\ Live /\ broker.clients # {} /\ broker.seq < MaxSeq
  /\ broker' = [broker EXCEPT !.seq = @ + 1]
  /\ UNCHANGED <<request, serving, inbox, unseen>>

\* shutdown(): the sockets are destroyed and the process XX
BrokerEnds ==
  /\ broker' = [Down EXCEPT !.runs = broker.runs]
  /\ request' = [c \in Clients |-> "none"]
  /\ serving' = [c \in Clients |-> [type |-> "none", run |-> 0]]

\* shutdown, asked for: the PTY is gone, the answer is out, and 10 ms later the broker
\* ends.  Nothing else is served in these 10 ms here.  known: the clients it was known to.
FinishShutdown(c, known) ==
  /\ serving[c].type = "shutdown" /\ (serving[c].run = 0 \/ broker.pty # serving[c].run)
  /\ Respond(c, Reply(broker))
  /\ BrokerEnds
  /\ unseen' = unseen \cup (known \X {"end"})

BrokerActs(known) ==
  \/ \E c \in Clients : \/ ServeSnapshot(c) \/ ServeStart(c) \/ RefuseStart(c)
                        \/ ServeStopping(c) \/ FinishStopping(c) \/ FailStopping(c)
                        \/ FinishShutdown(c, known)
  \/ PtyWrites \/ PtyExits \/ ServeControl
=============================================================================
