-------------------------- MODULE BrokerDiscovery --------------------------
(***************************************************************************)
(* How the Pi windows of one project find its PTY broker, or start one     *)
(* (ensureBroker in lib/takt-run-controller.ts, and how                    *)
(* lib/takt-run-broker.mjs comes and goes).  One file, the descriptor,     *)
(* names the socket and the process of the broker.  One step is one call   *)
(* to the file system or the network, between which others act.            *)
(***************************************************************************)
EXTENDS Integers, FiniteSets

CONSTANTS
  Starters,     \* Pi windows that need the broker, one call of ensureBroker each at a time
  MaxBrokers,   \* bound of the model: broker processes launched
  MaxCrashes    \* bound of the model: broker processes killed

ASSUME BrokerDiscoveryAssumption == MaxBrokers \in Nat /\ MaxCrashes \in Nat

VARIABLES
  descriptor,   \* the descriptor file: whose it is, and whether its text is written yet
  broker,       \* of each broker: where it is in its life
  launches,     \* how many brokers were launched
  crashes,      \* how many were killed
  pc,           \* of each window: its place in ensureBroker
  launched,     \* whether that call has launched a broker
  got,          \* the broker that the descriptor it has read names
  conn          \* the broker its socket is connected to

vars == <<descriptor, broker, launches, crashes, pc, launched, got, conn>>

Brokers == 1..MaxBrokers
NoBroker == 0
NoFile == [by |-> NoBroker, whole |-> FALSE]
Phases == {"none", "launched", "writing", "serving", "stopping", "closed", "gone"}

\* process.kill(pid, 0) finds it.
Alive(b) == broker[b] \notin {"none", "gone"}
Listening(b) == broker[b] \in {"serving", "stopping"}

Go(w, where) == pc' = [pc EXCEPT ![w] = where]

\* ensureBroker returns or throws.
Return(w) ==
  /\ Go(w, "idle")
  /\ launched' = [launched EXCEPT ![w] = FALSE]
  /\ got' = [got EXCEPT ![w] = NoBroker]

-----------------------------------------------------------------------------
(* ensureBroker                                                            *)

Begin(w) ==
  /\ pc[w] = "idle" /\ conn[w] = NoBroker
  /\ Go(w, "read")
  /\ UNCHANGED <<descriptor, broker, launches, crashes, launched, got, conn>>

\* connectToBroker failed: the first time the descriptor is cleaned up, then it tries again.
Fails(w) == Go(w, IF launched[w] THEN "read" ELSE "clean")

\* MUTANT: the text is not validated.
ReadUnchecked(w) ==
  /\ pc[w] = "read"
  /\ IF descriptor # NoFile
       THEN /\ got' = [got EXCEPT ![w] = IF descriptor.whole THEN descriptor.by ELSE NoBroker]
            /\ Go(w, "dial")
       ELSE got' = got /\ Fails(w)
  /\ UNCHANGED <<descriptor, broker, launches, crashes, launched, conn>>

\* readBrokerDescriptor: a missing and an invalid file both count as a missing broker.
ReadDescriptor(w) ==
  /\ pc[w] = "read"
  /\ IF descriptor.whole
       THEN got' = [got EXCEPT ![w] = descriptor.by] /\ Go(w, "dial")
       ELSE got' = got /\ Fails(w)
  /\ UNCHANGED <<descriptor, broker, launches, crashes, launched, conn>>

Dial(w) ==
  /\ pc[w] = "dial"
  /\ IF Listening(got[w])
       THEN conn' = [conn EXCEPT ![w] = got[w]] /\ Return(w)
       ELSE Fails(w) /\ UNCHANGED <<conn, launched, got>>
  /\ UNCHANGED <<descriptor, broker, launches, crashes>>

\* MUTANT: a descriptor that names a process is trusted.
StaleWhenInvalid == descriptor # NoFile /\ ~descriptor.whole
\* MUTANT: a descriptor whose broker did not answer is taken to be stale.
StaleWhenSilent == descriptor # NoFile

\* cleanupStaleDescriptor: invalid, or of a process that is gone.
StaleDescriptor == descriptor # NoFile /\ (~descriptor.whole \/ ~Alive(descriptor.by))

Clean(w) ==
  /\ pc[w] = "clean"
  /\ Go(w, IF StaleDescriptor THEN "unlink" ELSE "launch")
  /\ UNCHANGED <<descriptor, broker, launches, crashes, launched, got, conn>>

\* The unlink takes whichever descriptor is there by now.
Unlink(w) ==
  /\ pc[w] = "unlink"
  /\ descriptor' = NoFile
  /\ Go(w, "launch")
  /\ UNCHANGED <<broker, launches, crashes, launched, got, conn>>

Launch(w) ==
  /\ pc[w] = "launch" /\ launches < MaxBrokers
  /\ launches' = launches + 1
  /\ broker' = [broker EXCEPT ![launches'] = "launched"]
  /\ launched' = [launched EXCEPT ![w] = TRUE]
  /\ Go(w, "read")
  /\ UNCHANGED <<descriptor, crashes, got, conn>>

\* The deadline has passed.  It is longer than a broker takes to start.
GiveUp(w) ==
  /\ pc[w] = "read" /\ launched[w]
  /\ \A b \in Brokers : broker[b] \notin {"launched", "writing", "serving"}
  /\ Return(w)
  /\ UNCHANGED <<descriptor, broker, launches, crashes, conn>>

\* A reload or a dispose closes the socket; the broker lives on.
Disconnect(w) ==
  /\ conn[w] # NoBroker
  /\ conn' = [conn EXCEPT ![w] = NoBroker]
  /\ UNCHANGED <<descriptor, broker, launches, crashes, pc, launched, got>>

-----------------------------------------------------------------------------
(* The broker process                                                      *)

\* MUTANT: the file is opened with "w".
OpensAnyway(b) == TRUE

\* openSync(descriptorPath, "wx") makes the file or fails.
Opens(b) == descriptor = NoFile

\* server.listen, then the descriptor; who comes second exits.
OpenDescriptor(b) ==
  /\ broker[b] = "launched"
  /\ IF Opens(b)
       THEN /\ descriptor' = [by |-> b, whole |-> FALSE]
            /\ broker' = [broker EXCEPT ![b] = "writing"]
       ELSE /\ broker' = [broker EXCEPT ![b] = "gone"]
            /\ UNCHANGED descriptor
  /\ UNCHANGED <<launches, crashes, pc, launched, got, conn>>

\* The file may have been unlinked under the open descriptor.
WriteDescriptor(b) ==
  /\ broker[b] = "writing"
  /\ descriptor' = IF descriptor.by = b THEN [descriptor EXCEPT !.whole = TRUE] ELSE descriptor
  /\ broker' = [broker EXCEPT ![b] = "serving"]
  /\ UNCHANGED <<launches, crashes, pc, launched, got, conn>>

\* The request "shutdown" of a window, or nobody is connected for the idle time; stopPty is
\* awaited with the server still listening.
BeginShutdown(b) ==
  /\ broker[b] = "serving"
  /\ broker' = [broker EXCEPT ![b] = "stopping"]
  /\ UNCHANGED <<descriptor, launches, crashes, pc, launched, got, conn>>

CutClients(b) == conn' = [w \in Starters |-> IF conn[w] = b THEN NoBroker ELSE conn[w]]

CloseServer(b) ==
  /\ broker[b] = "stopping"
  /\ broker' = [broker EXCEPT ![b] = "closed"]
  /\ CutClients(b)
  /\ UNCHANGED <<descriptor, launches, crashes, pc, launched, got>>

\* removeOwnedDescriptor, removeOwnedSocket, and the exit.
LeaveDescriptor(b) ==
  /\ broker[b] = "closed"
  /\ descriptor' = IF descriptor = [by |-> b, whole |-> TRUE] THEN NoFile ELSE descriptor
  /\ broker' = [broker EXCEPT ![b] = "gone"]
  /\ UNCHANGED <<launches, crashes, pc, launched, got, conn>>

\* Killed: nothing is removed, and its sockets close.
Crash(b) ==
  /\ Alive(b) /\ crashes < MaxCrashes
  /\ crashes' = crashes + 1
  /\ broker' = [broker EXCEPT ![b] = "gone"]
  /\ CutClients(b)
  /\ UNCHANGED <<descriptor, launches, pc, launched, got>>

-----------------------------------------------------------------------------

Init ==
  /\ descriptor = NoFile
  /\ broker = [b \in Brokers |-> "none"]
  /\ launches = 0 /\ crashes = 0
  /\ pc = [w \in Starters |-> "idle"]
  /\ launched = [w \in Starters |-> FALSE]
  /\ got = [w \in Starters |-> NoBroker]
  /\ conn = [w \in Starters |-> NoBroker]

EnsureStep(w) ==
  ReadDescriptor(w) \/ Dial(w) \/ Clean(w) \/ Unlink(w) \/ Launch(w) \/ GiveUp(w)

BrokerStep(b) ==
  OpenDescriptor(b) \/ WriteDescriptor(b) \/ CloseServer(b) \/ LeaveDescriptor(b)

Next ==
  \/ \E w \in Starters : Begin(w) \/ EnsureStep(w) \/ Disconnect(w)
  \/ \E b \in Brokers : BrokerStep(b) \/ BeginShutdown(b) \/ Crash(b)

Spec == Init /\ [][Next]_vars

\* ensureBroker goes on until it returns, and a broker that has begun goes on.
Fairness ==
  /\ \A w \in Starters : WF_vars(EnsureStep(w))
  /\ \A b \in Brokers : WF_vars(BrokerStep(b))

-----------------------------------------------------------------------------
(* When a descriptor is safe: two things the code leaves to luck.          *)

\* No clean-up looks at the descriptor of a living broker between its openSync and its write.
ReadsWhole ==
  \A w \in Starters : pc[w] = "clean" /\ pc'[w] # "clean" =>
    descriptor = NoFile \/ descriptor.whole \/ ~Alive(descriptor.by)

\* Between the look at a stale descriptor and its unlink the descriptor stays, and nobody
\* else judges it.
CleansInTurn ==
  \A w \in Starters : pc[w] = "unlink" =>
    /\ \A v \in Starters : pc'[v] = "unlink" => v = w
    /\ pc'[w] = "unlink" => descriptor' = descriptor

Lucky == ReadsWhole /\ CleansInTurn

LuckySpec == Init /\ [][Next /\ Lucky]_vars
LuckyFairSpec == LuckySpec /\ Fairness

-----------------------------------------------------------------------------
(* Properties                                                              *)

\* Every variable holds a value of its type.
TypeOK ==
  /\ descriptor \in {NoFile} \cup [by : Brokers, whole : BOOLEAN]
  /\ broker \in [Brokers -> Phases]
  /\ launches \in 0..MaxBrokers /\ crashes \in 0..MaxCrashes
  /\ pc \in [Starters -> {"idle", "read", "dial", "clean", "unlink", "launch"}]
  /\ launched \in [Starters -> BOOLEAN]
  /\ got \in [Starters -> Brokers \cup {NoBroker}]
  /\ conn \in [Starters -> Brokers \cup {NoBroker}]
  /\ \A w \in Starters : pc[w] = "dial" => got[w] # NoBroker

\* "Each bridge-owned project has one detached PTY broker" (docs/architecture.md): two
\* windows that are connected see the same one, however their starts raced.
OneBroker ==
  \A v, w \in Starters : conn[v] # NoBroker /\ conn[w] # NoBroker => conn[v] = conn[w]

\* A broker that serves, and may hold a running TAKT, is the one the descriptor names: a
\* window that reloads finds it again (connectToBroker after detach).
ServingIsFound ==
  \A b \in Brokers : broker[b] = "serving" => descriptor = [by |-> b, whole |-> TRUE]

\* What a killed broker left, written or half-written, does not keep a window from the next
\* one: once a call of ensureBroker begins to look, that descriptor goes.
DeadDescriptorGoes ==
  (descriptor # NoFile /\ ~Alive(descriptor.by)
     /\ \E w \in Starters : pc[w] \in {"read", "dial"} /\ ~launched[w])
    ~> (descriptor = NoFile \/ Alive(descriptor.by))
=============================================================================
