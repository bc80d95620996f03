----------------------- MODULE BrokerDiscoveryProofs -----------------------
(***************************************************************************)
(* All windows of a project are connected to one broker, for every number  *)
(* of windows, brokers and crashes.  The argument: a broker that is past   *)
(* openSync and not gone owns the descriptor, so there is one such broker  *)
(* at most, and whoever is about to unlink the descriptor is about to      *)
(* unlink a dead broker's.                                                 *)
(***************************************************************************)
EXTENDS BrokerDiscovery, TLAPS

\* Past openSync, and not gone.
Holds(b) == broker[b] \in {"writing", "serving", "stopping", "closed"}

HolderIsNamed ==
  \A b \in Brokers : Holds(b) => descriptor = [by |-> b, whole |-> broker[b] # "writing"]

NamedHasLived == descriptor # NoFile => Holds(descriptor.by) \/ broker[descriptor.by] = "gone"

UnlinkerTakesDead ==
  \A w \in Starters : pc[w] = "unlink" =>
    /\ descriptor # NoFile /\ broker[descriptor.by] = "gone"
    /\ \A v \in Starters : pc[v] = "unlink" => v = w

ClientsAreServed == \A w \in Starters : conn[w] # NoBroker => Listening(conn[w])

NotLaunchedIsNone == \A b \in Brokers : b > launches => broker[b] = "none"

DiscoveryInv ==
  /\ TypeOK
  /\ HolderIsNamed /\ NamedHasLived /\ UnlinkerTakesDead /\ ClientsAreServed /\ NotLaunchedIsNone

-----------------------------------------------------------------------------
(* Lemmas                                                                  *)

\* No broker is numbered zero, so no file names nobody.
LEMMA BrokersArePositive == NoBroker \notin Brokers /\ Brokers \subseteq Nat
  BY BrokerDiscoveryAssumption DEF NoBroker, Brokers

\* A descriptor that is there names a broker.
LEMMA FileNamesBroker ==
  ASSUME TypeOK
  PROVE  /\ descriptor # NoFile => descriptor.by \in Brokers
         /\ descriptor.whole => descriptor # NoFile
  BY BrokersArePositive DEF TypeOK, NoFile

\* The invariant holds at first.
LEMMA DiscoveryInit == Init => DiscoveryInv
<1> SUFFICES ASSUME Init PROVE DiscoveryInv
  OBVIOUS
<1>1. TypeOK
  BY BrokersArePositive, BrokerDiscoveryAssumption DEF Init, TypeOK, Phases, NoBroker, NoFile
<1>2. HolderIsNamed /\ NamedHasLived /\ UnlinkerTakesDead /\ ClientsAreServed /\ NotLaunchedIsNone
  BY DEF Init, HolderIsNamed, NamedHasLived, UnlinkerTakesDead, ClientsAreServed,
         NotLaunchedIsNone, Holds
<1>3. QED
  BY <1>1, <1>2 DEF DiscoveryInv

-----------------------------------------------------------------------------
(* Steps of a window                                                       *)

\* A step of a window that leaves the brokers and the descriptor alone, and judges nothing.
Moves(w) ==
  /\ w \in Starters /\ UNCHANGED <<descriptor, broker, launches>>
  /\ \E where \in {"idle", "read", "dial", "clean", "launch"} : pc' = [pc EXCEPT ![w] = where]
  /\ TypeOK'
  /\ \A v \in Starters : conn'[v] # NoBroker => conn'[v] = conn[v] \/ Listening(conn'[v])

\* Such a step keeps the invariant.
LEMMA MovingKeeps ==
  ASSUME DiscoveryInv, NEW w, Moves(w)
  PROVE  DiscoveryInv'
<1> USE DEF DiscoveryInv, Moves
<1>1. HolderIsNamed' /\ NamedHasLived' /\ NotLaunchedIsNone'
  BY DEF HolderIsNamed, NamedHasLived, NotLaunchedIsNone, Holds
<1>2. \A v \in Starters : pc'[v] = "unlink" => pc[v] = "unlink"
  BY DEF TypeOK
<1>3. UnlinkerTakesDead'
  BY <1>2 DEF UnlinkerTakesDead
<1>4. ClientsAreServed'
  BY DEF ClientsAreServed, Listening
<1>5. QED
  BY <1>1, <1>3, <1>4

\* The steps of ensureBroker between which nothing on the disk changes.
LEMMA WindowMoves ==
  ASSUME DiscoveryInv, NEW w \in Starters,
         Begin(w) \/ ReadDescriptor(w) \/ Dial(w) \/ GiveUp(w)
  PROVE  DiscoveryInv'
<1> USE DEF DiscoveryInv
<1>1. CASE Begin(w)
  <2>1. TypeOK'
    BY <1>1 DEF TypeOK, Begin, Go
  <2>2. QED
    BY <1>1, <2>1, MovingKeeps DEF Moves, Begin, Go
<1>2. CASE ReadDescriptor(w)
  <2>1. TypeOK'
    BY <1>2, FileNamesBroker, BrokersArePositive DEF TypeOK, ReadDescriptor, Fails, Go
  <2>2. QED
    BY <1>2, <2>1, MovingKeeps DEF Moves, ReadDescriptor, Fails, Go
<1>3. CASE Dial(w)
  <2>1. TypeOK'
    BY <1>3 DEF TypeOK, Dial, Fails, Return, Go
  <2>2. \A v \in Starters : conn'[v] # NoBroker => conn'[v] = conn[v] \/ Listening(conn'[v])
    BY <1>3 DEF TypeOK, Dial
  <2>3. QED
    BY <1>3, <2>1, <2>2, MovingKeeps DEF Moves, Dial, Fails, Return, Go
<1>4. CASE GiveUp(w)
  <2>1. TypeOK'
    BY <1>4 DEF TypeOK, GiveUp, Return, Go
  <2>2. QED
    BY <1>4, <2>1, MovingKeeps DEF Moves, GiveUp, Return, Go
<1>5. QED
  BY <1>1, <1>2, <1>3, <1>4

\* A clean-up that goes on to the unlink has found a dead broker's descriptor, and is alone.
LEMMA CleanKeeps ==
  ASSUME DiscoveryInv, NEW w \in Starters, Clean(w), Lucky
  PROVE  DiscoveryInv'
<1> USE DEF DiscoveryInv
<1>1. TypeOK'
  BY DEF TypeOK, Clean, Go
<1>2. CASE ~StaleDescriptor
  BY <1>1, <1>2, MovingKeeps DEF Moves, Clean, Go
<1>3. CASE StaleDescriptor
  <2>1. pc' = [pc EXCEPT ![w] = "unlink"] /\ UNCHANGED <<descriptor, broker, launches, conn>>
    BY <1>3 DEF Clean, Go
  <2>2. pc[w] = "clean" /\ pc'[w] = "unlink"
    BY <2>1 DEF Clean, TypeOK
  <2>3. descriptor # NoFile /\ ~Alive(descriptor.by)
    BY <1>3, <2>2 DEF Lucky, ReadsWhole, StaleDescriptor
  <2>4. broker[descriptor.by] = "gone"
    BY <2>3 DEF NamedHasLived, Holds, Alive
  <2>5. \A v \in Starters : pc'[v] = "unlink" => v = w
    BY <2>1, <2>2 DEF Lucky, CleansInTurn, TypeOK
  <2>6. UnlinkerTakesDead'
    BY <2>1, <2>3, <2>4, <2>5 DEF UnlinkerTakesDead
  <2>7. QED
    BY <1>1, <2>1, <2>6 DEF HolderIsNamed, NamedHasLived, NotLaunchedIsNone, Holds,
                            ClientsAreServed, Listening
<1>4. QED
  BY <1>2, <1>3

\* The unlink takes nothing from a broker that lives.
LEMMA UnlinkKeeps ==
  ASSUME DiscoveryInv, NEW w \in Starters, Unlink(w)
  PROVE  DiscoveryInv'
<1> USE DEF DiscoveryInv
<1>1. TypeOK'
  BY DEF TypeOK, Unlink, Go
<1>2. \A b \in Brokers : ~Holds(b)
  BY DEF Unlink, UnlinkerTakesDead, HolderIsNamed, Holds
<1>3. HolderIsNamed' /\ NamedHasLived' /\ NotLaunchedIsNone'
  BY <1>2 DEF Unlink, HolderIsNamed, NamedHasLived, NotLaunchedIsNone, Holds
<1>4. \A v \in Starters : pc'[v] # "unlink"
  BY DEF Unlink, Go, TypeOK, UnlinkerTakesDead
<1>5. QED
  BY <1>1, <1>3, <1>4 DEF Unlink, UnlinkerTakesDead, ClientsAreServed, Listening

\* A new broker has no descriptor and no clients.
LEMMA LaunchKeeps ==
  ASSUME DiscoveryInv, NEW w \in Starters, Launch(w)
  PROVE  DiscoveryInv'
<1> USE DEF DiscoveryInv
<1> DEFINE b == launches + 1
<1>1. b \in Brokers /\ launches \in Nat
  BY BrokerDiscoveryAssumption DEF Launch, TypeOK, Brokers
<1>2. broker' = [broker EXCEPT ![b] = "launched"] /\ launches' = b
  BY DEF Launch
<1>3. broker[b] = "none"
  <2>1. b > launches
    BY <1>1
  <2>2. QED
    BY <1>1, <2>1 DEF NotLaunchedIsNone
<1>4. TypeOK'
  <2>1. broker' \in [Brokers -> Phases]
    BY <1>2 DEF TypeOK, Phases
  <2>2. launches' \in 0..MaxBrokers
    BY <1>1, <1>2, BrokerDiscoveryAssumption DEF Brokers
  <2>3. pc' = [pc EXCEPT ![w] = "read"] /\ launched' = [launched EXCEPT ![w] = TRUE]
    BY DEF Launch, Go
  <2>4. QED
    BY <2>1, <2>2, <2>3 DEF Launch, TypeOK
<1>5. \A c \in Brokers : (broker'[c] = broker[c] \/ c = b) /\ broker'[b] = "launched"
  BY <1>1, <1>2 DEF TypeOK
<1>6. descriptor # NoFile => descriptor.by \in Brokers /\ descriptor.by # b
  BY <1>3, FileNamesBroker DEF NamedHasLived, Holds
<1>7. HolderIsNamed' /\ NamedHasLived'
  <2>1. descriptor' = descriptor
    BY DEF Launch
  <2>2. HolderIsNamed'
    BY <1>5, <2>1 DEF HolderIsNamed, Holds
  <2>3. NamedHasLived'
    BY <1>5, <1>6, <2>1 DEF NamedHasLived, Holds
  <2>4. QED
    BY <2>2, <2>3
<1>8. \A v \in Starters : pc'[v] = "unlink" => pc[v] = "unlink"
  BY DEF Launch, Go, TypeOK
<1>9. UnlinkerTakesDead'
  BY <1>5, <1>6, <1>8 DEF Launch, UnlinkerTakesDead
<1>10. ClientsAreServed'
  BY <1>3, <1>5 DEF Launch, ClientsAreServed, Listening, TypeOK
<1>11. NotLaunchedIsNone'
  BY <1>1, <1>2, <1>5 DEF NotLaunchedIsNone, Brokers
<1>12. QED
  BY <1>4, <1>7, <1>9, <1>10, <1>11

\* A socket that is closed is no client.
LEMMA DisconnectKeeps ==
  ASSUME DiscoveryInv, NEW w \in Starters, Disconnect(w)
  PROVE  DiscoveryInv'
<1> USE DEF DiscoveryInv
<1>1. TypeOK'
  BY DEF TypeOK, Disconnect
<1>2. \A v \in Starters : conn'[v] = conn[v] \/ conn'[v] = NoBroker
  BY DEF Disconnect, TypeOK
<1>3. QED
  BY <1>1, <1>2 DEF Disconnect, HolderIsNamed, NamedHasLived, UnlinkerTakesDead,
                    ClientsAreServed, Listening, NotLaunchedIsNone, Holds

-----------------------------------------------------------------------------
(* Steps of a broker                                                       *)

\* Only the first broker to make the file goes on.
LEMMA OpenKeeps ==
  ASSUME DiscoveryInv, NEW b \in Brokers, OpenDescriptor(b)
  PROVE  DiscoveryInv'
<1> USE DEF DiscoveryInv
<1>1. \A c \in Brokers : c = b \/ broker'[c] = broker[c]
  BY DEF OpenDescriptor, TypeOK
<1>2. ClientsAreServed'
  BY DEF OpenDescriptor, ClientsAreServed, Listening, TypeOK
<1>3. NotLaunchedIsNone'
  BY <1>1 DEF OpenDescriptor, NotLaunchedIsNone
<1>4. CASE Opens(b)
  <2>1. descriptor = NoFile /\ descriptor' = [by |-> b, whole |-> FALSE] /\ broker'[b] = "writing"
    BY <1>4 DEF OpenDescriptor, Opens, TypeOK
  <2>2. TypeOK'
    <3>1. descriptor' \in [by : Brokers, whole : BOOLEAN]
      BY <2>1
    <3>2. broker' \in [Brokers -> Phases]
      BY <1>4 DEF OpenDescriptor, TypeOK, Phases
    <3>3. QED
      BY <3>1, <3>2 DEF OpenDescriptor, TypeOK
  <2>3. \A c \in Brokers : ~Holds(c)
    BY <2>1, BrokersArePositive DEF HolderIsNamed, NoFile
  <2>4. HolderIsNamed' /\ NamedHasLived'
    BY <1>1, <2>1, <2>3 DEF HolderIsNamed, NamedHasLived, Holds
  <2>5. UnlinkerTakesDead'
    BY <2>1 DEF OpenDescriptor, UnlinkerTakesDead
  <2>6. QED
    BY <1>2, <1>3, <2>2, <2>4, <2>5
<1>5. CASE ~Opens(b)
  <2>1. descriptor' = descriptor /\ broker[b] = "launched" /\ broker'[b] = "gone"
    BY <1>5 DEF OpenDescriptor, TypeOK
  <2>2. TypeOK'
    BY <1>5 DEF OpenDescriptor, TypeOK, Phases
  <2>3. HolderIsNamed' /\ NamedHasLived'
    BY <1>1, <2>1, FileNamesBroker DEF HolderIsNamed, NamedHasLived, Holds
  <2>4. UnlinkerTakesDead'
    BY <1>1, <2>1, FileNamesBroker DEF OpenDescriptor, UnlinkerTakesDead
  <2>5. QED
    BY <1>2, <1>3, <2>2, <2>3, <2>4
<1>6. QED
  BY <1>4, <1>5

\* A broker that holds the descriptor and goes on to hold it, with the clients it serves.
StaysNamed(b, where) ==
  /\ b \in Brokers /\ Holds(b)
  /\ where \in {"serving", "stopping", "closed"}
  /\ broker' = [broker EXCEPT ![b] = where]
  /\ descriptor' = [by |-> b, whole |-> TRUE]
  /\ UNCHANGED <<launches, crashes, pc, launched, got>>
  /\ conn' \in [Starters -> Brokers \cup {NoBroker}]
  /\ \A w \in Starters : conn'[w] # NoBroker =>
       conn'[w] = conn[w] /\ (conn[w] = b => where \in {"serving", "stopping"})

\* Such a step keeps the invariant.
LEMMA StayingKeeps ==
  ASSUME DiscoveryInv, NEW b, NEW where, StaysNamed(b, where)
  PROVE  DiscoveryInv'
<1> USE DEF DiscoveryInv, StaysNamed
<1>1. broker'[b] = where /\ \A c \in Brokers : c = b \/ broker'[c] = broker[c]
  BY DEF TypeOK
<1>2. descriptor.by = b /\ broker[b] # "gone" /\ broker[b] # "none"
  BY DEF HolderIsNamed, Holds
<1>3. TypeOK'
  BY DEF TypeOK, Phases
<1>4. \A c \in Brokers : Holds(c) => c = b
  BY <1>2 DEF HolderIsNamed
<1>5. HolderIsNamed' /\ NamedHasLived'
  BY <1>1, <1>4 DEF HolderIsNamed, NamedHasLived, Holds
<1>6. UnlinkerTakesDead'
  BY <1>2 DEF UnlinkerTakesDead
<1>7. ClientsAreServed'
  BY <1>1 DEF ClientsAreServed, Listening, TypeOK
<1>8. NotLaunchedIsNone'
  BY <1>1, <1>2 DEF NotLaunchedIsNone
<1>9. QED
  BY <1>3, <1>5, <1>6, <1>7, <1>8

\* From the write of the descriptor to the end of the server.
LEMMA BrokerStays ==
  ASSUME DiscoveryInv, NEW b \in Brokers,
         WriteDescriptor(b) \/ BeginShutdown(b) \/ CloseServer(b)
  PROVE  DiscoveryInv'
<1> USE DEF DiscoveryInv
<1>1. CASE WriteDescriptor(b)
  <2>1. descriptor = [by |-> b, whole |-> FALSE]
    BY <1>1 DEF WriteDescriptor, HolderIsNamed, Holds
  <2>2. StaysNamed(b, "serving")
    BY <1>1, <2>1 DEF StaysNamed, Holds, WriteDescriptor, TypeOK
  <2>3. QED
    BY <2>2, StayingKeeps
<1>2. CASE BeginShutdown(b)
  <2>1. descriptor = [by |-> b, whole |-> TRUE]
    BY <1>2 DEF BeginShutdown, HolderIsNamed, Holds
  <2>2. StaysNamed(b, "stopping")
    BY <1>2, <2>1 DEF StaysNamed, Holds, BeginShutdown, TypeOK
  <2>3. QED
    BY <2>2, StayingKeeps
<1>3. CASE CloseServer(b)
  <2>1. descriptor = [by |-> b, whole |-> TRUE]
    BY <1>3 DEF CloseServer, HolderIsNamed, Holds
  <2>2. StaysNamed(b, "closed")
    BY <1>3, <2>1 DEF StaysNamed, Holds, CloseServer, CutClients, TypeOK
  <2>3. QED
    BY <2>2, StayingKeeps
<1>4. QED
  BY <1>1, <1>2, <1>3

\* A broker that ends, in whatever way, has no clients left.
Ends(b) ==
  /\ b \in Brokers /\ broker[b] # "none"
  /\ broker' = [broker EXCEPT ![b] = "gone"]
  /\ UNCHANGED <<launches, pc, launched, got>>
  /\ crashes' \in 0..MaxCrashes
  /\ descriptor' = descriptor \/ (descriptor' = NoFile /\ Holds(b))
  /\ conn' \in [Starters -> Brokers \cup {NoBroker}]
  /\ \A w \in Starters : conn'[w] # NoBroker => conn'[w] = conn[w] /\ conn[w] # b

\* Such a step keeps the invariant.
LEMMA EndingKeeps ==
  ASSUME DiscoveryInv, NEW b, Ends(b)
  PROVE  DiscoveryInv'
<1> USE DEF DiscoveryInv, Ends
<1>1. broker'[b] = "gone" /\ \A c \in Brokers : c = b \/ broker'[c] = broker[c]
  BY DEF TypeOK
<1>2. TypeOK'
  BY DEF TypeOK, Phases
<1>3. Holds(b) => \A c \in Brokers : Holds(c) => c = b
  BY DEF HolderIsNamed
<1>4. HolderIsNamed'
  BY <1>1, <1>3 DEF HolderIsNamed, Holds
<1>5. NamedHasLived'
  BY <1>1, FileNamesBroker DEF NamedHasLived, Holds
<1>6. Holds(b) => descriptor.by = b
  BY DEF HolderIsNamed
<1>7. UnlinkerTakesDead'
  BY <1>1, <1>6, FileNamesBroker DEF UnlinkerTakesDead, Holds
<1>8. ClientsAreServed'
  BY <1>1 DEF ClientsAreServed, Listening, TypeOK
<1>9. NotLaunchedIsNone'
  BY <1>1 DEF NotLaunchedIsNone
<1>10. QED
  BY <1>2, <1>4, <1>5, <1>7, <1>8, <1>9

\* A shutdown that has closed the server, and a kill at any point.
LEMMA BrokerEnds ==
  ASSUME DiscoveryInv, NEW b \in Brokers, LeaveDescriptor(b) \/ Crash(b)
  PROVE  DiscoveryInv'
<1> USE DEF DiscoveryInv
<1>1. CASE LeaveDescriptor(b)
  <2>1. \A w \in Starters : conn[w] # b
    BY <1>1, BrokersArePositive DEF LeaveDescriptor, ClientsAreServed, Listening
  <2>2. Ends(b)
    BY <1>1, <2>1 DEF Ends, LeaveDescriptor, Holds, TypeOK
  <2>3. QED
    BY <2>2, EndingKeeps
<1>2. CASE Crash(b)
  <2>1. crashes' \in 0..MaxCrashes
    BY <1>2, BrokerDiscoveryAssumption DEF Crash, TypeOK
  <2>2. Ends(b)
    BY <1>2, <2>1 DEF Ends, Crash, CutClients, Alive, TypeOK
  <2>3. QED
    BY <2>2, EndingKeeps
<1>3. QED
  BY <1>1, <1>2

-----------------------------------------------------------------------------
(* Theorems                                                                *)

\* Every step keeps the invariant.
LEMMA DiscoveryStep == DiscoveryInv /\ [Next /\ Lucky]_vars => DiscoveryInv'
<1> SUFFICES ASSUME DiscoveryInv, [Next /\ Lucky]_vars PROVE DiscoveryInv'
  OBVIOUS
<1>1. CASE UNCHANGED vars
  BY <1>1 DEF vars, DiscoveryInv, TypeOK, HolderIsNamed, NamedHasLived, UnlinkerTakesDead,
              ClientsAreServed, NotLaunchedIsNone, Holds, Listening
<1>2. ASSUME NEW w \in Starters, Begin(w) \/ EnsureStep(w) \/ Disconnect(w), Lucky
      PROVE  DiscoveryInv'
  BY <1>2, WindowMoves, CleanKeeps, UnlinkKeeps, LaunchKeeps, DisconnectKeeps DEF EnsureStep
<1>3. ASSUME NEW b \in Brokers, BrokerStep(b) \/ BeginShutdown(b) \/ Crash(b)
      PROVE  DiscoveryInv'
  BY <1>3, OpenKeeps, BrokerStays, BrokerEnds DEF BrokerStep
<1>4. QED
  BY <1>1, <1>2, <1>3 DEF Next

\* The invariant holds as long as descriptors are read whole and cleaned up in turn.
THEOREM DiscoveryInvariant == LuckySpec => []DiscoveryInv
  BY DiscoveryInit, DiscoveryStep, PTL DEF LuckySpec

\* Every variable keeps its type, for every number of windows, brokers and crashes.
THEOREM DiscoveryTypes == LuckySpec => []TypeOK
<1>1. DiscoveryInv => TypeOK
  BY DEF DiscoveryInv
<1>2. QED
  BY <1>1, DiscoveryInvariant, PTL

\* A broker that serves is the one a window finds.
THEOREM ServingIsFoundTheorem == LuckySpec => []ServingIsFound
<1>1. DiscoveryInv => ServingIsFound
  BY DEF DiscoveryInv, HolderIsNamed, Holds, ServingIsFound
<1>2. QED
  BY <1>1, DiscoveryInvariant, PTL

\* Two windows that are connected are connected to the same broker.
THEOREM OneBrokerTheorem == LuckySpec => []OneBroker
<1>1. ASSUME DiscoveryInv PROVE OneBroker
  <2>1. \A w \in Starters : conn[w] # NoBroker => conn[w] \in Brokers /\ descriptor.by = conn[w]
    BY <1>1 DEF DiscoveryInv, TypeOK, ClientsAreServed, Listening, HolderIsNamed, Holds
  <2>2. QED
    BY <2>1 DEF OneBroker
<1>2. QED
  BY <1>1, DiscoveryInvariant, PTL
=============================================================================
