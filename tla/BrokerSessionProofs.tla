------------------------ MODULE BrokerSessionProofs ------------------------
(***************************************************************************)
(* No window shows a run whose process is gone, for any number of windows, *)
(* runs and brokers, and whatever chunks the socket delivers.  The         *)
(* argument is about sequence numbers: what a window may still read or     *)
(* apply is dropped as outdated, or followed by an exit event with a       *)
(* greater number, unless the run is live.                                 *)
(*                                                                         *)
(* The second half is about what a window does show: the broker's run, and *)
(* its screen once and in order.  What a window has still to read tells,   *)
(* with what it shows already, the rest of the transcript.                 *)
(***************************************************************************)
EXTENDS BrokerSession, SequenceTheorems, TLAPS

Elements(s) == {s[i] : i \in 1..Len(s)}

-----------------------------------------------------------------------------
(* One request at a time                                                   *)

Asks(c) == request[c] # "none"
IsServed(c) == serving[c].type # "none"
HasAnswer(box) == \E x \in Elements(box) : ~IsEvent(x)
OneAnswer(box) == \A i, j \in 1..Len(box) : ~IsEvent(box[i]) /\ ~IsEvent(box[j]) => i = j

Waits(c) == Asks(c) \/ IsServed(c) \/ HasAnswer(inbox[c]) \/ Answered(c)

RequestInv(c) ==
  /\ OneAnswer(inbox[c])
  /\ Asks(c) => ~IsServed(c) /\ ~HasAnswer(inbox[c]) /\ ~Answered(c)
  /\ IsServed(c) => ~HasAnswer(inbox[c]) /\ ~Answered(c)
  /\ HasAnswer(inbox[c]) => ~Answered(c)
  /\ Asks(c) \/ IsServed(c) => c \in broker.clients
  /\ Waits(c) => call[c] \notin {"absent", "idle", "replay"}

\* A snapshot is never refused.
SnapshotInv(c) ==
  call[c] \in {"attach", "check"} =>
    /\ request[c] \in {"none", "snapshot"} /\ ~IsServed(c)
    /\ Refusal \notin Elements(inbox[c]) /\ answer[c] # Refusal

\* A window has known an earlier broker.
Outlived(c) == <<c, "end">> \in unseen

SocketInv(c) ==
  /\ c \in broker.clients => mirror[c].connected
  /\ mirror[c].connected /\ c \notin broker.clients => Outlived(c)
  /\ ~mirror[c].connected => inbox[c] = <<>> /\ ~Answered(c)
  /\ ~mirror[c].connected /\ mirror[c].attaching => Outlived(c)
  /\ mirror[c].attaching => call[c] \in {"attach", "replay"}
  /\ call[c] = "absent" => mirror[c] = EmptyMirror

-----------------------------------------------------------------------------
(* Sequence numbers                                                        *)

Number(x) == IF IsEvent(x) THEN x.seq ELSE IF x.kind = "reply" THEN x.state.seq ELSE 0

\* What a window has still to read or to apply.
Due(c) == Elements(mirror[c].queued) \cup Elements(inbox[c]) \cup {answer[c], NoAnswer}

\* Nothing a window has or may read is newer than the broker.
Within(n, m, due) == m.applied <= n /\ \A x \in due : Number(x) <= n

NumberInv(c) == ~Outlived(c) => Within(broker.seq, mirror[c], Due(c))

\* An exit event with a number greater than n is still to be applied.
ExitDue(due, n) == \E x \in due : x.kind = "exit" /\ x.seq > n

\* What had number n is dropped, or the run is live, or its exit comes.
Harmless(live, m, due, n) == live \/ m.applied > n \/ ExitDue(due, n)

TellsRunning(x) == x.kind = "output" \/ (x.kind = "reply" /\ x.state.running)

\* A snapshot comes that is not dropped as it stands.
Corrected(m, due, asks) == asks \/ \E x \in due : x.kind = "reply" /\ x.state.seq >= m.applied

\* checks: the window waits for the snapshot of a start, with a screen that may be old.
Truthful(live, m, due, checks, asks) ==
  /\ \A x \in due : TellsRunning(x) => Harmless(live, m, due, Number(x))
  /\ m.running => live \/ ExitDue(due, m.applied) \/ (checks /\ Corrected(m, due, asks))

PhantomInv(c) ==
  c \in broker.clients /\ ~Outlived(c) =>
    Truthful(Live, mirror[c], Due(c), call[c] = "check", request[c] = "snapshot")

ClientInv(c) ==
  RequestInv(c) /\ SnapshotInv(c) /\ SocketInv(c) /\ NumberInv(c) /\ PhantomInv(c)

\* The inductive invariant.
SessionInv == TypeOK /\ \A c \in Clients : ClientInv(c)

-----------------------------------------------------------------------------
(* Lists of messages                                                       *)

LEMMA NothingIsEmpty == Elements(<<>>) = {}
  BY DEF Elements

LEMMA ElementsOfAppend ==
  ASSUME NEW S, NEW s \in Seq(S), NEW x \in S
  PROVE  Append(s, x) \in Seq(S) /\ Elements(Append(s, x)) = Elements(s) \cup {x}
<1>1. Append(s, x) \in Seq(S) /\ Len(s) \in Nat /\ Len(Append(s, x)) = Len(s) + 1
  OBVIOUS
<1>2. \A i \in 1..Len(s) : Append(s, x)[i] = s[i]
  BY <1>1
<1>3. Append(s, x)[Len(s) + 1] = x
  BY <1>1
<1>4. \A i \in 1..(Len(s) + 1) : i \in 1..Len(s) \/ i = Len(s) + 1
  BY <1>1
<1>5. QED
  BY <1>1, <1>2, <1>3, <1>4 DEF Elements

\* The head, and what is behind it.
LEMMA ElementsOfTail ==
  ASSUME NEW S, NEW s \in Seq(S), s # <<>>
  PROVE  /\ Tail(s) \in Seq(S) /\ Head(s) \in S
         /\ Elements(s) = {Head(s)} \cup Elements(Tail(s))
         /\ Len(Tail(s)) = Len(s) - 1 /\ Len(s) \in Nat \ {0} /\ Head(s) = s[1]
         /\ \A i \in 1..Len(Tail(s)) : i + 1 \in 1..Len(s) /\ Tail(s)[i] = s[i + 1]
<1>1. /\ Tail(s) \in Seq(S) /\ Head(s) \in S
      /\ Len(Tail(s)) = Len(s) - 1 /\ Len(s) \in Nat \ {0} /\ Head(s) = s[1]
  OBVIOUS
<1>2. \A i \in 1..Len(Tail(s)) : i + 1 \in 1..Len(s) /\ Tail(s)[i] = s[i + 1]
  BY <1>1
<1>3. \A i \in 1..Len(s) : i = 1 \/ (i - 1 \in 1..Len(Tail(s)) /\ s[i] = Tail(s)[i - 1])
  BY <1>1, <1>2
<1>4. Elements(s) \subseteq {Head(s)} \cup Elements(Tail(s))
  BY <1>1, <1>3 DEF Elements
<1>5. {Head(s)} \cup Elements(Tail(s)) \subseteq Elements(s)
  BY <1>1, <1>2 DEF Elements
<1>6. QED
  BY <1>1, <1>2, <1>4, <1>5

LEMMA ElementsAreTyped ==
  ASSUME NEW S, NEW s \in Seq(S)
  PROVE  \A x \in Elements(s) : x \in S
  BY DEF Elements

LEMMA EventShape ==
  ASSUME NEW e \in Events
  PROVE  /\ IsEvent(e) /\ e.seq \in Nat /\ Number(e) = e.seq /\ e # NoAnswer
         /\ (e.kind = "output" /\ e.output \in Outputs) \/ (e.kind = "exit" /\ e.run \in Runs)
  BY DEF Events, IsEvent, Number, NoAnswer

LEMMA AnswerShape ==
  ASSUME NEW x \in Answers
  PROVE  /\ ~IsEvent(x) /\ x # NoAnswer /\ x.kind # "exit"
         /\ x = Refusal \/ x.kind = "reply"
         /\ x.kind = "reply" => x.state \in States /\ x.state.seq \in Nat /\ Number(x) = x.state.seq
         /\ x = Refusal => x.kind = "refusal" /\ Number(x) = 0
  BY DEF Answers, States, IsEvent, Number, NoAnswer, Refusal

Messages == Events \cup Answers

LEMMA MessageShape ==
  ASSUME NEW x \in Messages
  PROVE  /\ IsEvent(x) => x \in Events
         /\ ~IsEvent(x) => x \in Answers
         /\ Number(x) \in Nat
  BY EventShape, AnswerShape DEF Messages

-----------------------------------------------------------------------------
(* What a controller does with messages                                    *)

\* The rest of a mirror: what neither events nor states touch.
SameSocket(r, m) == r.connected = m.connected /\ r.attaching = m.attaching

LEMMA EventApplied ==
  ASSUME NEW m \in Mirrors, NEW e \in Events, NEW r, r = ApplyEvent(m, e)
  PROVE  /\ r \in Mirrors /\ SameSocket(r, m) /\ r.queued = m.queued
         /\ e.seq <= m.applied => r = m
         /\ e.seq > m.applied => /\ r.applied = e.seq
                                 /\ r.running => m.running /\ e.kind = "output"
<1>1. /\ m.applied \in Nat /\ m.running \in BOOLEAN
      /\ m.screen # NoScreen => m.screen \in Seq(Outputs)
  BY DEF Mirrors
<1>2. e.seq \in Nat
  BY EventShape
<1>3. CASE e.seq <= m.applied
  BY <1>1, <1>2, <1>3 DEF ApplyEvent, SameSocket
<1>4. CASE e.seq > m.applied /\ e.kind = "output"
  <2>1. e.output \in Outputs
    BY <1>4, EventShape
  <2>2. PICK screen \in Seq(Outputs) \cup {NoScreen} :
          screen = IF m.screen = NoScreen THEN m.screen ELSE Append(m.screen, e.output)
    <3>1. CASE m.screen = NoScreen
      BY <3>1
    <3>2. CASE m.screen # NoScreen
      <4>1. Append(m.screen, e.output) \in Seq(Outputs)
        BY <1>1, <2>1, <3>2
      <4>2. QED
        BY <3>2, <4>1
    <3>3. QED
      BY <3>1, <3>2
  <2>3. r = [m EXCEPT !.applied = e.seq, !.screen = screen]
    BY <1>1, <1>2, <1>4, <2>2 DEF ApplyEvent
  <2>4. r \in Mirrors
    BY <1>2, <2>2, <2>3 DEF Mirrors
  <2>5. QED
    BY <1>1, <1>2, <1>4, <2>3, <2>4 DEF Mirrors, SameSocket
<1>5. CASE e.seq > m.applied /\ e.kind = "exit"
  <2>1. e.run \in Runs
    BY <1>5, EventShape
  <2>2. PICK exit \in {"none", "pending", "resolved"} :
          exit = IF m.exit = "pending" THEN "resolved" ELSE m.exit
    BY DEF Mirrors
  <2>3. r = [m EXCEPT !.applied = e.seq, !.running = FALSE, !.lastExit = e.run, !.exit = exit]
    BY <1>1, <1>2, <1>5, <2>2 DEF ApplyEvent
  <2>4. r \in Mirrors
    BY <1>2, <2>1, <2>2, <2>3 DEF Mirrors
  <2>5. QED
    BY <1>1, <1>2, <1>5, <2>3, <2>4 DEF Mirrors, SameSocket
<1>6. QED
  BY <1>1, <1>2, <1>3, <1>4, <1>5, EventShape

LEMMA EventReceived ==
  ASSUME NEW m \in Mirrors, NEW e \in Events, NEW r, r = Receive(m, e)
  PROVE  /\ r \in Mirrors /\ SameSocket(r, m)
         /\ ~m.attaching => r = ApplyEvent(m, e) /\ r.queued = m.queued
         /\ m.attaching => r = [m EXCEPT !.queued = Append(m.queued, e)]
<1>1. m.queued \in Seq(Events) /\ Append(m.queued, e) \in Seq(Events)
  BY DEF Mirrors
<1>2. CASE m.attaching
  BY <1>1, <1>2 DEF Receive, Mirrors, SameSocket
<1>3. CASE ~m.attaching
  BY <1>3, EventApplied DEF Receive
<1>4. QED
  BY <1>2, <1>3

LEMMA QueuedApplied ==
  ASSUME NEW m \in Mirrors, m.queued # <<>>, NEW r, r = ApplyQueued(m)
  PROVE  \E n \in Mirrors : /\ n = [m EXCEPT !.queued = Tail(m.queued)]
                            /\ r = ApplyEvent(n, Head(m.queued)) /\ r \in Mirrors
                            /\ SameSocket(r, m) /\ r.queued = Tail(m.queued)
<1>1. m.queued \in Seq(Events)
  BY DEF Mirrors
<1>2. Tail(m.queued) \in Seq(Events) /\ Head(m.queued) \in Events
  BY <1>1, ElementsOfTail
<1>3. PICK n \in Mirrors : n = [m EXCEPT !.queued = Tail(m.queued)]
  BY <1>2 DEF Mirrors
<1>4. r = ApplyEvent(n, Head(m.queued))
  BY <1>3 DEF ApplyQueued
<1>5. SameSocket(r, n) /\ r \in Mirrors /\ r.queued = n.queued
  BY <1>2, <1>4, EventApplied
<1>6. SameSocket(n, m) /\ n.queued = Tail(m.queued)
  BY <1>3 DEF SameSocket, Mirrors
<1>7. QED
  BY <1>3, <1>4, <1>5, <1>6 DEF SameSocket

LEMMA StateApplied ==
  ASSUME NEW m \in Mirrors, NEW s \in States, NEW replay \in BOOLEAN, NEW r,
         r = ApplyState(m, s, replay)
  PROVE  /\ r \in Mirrors /\ SameSocket(r, m) /\ r.queued = m.queued
         /\ s.seq < m.applied => r = m
         /\ s.seq >= m.applied => r.applied = s.seq /\ r.running = s.running
<1>1. m.applied \in Nat /\ s.seq \in Nat
  BY DEF Mirrors, States
<1>2. CASE s.seq < m.applied
  BY <1>1, <1>2 DEF ApplyState, SameSocket
<1>3. CASE s.seq >= m.applied
  <2>1. PICK exit \in {"none", "pending", "resolved"} :
          exit = IF s.running /\ m.exit = "none" THEN "pending" ELSE m.exit
    BY DEF Mirrors
  <2>2. PICK screen \in Seq(Outputs) \cup {NoScreen} :
          screen = IF replay /\ s.session THEN s.transcript ELSE m.screen
    BY DEF Mirrors, States
  <2>3. r = [m EXCEPT !.applied = s.seq, !.running = s.running, !.session = s.session,
                      !.lastExit = s.lastExit, !.exit = exit, !.screen = screen]
    BY <1>1, <1>3, <2>1, <2>2 DEF ApplyState
  <2>4. r \in Mirrors
    BY <2>1, <2>2, <2>3 DEF Mirrors, States
  <2>5. QED
    BY <1>1, <1>3, <2>3, <2>4 DEF Mirrors, SameSocket
<1>4. QED
  BY <1>1, <1>2, <1>3

-----------------------------------------------------------------------------
(* What is due, and what it does                                           *)

Dues == SUBSET (Messages \cup {NoAnswer})

LEMMA DueShape ==
  ASSUME NEW due \in Dues, NEW x \in due
  PROVE  /\ Number(x) \in Nat
         /\ x.kind = "output" \/ x.kind = "exit" => x \in Events /\ Number(x) = x.seq
         /\ x.kind = "reply" => x \in Answers /\ Number(x) = x.state.seq
  BY EventShape, AnswerShape, MessageShape DEF Dues, Messages, NoAnswer, IsEvent, Number

LEMMA LiveIsTruthful == \A m, due, checks, asks : Truthful(TRUE, m, due, checks, asks)
  BY DEF Truthful, Harmless

\* An event is applied, or dropped.
LEMMA ApplyKeepsTruth ==
  ASSUME NEW live, NEW m \in Mirrors, NEW r \in Mirrors, NEW e \in Events,
         NEW due \in Dues, NEW more \in Dues, more \subseteq due, due \subseteq more \cup {e},
         NEW checks, NEW asks, Truthful(live, m, due, checks, asks), e \in due,
         e.seq <= m.applied => r.applied = m.applied /\ r.running = m.running,
         e.seq > m.applied => r.applied = e.seq /\ (r.running => m.running /\ e.kind = "output")
  PROVE  Truthful(live, r, more, checks, asks)
<1>1. m.applied \in Nat /\ r.applied \in Nat /\ e.seq \in Nat /\ Number(e) = e.seq
  BY EventShape DEF Mirrors
<1>2. m.applied <= r.applied /\ e.seq <= r.applied
  BY <1>1
<1>3. ASSUME NEW n \in Nat, ExitDue(due, n)
      PROVE  r.applied > n \/ ExitDue(more, n)
  <2>1. PICK x \in due : x.kind = "exit" /\ x.seq > n
    BY <1>3 DEF ExitDue
  <2>2. CASE x = e
    BY <1>1, <1>2, <1>3, <2>1, <2>2
  <2>3. CASE x # e
    BY <2>1, <2>3 DEF ExitDue
  <2>4. QED
    BY <2>2, <2>3
<1>4. ASSUME NEW x \in more, TellsRunning(x)
      PROVE  Harmless(live, r, more, Number(x))
  <2>1. Number(x) \in Nat
    BY DueShape
  <2>2. live \/ m.applied > Number(x) \/ ExitDue(due, Number(x))
    BY <1>4 DEF Truthful, Harmless
  <2>3. QED
    BY <1>1, <1>2, <1>3, <2>1, <2>2 DEF Harmless
<1>5. ASSUME r.running, ~live, e.seq > m.applied
      PROVE  ExitDue(more, r.applied)
  <2>1. e.kind = "output" /\ r.applied = e.seq
    BY <1>5
  <2>2. Harmless(live, m, due, e.seq)
    BY <1>1, <2>1 DEF Truthful, TellsRunning
  <2>3. ExitDue(due, e.seq)
    BY <1>1, <1>5, <2>2 DEF Harmless
  <2>4. PICK x \in due : x.kind = "exit" /\ x.seq > e.seq
    BY <2>3 DEF ExitDue
  <2>5. x \in more
    BY <2>1, <2>4
  <2>6. QED
    BY <2>1, <2>4, <2>5 DEF ExitDue
<1>6. ASSUME r.running, ~live, e.seq <= m.applied
      PROVE  ExitDue(more, r.applied) \/ (checks /\ Corrected(r, more, asks))
  <2>1. r.applied = m.applied /\ m.running
    BY <1>6
  <2>2. CASE ExitDue(due, m.applied)
    <3>1. ~(r.applied > m.applied)
      BY <1>1, <2>1
    <3>2. QED
      BY <1>1, <1>3, <2>1, <2>2, <3>1
  <2>3. CASE checks /\ Corrected(m, due, asks)
    <3>1. ASSUME NEW x \in due, x.kind = "reply"
          PROVE  x \in more
      BY <3>1, EventShape
    <3>2. QED
      BY <2>1, <2>3, <3>1 DEF Corrected
  <2>4. QED
    BY <1>6, <2>1, <2>2, <2>3 DEF Truthful
<1>7. QED
  BY <1>1, <1>4, <1>5, <1>6 DEF Truthful

\* A message arrives that tells of no run, unless one is live.
LEMMA ArrivalKeepsTruth ==
  ASSUME NEW live, NEW m \in Mirrors, NEW due \in Dues, NEW x \in Messages,
         NEW more \in Dues, more = due \cup {x}, NEW checks, NEW asks, NEW still,
         Truthful(live, m, due, checks, asks), TellsRunning(x) => live,
         asks => still \/ (x.kind = "reply" /\ x.state.seq >= m.applied)
  PROVE  Truthful(live, m, more, checks, still)
<1>1. \A n : ExitDue(due, n) => ExitDue(more, n)
  BY DEF ExitDue
<1>2. \A y \in more : TellsRunning(y) => Harmless(live, m, more, Number(y))
  BY <1>1 DEF Truthful, Harmless
<1>3. Corrected(m, due, asks) => Corrected(m, more, still)
  BY DEF Corrected
<1>4. QED
  BY <1>1, <1>2, <1>3 DEF Truthful

\* The exit of the run is newer than all that a window has.
LEMMA ExitCures ==
  ASSUME NEW live, NEW m \in Mirrors, NEW due \in Dues, NEW n \in Nat, Within(n, m, due),
         NEW x \in Events, x.kind = "exit", x.seq = n + 1,
         NEW more \in Dues, more = due \cup {x}, NEW checks, NEW asks
  PROVE  Truthful(live, m, more, checks, asks)
<1>1. m.applied \in Nat /\ m.applied <= n
  BY DEF Mirrors, Within
<1>2. ASSUME NEW k \in Nat, k <= n
      PROVE  ExitDue(more, k)
  BY <1>2 DEF ExitDue
<1>3. ASSUME NEW y \in more, TellsRunning(y)
      PROVE  Harmless(live, m, more, Number(y))
  <2>1. y \in due
    BY <1>3 DEF TellsRunning
  <2>2. Number(y) \in Nat /\ Number(y) <= n
    BY <2>1, DueShape DEF Within
  <2>3. QED
    BY <1>2, <2>2 DEF Harmless
<1>4. QED
  BY <1>1, <1>2, <1>3 DEF Truthful

\* An answer that tells nothing of the run is dealt with.
LEMMA NothingAppliedKeepsTruth ==
  ASSUME NEW live, NEW m \in Mirrors, NEW r \in Mirrors, NEW due \in Dues, NEW more \in Dues,
         more \subseteq due, \A x \in due : x.kind = "exit" => x \in more, NEW asks, NEW still,
         r.applied = m.applied, r.running => m.running, Truthful(live, m, due, FALSE, asks)
  PROVE  Truthful(live, r, more, FALSE, still)
<1>1. \A n : ExitDue(due, n) => ExitDue(more, n)
  BY DEF ExitDue
<1>2. QED
  BY <1>1 DEF Truthful, Harmless

\* The state of an answer is applied, or dropped.
LEMMA StateKeepsTruth ==
  ASSUME NEW live, NEW m \in Mirrors, NEW r \in Mirrors, NEW a \in Answers, a.kind = "reply",
         NEW due \in Dues, NEW more \in Dues, a \in due, due \subseteq more \cup {a},
         more \subseteq due, \A x \in more : x.kind # "reply",
         NEW checks, NEW asks, ~asks, Truthful(live, m, due, checks, asks),
         a.state.seq < m.applied => r.applied = m.applied /\ r.running = m.running,
         a.state.seq >= m.applied => r.applied = a.state.seq /\ r.running = a.state.running,
         NEW still
  PROVE  Truthful(live, r, more, FALSE, still)
<1>1. m.applied \in Nat /\ r.applied \in Nat /\ a.state.seq \in Nat /\ Number(a) = a.state.seq
  BY AnswerShape DEF Mirrors
<1>2. m.applied <= r.applied /\ a.state.seq <= r.applied
  BY <1>1
<1>3. \A n : ExitDue(due, n) => ExitDue(more, n)
  BY DEF ExitDue
<1>4. ASSUME NEW x \in more, TellsRunning(x)
      PROVE  Harmless(live, r, more, Number(x))
  <2>1. Number(x) \in Nat
    BY DueShape
  <2>2. live \/ m.applied > Number(x) \/ ExitDue(due, Number(x))
    BY <1>4 DEF Truthful, Harmless
  <2>3. QED
    BY <1>1, <1>2, <1>3, <2>1, <2>2 DEF Harmless
<1>5. ASSUME r.running, ~live
      PROVE  ExitDue(more, r.applied)
  <2>1. CASE a.state.seq >= m.applied
    <3>1. Harmless(live, m, due, a.state.seq)
      BY <1>1, <1>5, <2>1 DEF Truthful, TellsRunning
    <3>2. QED
      BY <1>1, <1>3, <1>5, <2>1, <3>1 DEF Harmless
  <2>2. CASE a.state.seq < m.applied
    <3>1. \A x \in due : x.kind = "reply" => x = a
      OBVIOUS
    <3>2. ~Corrected(m, due, asks)
      BY <1>1, <2>2, <3>1 DEF Corrected
    <3>3. QED
      BY <1>3, <1>5, <2>2, <3>2 DEF Truthful
  <2>3. QED
    BY <1>1, <2>1, <2>2
<1>6. QED
  BY <1>4, <1>5 DEF Truthful

-----------------------------------------------------------------------------
(* Answers in an inbox                                                     *)

LEMMA EventArrives ==
  ASSUME NEW box \in Seq(Messages), NEW e \in Events, NEW more, more = Append(box, e)
  PROVE  /\ more \in Seq(Messages) /\ Elements(more) = Elements(box) \cup {e}
         /\ HasAnswer(more) <=> HasAnswer(box)
         /\ OneAnswer(box) => OneAnswer(more)
<1>1. e \in Messages /\ IsEvent(e)
  BY EventShape DEF Messages
<1>2. more \in Seq(Messages) /\ Elements(more) = Elements(box) \cup {e}
  BY <1>1, ElementsOfAppend
<1>3. /\ Len(more) = Len(box) + 1 /\ Len(box) \in Nat /\ more[Len(box) + 1] = e
      /\ \A i \in 1..Len(box) : more[i] = box[i]
  BY <1>1
<1>4. \A i \in 1..Len(more) : ~IsEvent(more[i]) => i \in 1..Len(box)
  BY <1>1, <1>3
<1>5. QED
  BY <1>1, <1>2, <1>3, <1>4 DEF HasAnswer, OneAnswer

LEMMA AnswerArrives ==
  ASSUME NEW box \in Seq(Messages), NEW x \in Answers, ~HasAnswer(box),
         NEW more, more = Append(box, x)
  PROVE  /\ more \in Seq(Messages) /\ Elements(more) = Elements(box) \cup {x}
         /\ OneAnswer(more)
<1>1. x \in Messages
  BY DEF Messages
<1>2. more \in Seq(Messages) /\ Elements(more) = Elements(box) \cup {x}
  BY <1>1, ElementsOfAppend
<1>3. /\ Len(more) = Len(box) + 1 /\ Len(box) \in Nat
      /\ \A i \in 1..Len(box) : more[i] = box[i]
  BY <1>1
<1>4. \A i \in 1..Len(box) : IsEvent(more[i])
  BY <1>3 DEF HasAnswer, Elements
<1>5. \A i \in 1..Len(more) : ~IsEvent(more[i]) => i = Len(box) + 1
  BY <1>3, <1>4
<1>6. QED
  BY <1>2, <1>5 DEF OneAnswer

LEMMA HeadIsRead ==
  ASSUME NEW box \in Seq(Messages), box # <<>>, OneAnswer(box)
  PROVE  /\ Tail(box) \in Seq(Messages) /\ Head(box) \in Messages
         /\ Elements(box) = {Head(box)} \cup Elements(Tail(box))
         /\ OneAnswer(Tail(box))
         /\ ~IsEvent(Head(box)) => HasAnswer(box) /\ ~HasAnswer(Tail(box))
<1>1. /\ Tail(box) \in Seq(Messages) /\ Head(box) \in Messages
      /\ Elements(box) = {Head(box)} \cup Elements(Tail(box))
      /\ Len(Tail(box)) = Len(box) - 1 /\ Len(box) \in Nat \ {0} /\ Head(box) = box[1]
      /\ \A i \in 1..Len(Tail(box)) : i + 1 \in 1..Len(box) /\ Tail(box)[i] = box[i + 1]
  BY ElementsOfTail
<1>2. OneAnswer(Tail(box))
  <2>1. SUFFICES ASSUME NEW i \in 1..Len(Tail(box)), NEW j \in 1..Len(Tail(box)),
                        ~IsEvent(Tail(box)[i]), ~IsEvent(Tail(box)[j])
                 PROVE  i = j
    BY DEF OneAnswer
  <2>2. i + 1 = j + 1
    BY <1>1, <2>1 DEF OneAnswer
  <2>3. QED
    BY <1>1, <2>2
<1>3. ASSUME ~IsEvent(Head(box))
      PROVE  ~HasAnswer(Tail(box))
  <2>1. \A i \in 1..Len(Tail(box)) : IsEvent(Tail(box)[i])
    <3>1. SUFFICES ASSUME NEW i \in 1..Len(Tail(box)), ~IsEvent(Tail(box)[i])
                   PROVE  FALSE
      OBVIOUS
    <3>2. i + 1 = 1
      BY <1>1, <1>3, <3>1 DEF OneAnswer
    <3>3. QED
      BY <3>2
  <2>2. QED
    BY <2>1 DEF HasAnswer, Elements
<1>4. QED
  BY <1>1, <1>2, <1>3 DEF HasAnswer

-----------------------------------------------------------------------------
(* Types                                                                   *)

\* What a client has.
LEMMA ClientTypes ==
  ASSUME TypeOK, NEW c \in Clients
  PROVE  /\ request[c] \in Requests /\ inbox[c] \in Seq(Messages)
         /\ serving[c].type \in {"none", "stop", "dispose", "shutdown"}
         /\ mirror[c] \in Mirrors /\ mirror[c].queued \in Seq(Events)
         /\ mirror[c].attaching \/ mirror[c].queued = <<>>
         /\ call[c] \in Calls /\ answer[c] \in Answers \cup {NoAnswer}
         /\ Due(c) \in Dues
         /\ broker \in Brokers /\ broker.seq \in Nat
<1>1. mirror[c] \in Mirrors /\ answer[c] \in Answers \cup {NoAnswer}
      /\ inbox[c] \in Seq(Messages) /\ serving[c].type \in {"none", "stop", "dispose", "shutdown"}
  BY DEF TypeOK, Messages
<1>2. mirror[c].queued \in Seq(Events)
  BY <1>1 DEF Mirrors
<1>3. Due(c) \in Dues
  <2>1. \A x \in Elements(mirror[c].queued) : x \in Messages
    BY <1>2, ElementsAreTyped DEF Messages
  <2>2. \A x \in Elements(inbox[c]) : x \in Messages
    BY <1>1, ElementsAreTyped
  <2>3. QED
    BY <1>1, <2>1, <2>2 DEF Due, Dues, Messages
<1>4. broker \in Brokers /\ broker.seq \in Nat
  BY DEF TypeOK, Brokers
<1>5. QED
  BY <1>1, <1>2, <1>3, <1>4 DEF TypeOK

LEMMA ReplyTyped ==
  ASSUME NEW b \in Brokers, NEW x, x = Reply(b)
  PROVE  /\ x \in Answers /\ x.kind = "reply" /\ x # Refusal
         /\ x.state.seq = b.seq /\ Number(x) = b.seq /\ b.seq \in Nat
         /\ TellsRunning(x) <=> b.pty # 0
<1>1. /\ b.seq \in Nat /\ b.lastExit \in Runs /\ b.transcript \in Seq(Outputs)
  BY DEF Brokers
<1>2. PICK state : state = Snapshot(b)
  OBVIOUS
<1>3. state \in States /\ state.seq = b.seq /\ (state.running <=> b.pty # 0)
  BY <1>1, <1>2 DEF States, Snapshot
<1>4. x = [kind |-> "reply", state |-> state]
  BY <1>2 DEF Reply
<1>5. QED
  BY <1>1, <1>3, <1>4 DEF Answers, Refusal, Number, TellsRunning, IsEvent

LEMMA RefusalTyped == Refusal \in Answers /\ Number(Refusal) = 0 /\ ~TellsRunning(Refusal)
  BY DEF Answers, Refusal, Number, TellsRunning, IsEvent

LEMMA EmptyMirrorTyped ==
  /\ EmptyMirror \in Mirrors /\ EmptyMirror.queued = <<>> /\ EmptyMirror.applied = 0
  /\ ~EmptyMirror.running /\ ~EmptyMirror.connected /\ ~EmptyMirror.attaching
<1>1. <<>> \in Seq(Events) /\ 0 \in Runs
  BY MaxRunsAssumption DEF Runs
<1>2. QED
  BY <1>1 DEF EmptyMirror, Mirrors

\* The changes of a mirror that are neither events nor states.
LEMMA MirrorChanges ==
  ASSUME NEW m \in Mirrors, NEW live \in BOOLEAN, NEW attaching \in BOOLEAN
  PROVE  /\ [m EXCEPT !.connected = live] \in Mirrors
         /\ [m EXCEPT !.attaching = attaching] \in Mirrors
         /\ [m EXCEPT !.connected = live, !.attaching = attaching, !.queued = <<>>] \in Mirrors
         /\ Disconnected(m) \in Mirrors /\ Rejected(m) \in Mirrors /\ Cleared(m) \in Mirrors
         /\ Fresh(m) \in Mirrors
<1>1. <<>> \in Seq(Events) /\ <<>> \in Seq(Outputs)
  OBVIOUS
<1>2. QED
  BY <1>1 DEF Mirrors, Disconnected, Rejected, Cleared, Fresh

LEMMA ChangedFields ==
  ASSUME NEW m \in Mirrors
  PROVE  /\ Disconnected(m).applied = m.applied /\ Disconnected(m).running = m.running
         /\ Disconnected(m).queued = m.queued /\ Disconnected(m).attaching = m.attaching
         /\ ~Disconnected(m).connected
         /\ Rejected(m).applied = m.applied /\ Rejected(m).queued = <<>>
         /\ ~Rejected(m).attaching /\ ~Rejected(m).connected
         /\ Cleared(m).applied = m.applied /\ ~Cleared(m).running /\ ~Cleared(m).connected
         /\ Cleared(m).attaching = m.attaching /\ Cleared(m).queued = m.queued
         /\ Fresh(m).applied = m.applied /\ Fresh(m).running = m.running
         /\ Fresh(m).connected = m.connected /\ Fresh(m).attaching = m.attaching
         /\ Fresh(m).queued = m.queued
  BY DEF Mirrors, Disconnected, Rejected, Cleared, Fresh

LEMMA InitialTypes ==
  ASSUME Init
  PROVE  TypeOK
<1>1. Down \in Brokers
  <2>1. 0 \in Runs /\ <<>> \in Seq(Outputs)
    BY MaxRunsAssumption DEF Runs
  <2>2. QED
    BY <2>1 DEF Down, Brokers
<1>2. 0 \in Runs /\ <<>> \in Seq(Messages)
  BY MaxRunsAssumption DEF Runs
<1>3. QED
  BY <1>1, <1>2, EmptyMirrorTyped DEF Init, TypeOK, Messages, Requests, Calls

\* What the broker does to the rest of its state.
BrokerTypes ==
  /\ broker \in Brokers
  /\ request \in [Clients -> Requests]
  /\ serving \in [Clients -> [type : {"none", "stop", "dispose", "shutdown"}, run : Runs]]
  /\ inbox \in [Clients -> Seq(Messages)]
  /\ unseen \subseteq Clients \X {"run", "end"}

LEMMA TypesTogether ==
  ASSUME TypeOK, BrokerTypes', UNCHANGED <<mirror, call, answer>>
  PROVE  TypeOK'
  BY DEF TypeOK, BrokerTypes, Messages

LEMMA TypesApart ==
  ASSUME TypeOK
  PROVE  BrokerTypes /\ 0 \in Runs
  BY MaxRunsAssumption DEF TypeOK, BrokerTypes, Messages, Runs

LEMMA RespondTyped ==
  ASSUME BrokerTypes, NEW c \in Clients, NEW x \in Answers, Respond(c, x)
  PROVE  inbox' \in [Clients -> Seq(Messages)]
<1>1. Append(inbox[c], x) \in Seq(Messages)
  BY DEF BrokerTypes, Messages
<1>2. QED
  BY <1>1 DEF BrokerTypes, Respond

LEMMA BroadcastTyped ==
  ASSUME BrokerTypes, NEW e \in Events, Broadcast(e)
  PROVE  inbox' \in [Clients -> Seq(Messages)]
<1>1. \A c \in Clients : Append(inbox[c], e) \in Seq(Messages)
  BY DEF BrokerTypes, Messages
<1>2. QED
  BY <1>1 DEF BrokerTypes, Broadcast

LEMMA TakeTyped ==
  ASSUME BrokerTypes, NEW c \in Clients
  PROVE  /\ Take(c) => request' \in [Clients -> Requests]
         /\ NotServing(c) /\ 0 \in Runs => serving' \in
              [Clients -> [type : {"none", "stop", "dispose", "shutdown"}, run : Runs]]
  BY DEF BrokerTypes, Take, NotServing, Requests

\* The broker after each of its steps.
LEMMA BrokersTyped ==
  ASSUME NEW b \in Brokers, 0 \in Runs
  PROVE  /\ b.runs < MaxRuns =>
              [b EXCEPT !.pty = b.runs + 1, !.runs = b.runs + 1, !.transcript = <<>>,
                        !.lastExit = 0, !.seq = b.seq + 1, !.terminal = TRUE] \in Brokers
         /\ [b EXCEPT !.transcript = <<>>, !.lastExit = 0, !.seq = b.seq + 1,
                      !.terminal = TRUE] \in Brokers
         /\ [b EXCEPT !.transcript = <<>>, !.lastExit = 0, !.seq = b.seq + 1,
                      !.terminal = FALSE] \in Brokers
         /\ [b EXCEPT !.pty = 0, !.lastExit = b.pty, !.seq = b.seq + 1] \in Brokers
         /\ [b EXCEPT !.seq = b.seq + 1] \in Brokers
         /\ [Down EXCEPT !.runs = b.runs] \in Brokers
<1>1. /\ b.seq + 1 \in Nat /\ <<>> \in Seq(Outputs) /\ b.runs \in Runs /\ b.pty \in Runs
      /\ b.runs < MaxRuns => b.runs + 1 \in Runs
  BY MaxRunsAssumption DEF Brokers, Runs
<1>2. QED
  BY <1>1 DEF Brokers, Down

LEMMA ServingKeepsTypes ==
  ASSUME TypeOK, BrokerActs(Knowing), UNCHANGED <<mirror, call, answer>>
  PROVE  TypeOK'
<1>1. BrokerTypes /\ 0 \in Runs /\ broker \in Brokers /\ broker.pty \in Runs /\ broker.seq \in Nat
  BY TypesApart DEF BrokerTypes, Brokers
<1>2. SUFFICES BrokerTypes'
  BY TypesTogether
<1>3. Reply(broker) \in Answers /\ (broker' \in Brokers => Reply(broker') \in Answers)
  <2>1. \A b \in Brokers : Reply(b) \in Answers
    BY ReplyTyped
  <2>2. QED
    BY <1>1, <2>1
<1>4. ASSUME NEW c \in Clients, ServeSnapshot(c)
      PROVE  BrokerTypes'
  <2>1. inbox' \in [Clients -> Seq(Messages)]
    BY <1>1, <1>3, <1>4, RespondTyped DEF ServeSnapshot
  <2>2. QED
    BY <1>1, <1>4, <2>1, TakeTyped DEF ServeSnapshot, BrokerTypes
<1>5. ASSUME NEW c \in Clients, ServeStart(c)
      PROVE  BrokerTypes'
  <2>1. broker' \in Brokers
    BY <1>1, <1>5, BrokersTyped DEF ServeStart
  <2>2. inbox' \in [Clients -> Seq(Messages)]
    BY <1>1, <1>3, <1>5, <2>1, RespondTyped DEF ServeStart
  <2>3. unseen' \subseteq Clients \X {"run", "end"}
    <3>1. broker.clients \subseteq Clients
      BY <1>1 DEF Brokers
    <3>2. QED
      BY <1>1, <1>5, <3>1 DEF ServeStart, BrokerTypes
  <2>4. QED
    BY <1>1, <1>5, <2>1, <2>2, <2>3, TakeTyped DEF ServeStart, BrokerTypes
<1>6. ASSUME NEW c \in Clients, RefuseStart(c)
      PROVE  BrokerTypes'
  <2>1. broker' \in Brokers
    BY <1>1, <1>6, BrokersTyped DEF RefuseStart
  <2>2. inbox' \in [Clients -> Seq(Messages)]
    BY <1>1, <1>6, RefusalTyped, RespondTyped DEF RefuseStart
  <2>3. QED
    BY <1>1, <1>6, <2>1, <2>2, TakeTyped DEF RefuseStart, BrokerTypes
<1>7. ASSUME NEW c \in Clients, ServeStopping(c)
      PROVE  BrokerTypes'
  <2>1. [type |-> request[c], run |-> broker.pty]
          \in [type : {"none", "stop", "dispose", "shutdown"}, run : Runs]
    BY <1>1, <1>7 DEF ServeStopping
  <2>2. QED
    BY <1>1, <1>7, <2>1, TakeTyped DEF ServeStopping, BrokerTypes
<1>8. ASSUME NEW c \in Clients, FinishStopping(c)
      PROVE  BrokerTypes'
  <2>1. broker' \in Brokers
    BY <1>1, <1>8, BrokersTyped DEF FinishStopping, Emptied
  <2>2. inbox' \in [Clients -> Seq(Messages)]
    BY <1>1, <1>3, <1>8, <2>1, RespondTyped DEF FinishStopping
  <2>3. QED
    BY <1>1, <1>8, <2>1, <2>2, TakeTyped DEF FinishStopping, BrokerTypes
<1>9. ASSUME NEW c \in Clients, FailStopping(c)
      PROVE  BrokerTypes'
  <2>1. inbox' \in [Clients -> Seq(Messages)]
    BY <1>1, <1>9, RefusalTyped, RespondTyped DEF FailStopping
  <2>2. QED
    BY <1>1, <1>9, <2>1, TakeTyped DEF FailStopping, BrokerTypes
<1>10. ASSUME NEW c \in Clients, FinishShutdown(c, Knowing)
       PROVE  BrokerTypes'
  <2>1. broker' \in Brokers
    BY <1>1, <1>10, BrokersTyped DEF FinishShutdown, BrokerEnds
  <2>2. inbox' \in [Clients -> Seq(Messages)]
    BY <1>1, <1>3, <1>10, RespondTyped DEF FinishShutdown
  <2>3. unseen' \subseteq Clients \X {"run", "end"}
    BY <1>1, <1>10 DEF FinishShutdown, BrokerTypes, Knowing
  <2>4. QED
    BY <1>1, <1>10, <2>1, <2>2, <2>3 DEF FinishShutdown, BrokerEnds, BrokerTypes, Requests
<1>11. CASE PtyWrites
  <2>1. PICK output : output = <<broker.pty, Len(broker.transcript) + 1>>
    OBVIOUS
  <2>2. output \in Outputs
    BY <1>1, <2>1 DEF Brokers, Outputs
  <2>3. /\ broker' = [broker EXCEPT !.transcript = Append(broker.transcript, output),
                                    !.seq = broker.seq + 1]
        /\ Broadcast([kind |-> "output", seq |-> broker'.seq, output |-> output])
    BY <1>11, <2>1 DEF PtyWrites
  <2>4. Append(broker.transcript, output) \in Seq(Outputs)
    BY <1>1, <2>2 DEF Brokers
  <2>5. broker' \in Brokers /\ broker'.seq \in Nat
    <3>1. PICK transcript \in Seq(Outputs) : transcript = Append(broker.transcript, output)
      BY <2>4, Zenon
    <3>2. PICK seq \in Nat : seq = broker.seq + 1
      BY <1>1
    <3>3. broker' = [broker EXCEPT !.transcript = transcript, !.seq = seq]
      BY <2>3, <3>1, <3>2
    <3>4. broker' \in Brokers
      BY <1>1, <3>3 DEF Brokers
    <3>5. QED
      BY <3>4 DEF Brokers
  <2>6. [kind |-> "output", seq |-> broker'.seq, output |-> output] \in Events
    BY <2>2, <2>5 DEF Events
  <2>7. inbox' \in [Clients -> Seq(Messages)]
    BY <1>1, <2>3, <2>6, BroadcastTyped
  <2>8. QED
    BY <1>1, <1>11, <2>5, <2>7 DEF PtyWrites, BrokerTypes
<1>12. CASE PtyExits
  <2>1. broker' \in Brokers /\ broker'.seq \in Nat
    BY <1>1, <1>12, BrokersTyped DEF PtyExits, Brokers
  <2>2. [kind |-> "exit", seq |-> broker'.seq, run |-> broker.pty] \in Events
    BY <1>1, <2>1 DEF Events
  <2>3. inbox' \in [Clients -> Seq(Messages)]
    BY <1>1, <1>12, <2>2, BroadcastTyped DEF PtyExits
  <2>4. QED
    BY <1>1, <1>12, <2>1, <2>3 DEF PtyExits, BrokerTypes
<1>13. CASE ServeControl
  <2>1. broker' \in Brokers
    BY <1>1, <1>13, BrokersTyped DEF ServeControl
  <2>2. QED
    BY <1>1, <1>13, <2>1 DEF ServeControl, BrokerTypes
<1>14. QED
  BY <1>4, <1>5, <1>6, <1>7, <1>8, <1>9, <1>10, <1>11, <1>12, <1>13 DEF BrokerActs

LEMMA IdleExitKeepsTypes ==
  ASSUME TypeOK, IdleExit
  PROVE  TypeOK'
<1>1. BrokerTypes /\ 0 \in Runs
  BY TypesApart
<1>2. broker' \in Brokers
  BY <1>1, BrokersTyped DEF IdleExit, BrokerEnds, BrokerTypes
<1>3. BrokerTypes'
  BY <1>1, <1>2 DEF IdleExit, BrokerEnds, BrokerTypes, Requests
<1>4. QED
  BY <1>3, TypesTogether DEF IdleExit

MirrorTypes ==
  /\ mirror \in [Clients -> Mirrors]
  /\ \A c \in Clients : mirror[c].attaching \/ mirror[c].queued = <<>>

LEMMA AllTypes ==
  TypeOK <=> /\ BrokerTypes /\ MirrorTypes
             /\ call \in [Clients -> Calls] /\ answer \in [Clients -> Answers \cup {NoAnswer}]
  BY DEF TypeOK, BrokerTypes, MirrorTypes, Messages

LEMMA AllTypesAfter ==
  ASSUME BrokerTypes', MirrorTypes', call' \in [Clients -> Calls],
         answer' \in [Clients -> Answers \cup {NoAnswer}]
  PROVE  TypeOK'
  BY DEF TypeOK, BrokerTypes, MirrorTypes, Messages

LEMMA BecomesTyped ==
  ASSUME MirrorTypes, NEW c \in Clients, NEW m \in Mirrors, m.attaching \/ m.queued = <<>>,
         Becomes(c, m)
  PROVE  MirrorTypes' /\ mirror'[c] = m /\ \A d \in Clients \ {c} : mirror'[d] = mirror[d]
<1>1. /\ mirror' \in [Clients -> Mirrors] /\ mirror'[c] = m
      /\ \A d \in Clients \ {c} : mirror'[d] = mirror[d]
  BY DEF MirrorTypes, Becomes
<1>2. QED
  BY <1>1 DEF MirrorTypes

LEMMA GoesTyped ==
  ASSUME TypeOK, NEW c \in Clients, NEW next \in Calls, Goes(c, next)
  PROVE  /\ call' \in [Clients -> Calls] /\ call'[c] = next
         /\ \A d \in Clients \ {c} : call'[d] = call[d]
  BY DEF TypeOK, Goes

LEMMA SendTyped ==
  ASSUME TypeOK, NEW c \in Clients, NEW type \in Requests, Send(c, type)
  PROVE  /\ request' \in [Clients -> Requests] /\ request'[c] = type
         /\ \A d \in Clients \ {c} : request'[d] = request[d]
  BY DEF TypeOK, Send

\* The parts of a broker that do not tell of its clients.
SameBroker ==
  /\ broker'.pty = broker.pty /\ broker'.seq = broker.seq

LEMMA ConnectsTyped ==
  ASSUME TypeOK, NEW c \in Clients, NEW up \in BOOLEAN,
         broker' = [broker EXCEPT !.up = up, !.clients = broker.clients \cup {c}]
  PROVE  broker' \in Brokers /\ SameBroker /\ broker'.clients = broker.clients \cup {c}
<1>1. broker \in Brokers
  BY DEF TypeOK
<1>2. PICK clients \in SUBSET Clients : clients = broker.clients \cup {c}
  BY <1>1 DEF Brokers
<1>3. broker' = [broker EXCEPT !.up = up, !.clients = clients]
  BY <1>2
<1>4. broker' \in Brokers
  BY <1>1, <1>3 DEF Brokers
<1>5. QED
  BY <1>1, <1>2, <1>3, <1>4 DEF Brokers, SameBroker

LEMMA HangsUpTyped ==
  ASSUME TypeOK, NEW c \in Clients, HangsUp(c)
  PROVE  /\ broker' \in Brokers /\ SameBroker /\ broker'.clients = broker.clients \ {c}
         /\ request' \in [Clients -> Requests] /\ request'[c] = "none"
         /\ inbox' \in [Clients -> Seq(Messages)] /\ inbox'[c] = <<>>
         /\ \A d \in Clients \ {c} : request'[d] = request[d] /\ inbox'[d] = inbox[d]
<1>1. broker \in Brokers
  BY DEF TypeOK
<1>2. PICK clients \in SUBSET Clients : clients = broker.clients \ {c}
  BY <1>1 DEF Brokers
<1>3. broker' = [broker EXCEPT !.clients = clients]
  BY <1>2 DEF HangsUp
<1>4. broker' \in Brokers
  BY <1>1, <1>3 DEF Brokers
<1>5. SameBroker /\ broker'.clients = broker.clients \ {c}
  BY <1>1, <1>2, <1>3, <1>4 DEF Brokers, SameBroker
<1>6. QED
  BY <1>4, <1>5 DEF TypeOK, HangsUp, Requests, Messages

LEMMA ForgetsTyped ==
  ASSUME TypeOK, NEW c \in Clients, Forgets(c)
  PROVE  /\ unseen' \subseteq Clients \X {"run", "end"} /\ <<c, "end">> \notin unseen'
         /\ \A d \in Clients \ {c} : <<d, "end">> \in unseen' <=> <<d, "end">> \in unseen
  BY DEF TypeOK, Forgets

-----------------------------------------------------------------------------
(* Clients a step leaves alone                                             *)

Same(c) ==
  /\ request'[c] = request[c] /\ serving'[c] = serving[c] /\ inbox'[c] = inbox[c]
  /\ mirror'[c] = mirror[c] /\ call'[c] = call[c] /\ answer'[c] = answer[c]
  /\ c \in broker'.clients <=> c \in broker.clients
  /\ <<c, "end">> \in unseen' <=> <<c, "end">> \in unseen

LEMMA Untouched ==
  ASSUME TypeOK, TypeOK', NEW c \in Clients, ClientInv(c), Same(c), Live => Live',
         broker.seq <= broker'.seq
  PROVE  ClientInv(c)'
<1>1. RequestInv(c)' /\ SnapshotInv(c)' /\ SocketInv(c)'
  BY DEF ClientInv, Same, RequestInv, SnapshotInv, SocketInv, Waits, Asks, IsServed, Answered,
         Outlived
<1>2. Due(c)' = Due(c) /\ Due(c) \in Dues
  BY ClientTypes DEF Same, Due
<1>3. NumberInv(c)'
  <2>1. \A x \in Due(c) : Number(x) \in Nat
    BY <1>2, DueShape
  <2>2. broker.seq \in Nat /\ broker'.seq \in Nat /\ mirror[c].applied \in Nat
    BY DEF TypeOK, Brokers, Mirrors
  <2>3. QED
    BY <1>2, <2>1, <2>2 DEF ClientInv, Same, NumberInv, Within, Outlived
<1>4. PhantomInv(c)'
  <2>1. CASE Live'
    BY <2>1, LiveIsTruthful DEF PhantomInv, Live
  <2>2. CASE ~Live'
    BY <1>2, <2>2 DEF ClientInv, Same, PhantomInv, Outlived, Live
  <2>3. QED
    BY <2>1, <2>2
<1>5. QED
  BY <1>1, <1>3, <1>4 DEF ClientInv

-----------------------------------------------------------------------------
(* The steps of the broker                                                 *)

\* Nothing but the inbox, the request and what is served of a client changes.
LEMMA AnswerKeepsInv ==
  ASSUME TypeOK, TypeOK', NEW c \in Clients, ClientInv(c), NEW x \in Answers,
         inbox'[c] = Append(inbox[c], x), request'[c] = "none", serving'[c].type = "none",
         mirror'[c] = mirror[c], call'[c] = call[c], answer'[c] = answer[c],
         broker'.clients = broker.clients, <<c, "end">> \in unseen' <=> <<c, "end">> \in unseen,
         broker.seq <= broker'.seq, Live => Live',
         Asks(c) \/ IsServed(c), x = Refusal => call[c] \notin {"attach", "check"},
         Number(x) <= broker'.seq, TellsRunning(x) => Live',
         request[c] = "snapshot" => x.kind = "reply" /\ x.state.seq = broker.seq
  PROVE  ClientInv(c)'
<1>1. /\ inbox[c] \in Seq(Messages) /\ mirror[c] \in Mirrors /\ Due(c) \in Dues
      /\ x \in Messages /\ Due(c) \cup {x} \in Dues
      /\ mirror[c].applied \in Nat /\ broker.seq \in Nat /\ broker'.seq \in Nat
  <2>1. inbox[c] \in Seq(Messages) /\ mirror[c] \in Mirrors /\ Due(c) \in Dues
    BY ClientTypes
  <2>2. x \in Messages /\ Due(c) \cup {x} \in Dues
    BY <2>1 DEF Messages, Dues
  <2>3. broker.seq \in Nat /\ broker'.seq \in Nat
    BY DEF TypeOK, Brokers
  <2>4. QED
    BY <2>1, <2>2, <2>3 DEF Mirrors
<1>2. ~HasAnswer(inbox[c]) /\ ~Answered(c) /\ c \in broker.clients
      /\ call[c] \notin {"absent", "idle", "replay"}
  BY DEF ClientInv, RequestInv, Waits
<1>3. PICK box : box = inbox'[c]
  OBVIOUS
<1>4. box \in Seq(Messages) /\ Elements(box) = Elements(inbox[c]) \cup {x} /\ OneAnswer(box)
  BY <1>1, <1>2, <1>3, AnswerArrives
<1>5. RequestInv(c)'
  BY <1>2, <1>3, <1>4 DEF RequestInv, Waits, Asks, IsServed, Answered
<1>6. SnapshotInv(c)'
  BY <1>3, <1>4 DEF ClientInv, SnapshotInv, IsServed
<1>7. SocketInv(c)'
  BY <1>2 DEF ClientInv, SocketInv, Answered, Outlived
<1>8. Due(c)' = Due(c) \cup {x}
  BY <1>3, <1>4 DEF Due
<1>9. \A y \in Due(c)' : Number(y) \in Nat
  BY <1>1, <1>8, DueShape
<1>10. NumberInv(c)'
  BY <1>1, <1>8, <1>9 DEF ClientInv, NumberInv, Within, Outlived
<1>11. PhantomInv(c)'
  <2>1. CASE Live'
    BY <2>1, LiveIsTruthful DEF PhantomInv, Live
  <2>2. ASSUME ~Live', ~Outlived(c)
        PROVE  Truthful(Live', mirror[c], Due(c)', call[c] = "check", FALSE)
    <3>1. Truthful(Live', mirror[c], Due(c), call[c] = "check", request[c] = "snapshot")
      BY <1>2, <2>2 DEF ClientInv, PhantomInv, Live
    <3>2. request[c] = "snapshot" => x.state.seq >= mirror[c].applied
      BY <1>1, <2>2 DEF ClientInv, NumberInv, Within
    <3>3. QED
      BY <1>1, <1>8, <2>2, <3>1, <3>2, ArrivalKeepsTruth
  <2>3. QED
    BY <2>1, <2>2 DEF PhantomInv, Outlived, Live
<1>12. QED
  BY <1>5, <1>6, <1>7, <1>10, <1>11 DEF ClientInv

LEMMA RespondsTo ==
  ASSUME TypeOK, NEW c \in Clients, NEW x, Respond(c, x)
  PROVE  inbox'[c] = Append(inbox[c], x) /\ \A d \in Clients \ {c} : inbox'[d] = inbox[d]
  BY DEF TypeOK, Respond

LEMMA TakesFrom ==
  ASSUME TypeOK, NEW c \in Clients
  PROVE  /\ Take(c) => /\ request'[c] = "none"
                       /\ \A d \in Clients \ {c} : request'[d] = request[d]
         /\ NotServing(c) => /\ serving'[c].type = "none"
                             /\ \A d \in Clients \ {c} : serving'[d] = serving[d]
  BY DEF TypeOK, Take, NotServing

LEMMA AnswerKeepsSession ==
  ASSUME SessionInv, TypeOK', NEW c \in Clients, NEW x \in Answers, Respond(c, x),
         UNCHANGED <<mirror, call, answer>>,
         request'[c] = "none", serving'[c].type = "none",
         \A d \in Clients \ {c} : request'[d] = request[d] /\ serving'[d] = serving[d],
         \A d \in Clients : <<d, "end">> \in unseen' <=> <<d, "end">> \in unseen,
         broker'.clients = broker.clients, broker.seq <= broker'.seq, Live => Live',
         Asks(c) \/ IsServed(c), x = Refusal => call[c] \notin {"attach", "check"},
         Number(x) <= broker'.seq, TellsRunning(x) => Live',
         request[c] = "snapshot" => x.kind = "reply" /\ x.state.seq = broker.seq
  PROVE  SessionInv'
<1>1. TypeOK /\ ClientInv(c)
  BY DEF SessionInv
<1>2. inbox'[c] = Append(inbox[c], x) /\ \A d \in Clients \ {c} : inbox'[d] = inbox[d]
  BY <1>1, RespondsTo
<1>3. mirror' = mirror /\ call' = call /\ answer' = answer
  OBVIOUS
<1>4. ClientInv(c)'
  BY <1>1, <1>2, <1>3, AnswerKeepsInv
<1>5. ASSUME NEW d \in Clients \ {c}
      PROVE  ClientInv(d)'
  <2>1. Same(d)
    BY <1>2, <1>3 DEF Same
  <2>2. ClientInv(d)
    BY DEF SessionInv
  <2>3. QED
    BY <1>1, <2>1, <2>2, Untouched
<1>6. QED
  BY <1>4, <1>5 DEF SessionInv

LEMMA ServeSnapshotKeepsInv ==
  ASSUME SessionInv, TypeOK', NEW c \in Clients, ServeSnapshot(c),
         UNCHANGED <<mirror, call, answer>>
  PROVE  SessionInv'
<1>1. TypeOK /\ ClientInv(c) /\ broker \in Brokers
  BY DEF SessionInv, TypeOK
<1>2. PICK x : x = Reply(broker)
  OBVIOUS
<1>3. /\ x \in Answers /\ x.kind = "reply" /\ x # Refusal /\ x.state.seq = broker.seq
      /\ Number(x) = broker.seq /\ broker.seq \in Nat
      /\ TellsRunning(x) => Live
  BY <1>1, <1>2, ReplyTyped DEF Live
<1>4. broker' = broker /\ serving' = serving /\ request[c] = "snapshot" /\ Respond(c, x)
  BY <1>2 DEF ServeSnapshot
<1>5. request'[c] = "none" /\ \A d \in Clients \ {c} : request'[d] = request[d]
  BY <1>1, TakesFrom DEF ServeSnapshot
<1>6. \A d \in Clients : <<d, "end">> \in unseen' <=> <<d, "end">> \in unseen
  BY DEF ServeSnapshot
<1>7. Asks(c) /\ serving[c].type = "none" /\ (Live <=> Live')
  BY <1>1, <1>4 DEF Asks, ClientInv, RequestInv, IsServed, Live
<1>8. /\ serving'[c].type = "none"
      /\ \A d \in Clients \ {c} : request'[d] = request[d] /\ serving'[d] = serving[d]
      /\ broker'.clients = broker.clients /\ broker.seq <= broker'.seq /\ Number(x) <= broker'.seq
  BY <1>3, <1>4, <1>5, <1>7
<1>9. /\ TellsRunning(x) => Live'
      /\ request[c] = "snapshot" => x.kind = "reply" /\ x.state.seq = broker.seq
      /\ Live => Live'
  BY <1>3, <1>7
<1>10. QED
  BY <1>3, <1>4, <1>5, <1>6, <1>7, <1>8, <1>9, AnswerKeepsSession

\* What startPty resets first, and dispose at its end.
ClearsBroker ==
  \E terminal \in BOOLEAN :
    broker' = [broker EXCEPT !.transcript = <<>>, !.lastExit = 0, !.seq = broker.seq + 1,
                             !.terminal = terminal]

LEMMA ClearedBroker ==
  ASSUME TypeOK, broker' = broker \/ ClearsBroker
  PROVE  /\ broker'.clients = broker.clients /\ broker.seq <= broker'.seq /\ 0 <= broker'.seq
         /\ broker'.pty = broker.pty
<1>1. broker \in Brokers /\ broker.seq \in Nat
  BY DEF TypeOK, Brokers
<1>2. CASE broker' = broker
  BY <1>1, <1>2
<1>3. CASE ClearsBroker
  <2>1. PICK terminal \in BOOLEAN :
          broker' = [broker EXCEPT !.transcript = <<>>, !.lastExit = 0, !.seq = broker.seq + 1,
                                   !.terminal = terminal]
    BY <1>3 DEF ClearsBroker
  <2>2. /\ broker'.clients = broker.clients /\ broker'.pty = broker.pty
        /\ broker'.seq = broker.seq + 1
    BY <1>1, <2>1 DEF Brokers
  <2>3. QED
    BY <1>1, <2>2
<1>4. QED
  BY <1>2, <1>3

LEMMA ServeStartKeepsInv ==
  ASSUME SessionInv, TypeOK', NEW c \in Clients, ServeStart(c),
         UNCHANGED <<mirror, call, answer>>
  PROVE  SessionInv'
<1>1. TypeOK /\ ClientInv(c) /\ broker \in Brokers /\ broker' \in Brokers
  BY DEF SessionInv, TypeOK
<1>2. PICK x : x = Reply(broker')
  OBVIOUS
<1>3. /\ x \in Answers /\ x.kind = "reply" /\ x # Refusal
      /\ Number(x) = broker'.seq /\ broker'.seq \in Nat
  BY <1>1, <1>2, ReplyTyped
<1>4. serving' = serving /\ request[c] = "start" /\ Respond(c, x)
  BY <1>2 DEF ServeStart
<1>5. /\ broker'.clients = broker.clients /\ broker'.seq = broker.seq + 1 /\ broker.seq \in Nat
      /\ Live'
  BY <1>1 DEF ServeStart, Brokers, Runs, Live
<1>6. request'[c] = "none" /\ \A d \in Clients \ {c} : request'[d] = request[d]
  BY <1>1, TakesFrom DEF ServeStart
<1>7. \A d \in Clients : <<d, "end">> \in unseen' <=> <<d, "end">> \in unseen
  BY DEF ServeStart
<1>8. Asks(c) /\ serving'[c].type = "none"
  BY <1>1, <1>4 DEF Asks, ClientInv, RequestInv, IsServed
<1>9. \A d \in Clients \ {c} : request'[d] = request[d] /\ serving'[d] = serving[d]
  BY <1>4, <1>6
<1>10. broker.seq <= broker'.seq /\ Number(x) <= broker'.seq
  BY <1>3, <1>5
<1>11. QED
  BY <1>3, <1>4, <1>5, <1>6, <1>7, <1>8, <1>9, <1>10, AnswerKeepsSession

LEMMA RefuseStartKeepsInv ==
  ASSUME SessionInv, TypeOK', NEW c \in Clients, RefuseStart(c),
         UNCHANGED <<mirror, call, answer>>
  PROVE  SessionInv'
<1>1. TypeOK /\ ClientInv(c) /\ broker \in Brokers
  BY DEF SessionInv, TypeOK
<1>2. serving' = serving /\ request[c] = "start" /\ Respond(c, Refusal) /\ unseen' = unseen
  BY DEF RefuseStart
<1>3. /\ broker'.clients = broker.clients /\ broker.seq <= broker'.seq /\ 0 <= broker'.seq
      /\ broker'.pty = broker.pty
  <2>1. broker' = broker \/ ClearsBroker
    BY DEF RefuseStart, ClearsBroker
  <2>2. QED
    BY <1>1, <2>1, ClearedBroker
<1>4. request'[c] = "none" /\ \A d \in Clients \ {c} : request'[d] = request[d]
  BY <1>1, TakesFrom DEF RefuseStart
<1>5. Asks(c) /\ serving'[c].type = "none" /\ call[c] \notin {"attach", "check"}
  BY <1>1, <1>2 DEF Asks, ClientInv, RequestInv, SnapshotInv, IsServed
<1>6. Live => Live'
  BY <1>3 DEF Live
<1>7. \A d \in Clients \ {c} : request'[d] = request[d] /\ serving'[d] = serving[d]
  BY <1>2, <1>4
<1>8. Refusal \in Answers /\ Number(Refusal) <= broker'.seq /\ ~TellsRunning(Refusal)
  BY <1>3, RefusalTyped
<1>9. \A d \in Clients : <<d, "end">> \in unseen' <=> <<d, "end">> \in unseen
  BY <1>2
<1>10. QED
  BY <1>2, <1>3, <1>4, <1>5, <1>6, <1>7, <1>8, <1>9, AnswerKeepsSession

LEMMA FinishStoppingKeepsInv ==
  ASSUME SessionInv, TypeOK', NEW c \in Clients, FinishStopping(c),
         UNCHANGED <<mirror, call, answer>>
  PROVE  SessionInv'
<1>1. TypeOK /\ ClientInv(c) /\ broker \in Brokers /\ broker' \in Brokers
  BY DEF SessionInv, TypeOK
<1>2. PICK x : x = Reply(broker')
  OBVIOUS
<1>3. /\ x \in Answers /\ x.kind = "reply" /\ x # Refusal
      /\ Number(x) = broker'.seq /\ broker'.seq \in Nat
      /\ TellsRunning(x) => Live'
  BY <1>1, <1>2, ReplyTyped DEF Live
<1>4. request' = request /\ unseen' = unseen /\ Respond(c, x) /\ IsServed(c)
  BY <1>2 DEF FinishStopping, IsServed
<1>5. /\ broker'.clients = broker.clients /\ broker.seq <= broker'.seq
      /\ broker'.pty = broker.pty
  <2>1. broker' = broker \/ ClearsBroker
    BY DEF FinishStopping, Emptied, ClearsBroker
  <2>2. QED
    BY <1>1, <2>1, ClearedBroker
<1>6. serving'[c].type = "none" /\ \A d \in Clients \ {c} : serving'[d] = serving[d]
  BY <1>1, TakesFrom DEF FinishStopping
<1>7. request'[c] = "none" /\ request[c] = "none"
  BY <1>1, <1>4 DEF Asks, ClientInv, RequestInv
<1>8. Live => Live'
  BY <1>5 DEF Live
<1>9. \A d \in Clients \ {c} : request'[d] = request[d] /\ serving'[d] = serving[d]
  BY <1>4, <1>6
<1>10. \A d \in Clients : <<d, "end">> \in unseen' <=> <<d, "end">> \in unseen
  BY <1>4
<1>11. Number(x) <= broker'.seq
  BY <1>3
<1>12. QED
  BY <1>3, <1>4, <1>5, <1>6, <1>7, <1>8, <1>9, <1>10, <1>11, AnswerKeepsSession

LEMMA FailStoppingKeepsInv ==
  ASSUME SessionInv, TypeOK', NEW c \in Clients, FailStopping(c),
         UNCHANGED <<mirror, call, answer>>
  PROVE  SessionInv'
<1>1. TypeOK /\ ClientInv(c) /\ broker \in Brokers
  BY DEF SessionInv, TypeOK
<1>2. /\ request' = request /\ unseen' = unseen /\ broker' = broker
      /\ Respond(c, Refusal) /\ IsServed(c)
  BY DEF FailStopping, IsServed
<1>3. serving'[c].type = "none" /\ \A d \in Clients \ {c} : serving'[d] = serving[d]
  BY <1>1, TakesFrom DEF FailStopping
<1>4. request'[c] = "none" /\ request[c] = "none" /\ call[c] \notin {"attach", "check"}
  BY <1>1, <1>2 DEF Asks, ClientInv, RequestInv, SnapshotInv
<1>5. /\ broker'.clients = broker.clients /\ broker.seq <= broker'.seq /\ 0 <= broker'.seq
      /\ Live => Live'
  BY <1>1, <1>2 DEF Live, Brokers
<1>6. \A d \in Clients \ {c} : request'[d] = request[d] /\ serving'[d] = serving[d]
  BY <1>2, <1>3
<1>7. Refusal \in Answers /\ Number(Refusal) <= broker'.seq /\ ~TellsRunning(Refusal)
  BY <1>5, RefusalTyped
<1>8. \A d \in Clients : <<d, "end">> \in unseen' <=> <<d, "end">> \in unseen
  BY <1>2
<1>9. QED
  BY <1>2, <1>3, <1>4, <1>5, <1>6, <1>7, <1>8, AnswerKeepsSession

LEMMA ServeStoppingKeepsInv ==
  ASSUME SessionInv, TypeOK', NEW c \in Clients, ServeStopping(c),
         UNCHANGED <<mirror, call, answer>>
  PROVE  SessionInv'
<1>1. TypeOK /\ ClientInv(c) /\ broker \in Brokers
  BY DEF SessionInv, TypeOK
<1>2. /\ mirror' = mirror /\ call' = call /\ answer' = answer
      /\ broker' = broker /\ inbox' = inbox /\ unseen' = unseen
      /\ request[c] \in {"stop", "dispose", "shutdown"} /\ broker.seq <= broker'.seq
      /\ Live => Live'
  BY <1>1 DEF ServeStopping, Brokers, Live
<1>3. request'[c] = "none" /\ \A d \in Clients \ {c} : request'[d] = request[d]
  BY <1>1, TakesFrom DEF ServeStopping
<1>4. serving'[c].type = request[c] /\ \A d \in Clients \ {c} : serving'[d] = serving[d]
  BY <1>1 DEF ServeStopping, TypeOK
<1>5. Asks(c)
  BY <1>2 DEF Asks
<1>6. RequestInv(c)'
  BY <1>1, <1>2, <1>3, <1>4, <1>5
     DEF ClientInv, RequestInv, Waits, Asks, IsServed, Answered
<1>7. SnapshotInv(c)'
  BY <1>1, <1>2 DEF ClientInv, SnapshotInv
<1>8. SocketInv(c)' /\ NumberInv(c)'
  BY <1>1, <1>2 DEF ClientInv, SocketInv, NumberInv, Answered, Outlived, Due
<1>9. PhantomInv(c)'
  <2>1. (request[c] = "snapshot") = (request'[c] = "snapshot")
    BY <1>2, <1>3
  <2>2. Due(c)' = Due(c) /\ Live' = Live
    BY <1>2 DEF Due, Live
  <2>3. QED
    BY <1>1, <1>2, <2>1, <2>2 DEF ClientInv, PhantomInv, Outlived
<1>10. ASSUME NEW d \in Clients \ {c}
       PROVE  ClientInv(d)'
  <2>1. Same(d)
    BY <1>2, <1>3, <1>4 DEF Same
  <2>2. QED
    BY <1>1, <1>2, <2>1, Untouched DEF SessionInv
<1>11. QED
  BY <1>6, <1>7, <1>8, <1>9, <1>10 DEF SessionInv, ClientInv

\* A broadcast: all but what it means for the run.
LEMMA EventKeepsRest ==
  ASSUME TypeOK, TypeOK', NEW c \in Clients, ClientInv(c), NEW e \in Events,
         inbox'[c] = IF c \in broker.clients THEN Append(inbox[c], e) ELSE inbox[c],
         UNCHANGED <<request, serving, unseen, mirror, call, answer>>,
         broker'.clients = broker.clients, broker'.seq = broker.seq + 1, e.seq = broker.seq + 1
  PROVE  /\ RequestInv(c)' /\ SnapshotInv(c)' /\ SocketInv(c)' /\ NumberInv(c)'
         /\ Due(c)' = IF c \in broker.clients THEN Due(c) \cup {e} ELSE Due(c)
         /\ Due(c) \cup {e} \in Dues
<1>1. /\ inbox[c] \in Seq(Messages) /\ Due(c) \in Dues /\ mirror[c] \in Mirrors
      /\ broker.seq \in Nat
  BY ClientTypes
<1>2. e \in Messages /\ Number(e) = e.seq /\ e # Refusal
  BY EventShape, AnswerShape, RefusalTyped DEF Messages
<1>3. PICK box : box = inbox'[c]
  OBVIOUS
<1>4. /\ c \in broker.clients => Elements(box) = Elements(inbox[c]) \cup {e}
      /\ HasAnswer(box) <=> HasAnswer(inbox[c])
      /\ OneAnswer(inbox[c]) => OneAnswer(box)
      /\ c \notin broker.clients => box = inbox[c]
  <2>1. CASE c \in broker.clients
    <3>1. box = Append(inbox[c], e)
      BY <1>3, <2>1
    <3>2. QED
      BY <1>1, <2>1, <3>1, EventArrives
  <2>2. CASE c \notin broker.clients
    BY <1>3, <2>2
  <2>3. QED
    BY <2>1, <2>2
<1>5. RequestInv(c)'
  BY <1>3, <1>4 DEF ClientInv, RequestInv, Waits, Asks, IsServed, Answered
<1>6. SnapshotInv(c)'
  BY <1>2, <1>3, <1>4 DEF ClientInv, SnapshotInv, IsServed
<1>7. SocketInv(c)'
  BY <1>3, <1>4 DEF ClientInv, SocketInv, Answered, Outlived
<1>8. Due(c)' = IF c \in broker.clients THEN Due(c) \cup {e} ELSE Due(c)
  BY <1>3, <1>4 DEF Due
<1>9. NumberInv(c)'
  <2>1. \A x \in Due(c) : Number(x) \in Nat
    BY <1>1, DueShape
  <2>2. mirror[c].applied \in Nat
    BY <1>1 DEF Mirrors
  <2>3. QED
    BY <1>1, <1>2, <1>8, <2>1, <2>2 DEF ClientInv, NumberInv, Within, Outlived
<1>10. Due(c) \cup {e} \in Dues
  BY <1>1, <1>2 DEF Dues
<1>11. QED
  BY <1>5, <1>6, <1>7, <1>8, <1>9, <1>10

LEMMA BroadcastReaches ==
  ASSUME NEW e, Broadcast(e), NEW c \in Clients
  PROVE  inbox'[c] = IF c \in broker.clients THEN Append(inbox[c], e) ELSE inbox[c]
  BY DEF Broadcast

LEMMA PtyWritesKeepsInv ==
  ASSUME SessionInv, TypeOK', PtyWrites, UNCHANGED <<mirror, call, answer>>
  PROVE  SessionInv'
<1>1. TypeOK /\ broker \in Brokers /\ broker.seq \in Nat
  BY DEF SessionInv, TypeOK, Brokers
<1>2. PICK output : output = <<broker.pty, Len(broker.transcript) + 1>>
  OBVIOUS
<1>3. output \in Outputs
  BY <1>1, <1>2 DEF Brokers, Outputs
<1>4. PICK transcript : transcript = Append(broker.transcript, output)
  OBVIOUS
<1>5. broker' = [broker EXCEPT !.transcript = transcript, !.seq = broker.seq + 1]
  BY <1>2, <1>4 DEF PtyWrites
<1>6. /\ broker'.clients = broker.clients /\ broker'.seq = broker.seq + 1
      /\ broker'.pty = broker.pty
  BY <1>1, <1>5 DEF Brokers
<1>7. PICK e : e = [kind |-> "output", seq |-> broker'.seq, output |-> output]
  OBVIOUS
<1>8. e \in Events /\ e.seq = broker.seq + 1
  BY <1>1, <1>3, <1>6, <1>7 DEF Events
<1>9. Broadcast(e)
  BY <1>2, <1>7 DEF PtyWrites
<1>10. Live'
  BY <1>6 DEF PtyWrites, Live
<1>11. ASSUME NEW c \in Clients
       PROVE  ClientInv(c)'
  <2>1. ClientInv(c)
    BY DEF SessionInv
  <2>2. UNCHANGED <<request, serving, unseen, mirror, call, answer>>
    BY DEF PtyWrites
  <2>3. RequestInv(c)' /\ SnapshotInv(c)' /\ SocketInv(c)' /\ NumberInv(c)'
    BY <1>1, <1>6, <1>8, <1>9, <2>1, <2>2, BroadcastReaches, EventKeepsRest
  <2>4. PhantomInv(c)'
    BY <1>10, LiveIsTruthful DEF PhantomInv, Live
  <2>5. QED
    BY <2>3, <2>4 DEF ClientInv
<1>12. QED
  BY <1>11 DEF SessionInv

LEMMA PtyExitsKeepsInv ==
  ASSUME SessionInv, TypeOK', PtyExits, UNCHANGED <<mirror, call, answer>>
  PROVE  SessionInv'
<1>1. TypeOK /\ broker \in Brokers /\ broker.seq \in Nat /\ broker.pty \in Runs
  BY DEF SessionInv, TypeOK, Brokers
<1>2. broker'.clients = broker.clients /\ broker'.seq = broker.seq + 1
  BY <1>1 DEF Brokers, PtyExits
<1>3. PICK e : e = [kind |-> "exit", seq |-> broker'.seq, run |-> broker.pty]
  OBVIOUS
<1>4. e \in Events /\ e.seq = broker.seq + 1 /\ e.kind = "exit"
  BY <1>1, <1>2, <1>3 DEF Events
<1>5. Broadcast(e)
  BY <1>3 DEF PtyExits
<1>6. ASSUME NEW c \in Clients
      PROVE  ClientInv(c)'
  <2>1. ClientInv(c)
    BY DEF SessionInv
  <2>2. UNCHANGED <<request, serving, unseen, mirror, call, answer>>
    BY DEF PtyExits
  <2>3. /\ RequestInv(c)' /\ SnapshotInv(c)' /\ SocketInv(c)' /\ NumberInv(c)'
        /\ Due(c)' = IF c \in broker.clients THEN Due(c) \cup {e} ELSE Due(c)
        /\ Due(c) \cup {e} \in Dues
    BY <1>1, <1>2, <1>4, <1>5, <2>1, <2>2, BroadcastReaches, EventKeepsRest
  <2>4. PhantomInv(c)'
    <3>1. SUFFICES ASSUME c \in broker.clients, ~Outlived(c)
                   PROVE  Truthful(Live', mirror[c], Due(c) \cup {e}, call[c] = "check",
                                   request[c] = "snapshot")
      BY <1>2, <2>2, <2>3 DEF PhantomInv, Outlived
    <3>2. Within(broker.seq, mirror[c], Due(c)) /\ Due(c) \in Dues /\ mirror[c] \in Mirrors
      BY <1>1, <2>1, <3>1, ClientTypes DEF ClientInv, NumberInv
    <3>3. QED
      BY <1>1, <1>4, <2>3, <3>2, ExitCures
  <2>5. QED
    BY <2>3, <2>4 DEF ClientInv
<1>7. QED
  BY <1>6 DEF SessionInv

LEMMA ServeControlKeepsInv ==
  ASSUME SessionInv, TypeOK', ServeControl, UNCHANGED <<mirror, call, answer>>
  PROVE  SessionInv'
<1>1. TypeOK /\ broker \in Brokers /\ broker.seq \in Nat
  BY DEF SessionInv, TypeOK, Brokers
<1>2. broker'.clients = broker.clients /\ broker'.seq = broker.seq + 1 /\ broker'.pty = broker.pty
  BY <1>1 DEF Brokers, ServeControl
<1>3. Live => Live'
  BY <1>2 DEF Live
<1>4. \A c \in Clients : Same(c)
  BY <1>2 DEF Same, ServeControl
<1>5. broker.seq <= broker'.seq
  BY <1>1, <1>2
<1>6. QED
  BY <1>1, <1>3, <1>4, <1>5, Untouched DEF SessionInv

\* What a broker leaves to a window that has known it, or has not.
LEMMA EndKeepsInv ==
  ASSUME TypeOK, NEW c \in Clients, ClientInv(c), BrokerEnds,
         UNCHANGED <<mirror, call, answer>>,
         Outlived(c) => Outlived(c)', c \in Knowing => Outlived(c)',
         \/ inbox'[c] = inbox[c]
         \/ /\ IsServed(c)
            /\ \E x \in Answers : x # Refusal /\ inbox'[c] = Append(inbox[c], x)
  PROVE  ClientInv(c)'
<1>1. inbox[c] \in Seq(Messages) /\ mirror[c] \in Mirrors /\ mirror[c].queued \in Seq(Events)
  BY ClientTypes
<1>2. /\ broker'.clients = {} /\ broker'.seq = 0
      /\ request'[c] = "none" /\ serving'[c].type = "none"
  BY DEF BrokerEnds, Down
<1>3. mirror' = mirror /\ call' = call /\ answer' = answer
  OBVIOUS
<1>4. c \notin Knowing => ~mirror[c].connected /\ mirror[c].applied = 0
  BY DEF Knowing
<1>5. IsServed(c) =>
        mirror[c].connected /\ ~HasAnswer(inbox[c]) /\ ~Answered(c)
        /\ call[c] \notin {"absent", "idle", "replay"} /\ call[c] \notin {"attach", "check"}
  BY DEF ClientInv, RequestInv, SocketInv, SnapshotInv, Waits
<1>6. RequestInv(c)' /\ SnapshotInv(c)'
  <2>1. CASE inbox'[c] = inbox[c]
    BY <1>2, <1>3, <2>1
       DEF ClientInv, RequestInv, SnapshotInv, Waits, Asks, IsServed, Answered
  <2>2. ASSUME IsServed(c), NEW x \in Answers, x # Refusal, inbox'[c] = Append(inbox[c], x)
        PROVE  RequestInv(c)' /\ SnapshotInv(c)'
    <3>1. OneAnswer(inbox'[c])
      BY <1>1, <1>5, <2>2, AnswerArrives
    <3>2. QED
      BY <1>2, <1>3, <1>5, <2>2, <3>1
         DEF RequestInv, SnapshotInv, Waits, Asks, IsServed, Answered
  <2>3. QED
    BY <2>1, <2>2
<1>7. ~mirror[c].connected => inbox'[c] = <<>> /\ ~Answered(c)
  BY <1>5 DEF ClientInv, SocketInv
<1>8. SocketInv(c)'
  BY <1>2, <1>3, <1>4, <1>7 DEF ClientInv, SocketInv, Answered
<1>9. NumberInv(c)'
  <2>1. SUFFICES ASSUME ~Outlived(c)'
                 PROVE  Within(0, mirror[c], Due(c)')
    BY <1>2, <1>3 DEF NumberInv
  <2>2. ~mirror[c].connected /\ mirror[c].applied = 0
    BY <1>4, <2>1
  <2>3. inbox'[c] = <<>> /\ answer[c] = NoAnswer /\ mirror[c].queued = <<>>
    BY <1>7, <2>1, <2>2 DEF ClientInv, SocketInv, Answered, TypeOK
  <2>4. Due(c)' = {NoAnswer}
    BY <1>3, <2>3, NothingIsEmpty DEF Due
  <2>5. Number(NoAnswer) = 0
    BY DEF Number, NoAnswer, IsEvent
  <2>6. QED
    BY <2>2, <2>4, <2>5 DEF Within
<1>10. PhantomInv(c)'
  BY <1>2 DEF PhantomInv
<1>11. QED
  BY <1>6, <1>8, <1>9, <1>10 DEF ClientInv

LEMMA FinishShutdownKeepsInv ==
  ASSUME SessionInv, TypeOK', NEW c \in Clients, FinishShutdown(c, Knowing),
         UNCHANGED <<mirror, call, answer>>
  PROVE  SessionInv'
<1>1. TypeOK /\ broker \in Brokers
  BY DEF SessionInv, TypeOK
<1>2. PICK x : x = Reply(broker)
  OBVIOUS
<1>3. x \in Answers /\ x # Refusal
  BY <1>1, <1>2, ReplyTyped
<1>4. Respond(c, x) /\ IsServed(c) /\ BrokerEnds
  BY <1>2 DEF FinishShutdown, IsServed
<1>5. inbox'[c] = Append(inbox[c], x) /\ \A d \in Clients \ {c} : inbox'[d] = inbox[d]
  BY <1>1, <1>4, RespondsTo
<1>6. ASSUME NEW d \in Clients
      PROVE  ClientInv(d)'
  <2>1. ClientInv(d)
    BY DEF SessionInv
  <2>2. (Outlived(d) => Outlived(d)') /\ (d \in Knowing => Outlived(d)')
    BY DEF FinishShutdown, Outlived
  <2>3. CASE d = c
    BY <1>1, <1>3, <1>4, <1>5, <2>1, <2>2, <2>3, EndKeepsInv
  <2>4. CASE d # c
    BY <1>1, <1>4, <1>5, <2>1, <2>2, <2>4, EndKeepsInv
  <2>5. QED
    BY <2>3, <2>4
<1>7. QED
  BY <1>6 DEF SessionInv

LEMMA IdleExitKeepsInv ==
  ASSUME SessionInv, TypeOK', IdleExit
  PROVE  SessionInv'
<1>1. ASSUME NEW c \in Clients
      PROVE  ClientInv(c)'
  <2>1. TypeOK /\ ClientInv(c)
    BY DEF SessionInv
  <2>2. mirror[c] = EmptyMirror
    BY <2>1 DEF IdleExit, Present, ClientInv, SocketInv
  <2>3. c \notin Knowing
    BY <2>2, EmptyMirrorTyped DEF Knowing
  <2>4. UNCHANGED <<mirror, call, answer>> /\ BrokerEnds /\ inbox' = inbox /\ unseen' = unseen
    BY DEF IdleExit
  <2>5. Outlived(c) => Outlived(c)'
    BY <2>4 DEF Outlived
  <2>6. QED
    BY <2>1, <2>3, <2>4, <2>5, EndKeepsInv
<1>2. QED
  BY <1>1 DEF SessionInv

LEMMA ServingKeepsInv ==
  ASSUME SessionInv, Serving
  PROVE  SessionInv'
<1>1. BrokerActs(Knowing) /\ UNCHANGED <<mirror, call, answer>>
  BY DEF Serving
<1>2. TypeOK'
  BY <1>1, ServingKeepsTypes DEF SessionInv
<1>3. QED
  BY <1>1, <1>2, ServeSnapshotKeepsInv, ServeStartKeepsInv, RefuseStartKeepsInv,
     ServeStoppingKeepsInv, FinishStoppingKeepsInv, FailStoppingKeepsInv,
     FinishShutdownKeepsInv, PtyWritesKeepsInv, PtyExitsKeepsInv, ServeControlKeepsInv
     DEF BrokerActs

-----------------------------------------------------------------------------
(* The calls of a controller                                               *)

LEMMA ControlKeepsOthers ==
  ASSUME SessionInv, TypeOK', NEW c \in Clients, ClientInv(c)', SameBroker,
         \A d \in Clients \ {c} : Same(d)
  PROVE  SessionInv'
<1>1. broker.seq <= broker'.seq /\ (Live => Live')
  BY DEF SessionInv, TypeOK, Brokers, SameBroker, Live
<1>2. ASSUME NEW d \in Clients \ {c}
      PROVE  ClientInv(d)'
  BY <1>1, Untouched DEF SessionInv
<1>3. QED
  BY <1>2 DEF SessionInv

\* A client whose call is over has nothing to come but events.
LEMMA IdleClient ==
  ASSUME TypeOK, NEW c \in Clients, ClientInv(c), call[c] \in {"absent", "idle", "replay"}
  PROVE  /\ ~Asks(c) /\ ~IsServed(c) /\ ~HasAnswer(inbox[c]) /\ ~Answered(c)
         /\ request[c] = "none" /\ serving[c].type = "none" /\ answer[c] = NoAnswer
         /\ call[c] # "replay" => ~mirror[c].attaching /\ mirror[c].queued = <<>>
  BY DEF ClientInv, RequestInv, SocketInv, Waits, Asks, IsServed, Answered, TypeOK

\* The same for one that has its answer.
LEMMA AnsweredClient ==
  ASSUME TypeOK, NEW c \in Clients, ClientInv(c), Answered(c)
  PROVE  /\ ~Asks(c) /\ ~IsServed(c) /\ ~HasAnswer(inbox[c])
         /\ request[c] = "none" /\ serving[c].type = "none"
         /\ answer[c] \in Answers /\ answer[c] \in Due(c) /\ mirror[c].connected
         /\ call[c] # "attach" => ~mirror[c].attaching /\ mirror[c].queued = <<>>
  BY DEF ClientInv, RequestInv, SocketInv, Waits, Asks, IsServed, Answered, TypeOK, Due

LEMMA EmptyBox ==
  /\ <<>> \in Seq(Messages) /\ Elements(<<>>) = {} /\ ~HasAnswer(<<>>) /\ OneAnswer(<<>>)
  BY NothingIsEmpty DEF HasAnswer, OneAnswer

LEMMA NothingDue ==
  /\ Number(NoAnswer) = 0 /\ ~TellsRunning(NoAnswer)
  /\ \A n \in Nat, m \in Mirrors : m.applied <= n => Within(n, m, {NoAnswer})
  /\ \A live, m, checks, asks :
       (m.running => checks /\ asks) => Truthful(live, m, {NoAnswer}, checks, asks)
<1>1. Number(NoAnswer) = 0 /\ ~TellsRunning(NoAnswer)
  BY DEF Number, TellsRunning, NoAnswer, IsEvent
<1>2. QED
  BY <1>1 DEF Within, Truthful, Corrected

\* A window reads and applies what it has.
LEMMA NumbersStay ==
  ASSUME TypeOK, NEW c \in Clients, NumberInv(c), SameBroker, Outlived(c) => Outlived(c)',
         Due(c)' \subseteq Due(c),
         mirror'[c].applied = mirror[c].applied \/ \E x \in Due(c) : mirror'[c].applied = Number(x)
  PROVE  NumberInv(c)'
  BY DEF NumberInv, Within, SameBroker

LEMMA EnterKeepsInv ==
  ASSUME SessionInv, NEW c \in Clients, Enter(c)
  PROVE  SessionInv'
<1>1. /\ TypeOK /\ ClientInv(c) /\ UNCHANGED answer /\ UNCHANGED brokerVars
      /\ call[c] = "absent" /\ mirror[c] = EmptyMirror
  BY DEF SessionInv, Enter, ClientInv, SocketInv
<1>2. mirror' = mirror
  BY <1>1 DEF Enter, Becomes, TypeOK
<1>3. call' \in [Clients -> Calls] /\ call'[c] = "idle" /\ \A d \in Clients \ {c} : call'[d] = call[d]
  BY <1>1, GoesTyped DEF Enter, Calls
<1>4. TypeOK' /\ SameBroker /\ \A d \in Clients \ {c} : Same(d)
  BY <1>1, <1>2, <1>3 DEF TypeOK, SameBroker, Same, brokerVars
<1>5. RequestInv(c)' /\ SnapshotInv(c)' /\ SocketInv(c)'
  BY <1>1, <1>2, <1>3, IdleClient, EmptyMirrorTyped
     DEF ClientInv, RequestInv, SnapshotInv, SocketInv, brokerVars, Waits, Asks, IsServed,
         Answered, Outlived
<1>6. NumberInv(c)' /\ PhantomInv(c)'
  BY <1>1, <1>2, <1>3, EmptyMirrorTyped
     DEF ClientInv, NumberInv, PhantomInv, SocketInv, brokerVars, Due, Outlived
<1>7. QED
  BY <1>4, <1>5, <1>6, ControlKeepsOthers DEF ClientInv

LEMMA AttachKeepsInv ==
  ASSUME SessionInv, NEW c \in Clients, Attach(c)
  PROVE  SessionInv'
<1>1. TypeOK /\ ClientInv(c) /\ broker \in Brokers /\ mirror[c] \in Mirrors
  BY DEF SessionInv, TypeOK
<1>2. /\ inbox' = inbox /\ answer' = answer /\ serving' = serving /\ unseen' = unseen
      /\ call[c] = "idle" /\ ~mirror[c].running /\ ~mirror[c].connected
  BY DEF Attach
<1>3. /\ inbox[c] = <<>> /\ answer[c] = NoAnswer /\ ~IsServed(c) /\ c \notin broker.clients
  BY <1>1, <1>2, IdleClient DEF ClientInv, SocketInv
<1>4. PICK m : m = [mirror[c] EXCEPT !.connected = TRUE, !.attaching = TRUE, !.queued = <<>>]
  OBVIOUS
<1>5. /\ m \in Mirrors /\ m.connected /\ m.attaching /\ m.queued = <<>>
      /\ m.applied = mirror[c].applied /\ ~m.running
  <2>1. m \in Mirrors
    BY <1>1, <1>4, MirrorChanges
  <2>2. QED
    BY <1>1, <1>2, <1>4, <2>1 DEF Mirrors
<1>6. MirrorTypes' /\ mirror'[c] = m /\ \A d \in Clients \ {c} : mirror'[d] = mirror[d]
  BY <1>1, <1>4, <1>5, AllTypes, BecomesTyped DEF Attach
<1>7. /\ request' \in [Clients -> Requests] /\ request'[c] = "snapshot"
      /\ \A d \in Clients \ {c} : request'[d] = request[d]
  BY <1>1, SendTyped DEF Attach, Requests
<1>8. /\ call' \in [Clients -> Calls] /\ call'[c] = "attach"
      /\ \A d \in Clients \ {c} : call'[d] = call[d]
  BY <1>1, GoesTyped DEF Attach, Calls
<1>9. broker' \in Brokers /\ SameBroker /\ broker'.clients = broker.clients \cup {c}
  <2>1. broker.up \in BOOLEAN /\ broker' = [broker EXCEPT !.up = broker.up, !.clients = broker.clients \cup {c}]
    BY <1>1 DEF Attach, Connects, Brokers
  <2>2. QED
    BY <1>1, <2>1, ConnectsTyped
<1>10. TypeOK'
  BY <1>1, <1>2, <1>6, <1>7, <1>8, <1>9, AllTypes, AllTypesAfter DEF BrokerTypes
<1>11. \A d \in Clients \ {c} : Same(d)
  BY <1>2, <1>6, <1>7, <1>8, <1>9 DEF Same
<1>12. RequestInv(c)'
  BY <1>2, <1>3, <1>7, <1>8, <1>9, EmptyBox
     DEF RequestInv, Waits, Asks, IsServed, Answered
<1>13. SnapshotInv(c)' /\ SocketInv(c)'
  BY <1>2, <1>3, <1>5, <1>6, <1>7, <1>8, <1>9, EmptyBox
     DEF SnapshotInv, SocketInv, IsServed, Answered, NoAnswer, Refusal
<1>14. Due(c)' = {NoAnswer}
  BY <1>2, <1>3, <1>5, <1>6, EmptyBox DEF Due
<1>15. NumberInv(c)'
  BY <1>1, <1>2, <1>5, <1>6, <1>9, <1>14, NumbersStay DEF ClientInv, Due, Outlived
<1>16. PhantomInv(c)'
  BY <1>5, <1>6, <1>14, NothingDue DEF PhantomInv
<1>17. QED
  BY <1>9, <1>10, <1>11, <1>12, <1>13, <1>15, <1>16, ControlKeepsOthers DEF ClientInv

\* stop(), dispose() and shutdown(), of a controller the broker knows.
LEMMA AskingKeepsInv ==
  ASSUME SessionInv, NEW c \in Clients, NEW type \in {"stop", "dispose", "shutdown"},
         call[c] = "idle", c \in broker.clients, Send(c, type), Goes(c, type),
         UNCHANGED <<broker, serving, inbox, unseen, mirror, answer>>
  PROVE  SessionInv'
<1>1. TypeOK /\ ClientInv(c)
  BY DEF SessionInv
<1>2. /\ ~IsServed(c) /\ ~HasAnswer(inbox[c]) /\ ~Answered(c) /\ request[c] = "none"
  BY <1>1, IdleClient
<1>3. /\ request' \in [Clients -> Requests] /\ request'[c] = type
      /\ \A d \in Clients \ {c} : request'[d] = request[d]
  BY <1>1, SendTyped DEF Requests
<1>4. /\ call' \in [Clients -> Calls] /\ call'[c] = type
      /\ \A d \in Clients \ {c} : call'[d] = call[d]
  BY <1>1, GoesTyped DEF Calls
<1>5. TypeOK'
  BY <1>1, <1>3, <1>4 DEF TypeOK
<1>6. SameBroker /\ \A d \in Clients \ {c} : Same(d)
  BY <1>3, <1>4 DEF Same, SameBroker
<1>7. RequestInv(c)' /\ SnapshotInv(c)' /\ SocketInv(c)'
  BY <1>1, <1>2, <1>3, <1>4, IdleClient
     DEF ClientInv, RequestInv, SnapshotInv, SocketInv, Waits, Asks, IsServed, Answered, Outlived
<1>8. Due(c)' = Due(c) /\ Live' = Live
  BY DEF Due, Live
<1>9. NumberInv(c)'
  BY <1>1, <1>8 DEF ClientInv, NumberInv, Outlived
<1>10. PhantomInv(c)'
  <2>1. (request[c] = "snapshot") = (request'[c] = "snapshot")
    BY <1>2, <1>3
  <2>2. (call[c] = "check") = (call'[c] = "check")
    BY <1>4
  <2>3. QED
    BY <1>1, <1>8, <2>1, <2>2 DEF ClientInv, PhantomInv, Outlived
<1>11. QED
  BY <1>5, <1>6, <1>7, <1>9, <1>10, ControlKeepsOthers DEF ClientInv

LEMMA StartKeepsInv ==
  ASSUME SessionInv, NEW c \in Clients, Start(c)
  PROVE  SessionInv'
<1>1. TypeOK /\ ClientInv(c) /\ broker \in Brokers /\ mirror[c] \in Mirrors
  BY DEF SessionInv, TypeOK
<1>2. /\ inbox' = inbox /\ answer' = answer /\ serving' = serving /\ unseen' = unseen
      /\ call[c] = "idle"
  BY DEF Start
<1>3. /\ answer[c] = NoAnswer /\ ~IsServed(c) /\ request[c] = "none" /\ ~HasAnswer(inbox[c])
      /\ ~mirror[c].attaching /\ mirror[c].queued = <<>>
  BY <1>1, <1>2, IdleClient
<1>4. PICK m : m = [mirror[c] EXCEPT !.connected = TRUE]
  OBVIOUS
<1>5. /\ m \in Mirrors /\ m.connected /\ ~m.attaching /\ m.queued = <<>>
      /\ m.applied = mirror[c].applied /\ m.running = mirror[c].running
  <2>1. m \in Mirrors
    BY <1>1, <1>4, MirrorChanges
  <2>2. QED
    BY <1>1, <1>3, <1>4, <2>1 DEF Mirrors
<1>6. MirrorTypes' /\ mirror'[c] = m /\ \A d \in Clients \ {c} : mirror'[d] = mirror[d]
  BY <1>1, <1>4, <1>5, AllTypes, BecomesTyped DEF Start
<1>7. /\ request' \in [Clients -> Requests] /\ request'[c] = "snapshot"
      /\ \A d \in Clients \ {c} : request'[d] = request[d]
  BY <1>1, SendTyped DEF Start, Requests
<1>8. /\ call' \in [Clients -> Calls] /\ call'[c] = "check"
      /\ \A d \in Clients \ {c} : call'[d] = call[d]
  BY <1>1, GoesTyped DEF Start, Calls
<1>9. broker' \in Brokers /\ SameBroker /\ broker'.clients = broker.clients \cup {c}
  <2>1. CASE mirror[c].connected
    BY <1>1, <2>1 DEF Start, SameBroker
  <2>2. CASE ~mirror[c].connected
    <3>1. broker' = [broker EXCEPT !.up = TRUE, !.clients = broker.clients \cup {c}]
      BY <2>2 DEF Start
    <3>2. QED
      BY <1>1, <3>1, ConnectsTyped
  <2>3. QED
    BY <2>1, <2>2
<1>10. TypeOK'
  BY <1>1, <1>2, <1>6, <1>7, <1>8, <1>9, AllTypes, AllTypesAfter DEF BrokerTypes
<1>11. \A d \in Clients \ {c} : Same(d)
  BY <1>2, <1>6, <1>7, <1>8, <1>9 DEF Same
<1>12. RequestInv(c)'
  BY <1>1, <1>2, <1>3, <1>7, <1>8, <1>9
     DEF ClientInv, RequestInv, Waits, Asks, IsServed, Answered
<1>13. SnapshotInv(c)'
  <2>1. Refusal \notin Elements(inbox[c])
    BY <1>3, RefusalTyped, AnswerShape DEF HasAnswer
  <2>2. QED
    BY <1>2, <1>3, <1>7, <1>8, <2>1 DEF SnapshotInv, IsServed, NoAnswer, Refusal
<1>14. SocketInv(c)'
  BY <1>5, <1>6, <1>8, <1>9 DEF SocketInv
<1>15. Due(c)' = Due(c)
  BY <1>2, <1>3, <1>5, <1>6 DEF Due
<1>16. NumberInv(c)'
  BY <1>1, <1>2, <1>5, <1>6, <1>9, <1>15, NumbersStay DEF ClientInv, Outlived
<1>17. PhantomInv(c)'
  <2>1. SUFFICES ASSUME ~Outlived(c)
                 PROVE  Truthful(Live, m, Due(c), TRUE, TRUE)
    BY <1>2, <1>6, <1>7, <1>8, <1>9, <1>15 DEF PhantomInv, Outlived, SameBroker, Live
  <2>2. CASE mirror[c].connected
    <3>1. Truthful(Live, mirror[c], Due(c), FALSE, FALSE)
      BY <1>1, <1>2, <1>3, <2>1, <2>2 DEF ClientInv, PhantomInv, SocketInv
    <3>2. QED
      BY <1>5, <3>1 DEF Truthful, Harmless, Corrected
  <2>3. CASE ~mirror[c].connected
    <3>1. Due(c) = {NoAnswer}
      BY <1>1, <1>3, <2>3, EmptyBox DEF ClientInv, SocketInv, Due
    <3>2. QED
      BY <3>1, NothingDue
  <2>4. QED
    BY <2>2, <2>3
<1>18. QED
  BY <1>9, <1>10, <1>11, <1>12, <1>13, <1>14, <1>16, <1>17, ControlKeepsOthers DEF ClientInv

LEMMA DisposeKeepsInv ==
  ASSUME SessionInv, NEW c \in Clients, Dispose(c)
  PROVE  SessionInv'
<1>1. CASE mirror[c].connected
  BY <1>1, AskingKeepsInv DEF Dispose
<1>2. CASE ~mirror[c].connected
  <2>1. TypeOK /\ ClientInv(c) /\ mirror[c] \in Mirrors
    BY DEF SessionInv, TypeOK
  <2>2. /\ UNCHANGED <<broker, request, serving, inbox, unseen, call, answer>>
        /\ call[c] = "idle"
    BY <1>2 DEF Dispose
  <2>3. ~mirror[c].attaching /\ mirror[c].queued = <<>>
    BY <2>1, <2>2, IdleClient
  <2>4. PICK m \in Mirrors : m = Cleared(mirror[c])
    BY <2>1, MirrorChanges
  <2>5. m.applied = mirror[c].applied /\ ~m.connected /\ ~m.attaching /\ m.queued = <<>>
    BY <2>1, <2>3, <2>4, ChangedFields
  <2>6. MirrorTypes' /\ mirror'[c] = m /\ \A d \in Clients \ {c} : mirror'[d] = mirror[d]
    BY <1>2, <2>1, <2>4, <2>5, AllTypes, BecomesTyped DEF Dispose
  <2>7. TypeOK'
    BY <2>1, <2>2, <2>6 DEF TypeOK, MirrorTypes
  <2>8. SameBroker /\ \A d \in Clients \ {c} : Same(d)
    BY <2>2, <2>6 DEF Same, SameBroker
  <2>9. RequestInv(c)' /\ SnapshotInv(c)' /\ SocketInv(c)'
    BY <1>2, <2>1, <2>2, <2>5, <2>6
       DEF ClientInv, RequestInv, SnapshotInv, SocketInv, Waits, Asks, IsServed, Answered, Outlived
  <2>10. Due(c)' = Due(c)
    BY <2>2, <2>3, <2>5, <2>6 DEF Due
  <2>11. NumberInv(c)'
    BY <2>1, <2>2, <2>5, <2>6, <2>8, <2>10, NumbersStay DEF ClientInv, Outlived
  <2>12. PhantomInv(c)'
    BY <1>2, <2>1, <2>2 DEF ClientInv, SocketInv, PhantomInv
  <2>13. QED
    BY <2>7, <2>8, <2>9, <2>11, <2>12, ControlKeepsOthers DEF ClientInv
<1>3. QED
  BY <1>1, <1>2

\* detach() and the end of shutdown(): what a window that is gone has left.
LEMMA GoneKeepsInv ==
  ASSUME SessionInv, NEW c \in Clients, HangsUp(c), Becomes(c, EmptyMirror), Goes(c, "absent"),
         Forgets(c), serving' = serving, serving[c].type = "none",
         answer' \in [Clients -> Answers \cup {NoAnswer}], answer'[c] = NoAnswer,
         \A d \in Clients \ {c} : answer'[d] = answer[d]
  PROVE  SessionInv'
<1>1. TypeOK
  BY DEF SessionInv
<1>2. /\ broker' \in Brokers /\ SameBroker /\ broker'.clients = broker.clients \ {c}
      /\ request' \in [Clients -> Requests] /\ request'[c] = "none"
      /\ inbox' \in [Clients -> Seq(Messages)] /\ inbox'[c] = <<>>
      /\ \A d \in Clients \ {c} : request'[d] = request[d] /\ inbox'[d] = inbox[d]
  BY <1>1, HangsUpTyped
<1>3. MirrorTypes' /\ mirror'[c] = EmptyMirror /\ \A d \in Clients \ {c} : mirror'[d] = mirror[d]
  BY <1>1, AllTypes, EmptyMirrorTyped, BecomesTyped
<1>4. call' \in [Clients -> Calls] /\ call'[c] = "absent" /\ \A d \in Clients \ {c} : call'[d] = call[d]
  BY <1>1, GoesTyped DEF Calls
<1>5. /\ unseen' \subseteq Clients \X {"run", "end"}
      /\ \A d \in Clients \ {c} : <<d, "end">> \in unseen' <=> <<d, "end">> \in unseen
  BY <1>1, ForgetsTyped
<1>6. TypeOK'
  BY <1>1, <1>2, <1>3, <1>4, <1>5, AllTypes, AllTypesAfter DEF BrokerTypes
<1>7. \A d \in Clients \ {c} : Same(d)
  BY <1>2, <1>3, <1>4, <1>5 DEF Same
<1>8. RequestInv(c)'
  BY <1>2, EmptyBox DEF RequestInv, Waits, Asks, IsServed, Answered
<1>9. SnapshotInv(c)'
  BY <1>4 DEF SnapshotInv
<1>10. SocketInv(c)'
  BY <1>2, <1>3, EmptyMirrorTyped DEF SocketInv, Answered
<1>11. NumberInv(c)'
  <2>1. Due(c)' = {NoAnswer}
    BY <1>2, <1>3, EmptyMirrorTyped, EmptyBox DEF Due
  <2>2. broker'.seq \in Nat
    BY <1>2 DEF Brokers
  <2>3. QED
    BY <1>3, <2>1, <2>2, EmptyMirrorTyped, NothingDue DEF NumberInv, Within
<1>12. PhantomInv(c)'
  BY <1>2 DEF PhantomInv
<1>13. QED
  BY <1>2, <1>6, <1>7, <1>8, <1>9, <1>10, <1>11, <1>12, ControlKeepsOthers DEF ClientInv

LEMMA LeaveKeepsInv ==
  ASSUME SessionInv, NEW c \in Clients, Leave(c)
  PROVE  SessionInv'
<1>1. /\ TypeOK /\ ClientInv(c) /\ call[c] = "idle" /\ answer' = answer /\ serving' = serving
  BY DEF SessionInv, Leave
<1>2. serving[c].type = "none" /\ answer[c] = NoAnswer
  BY <1>1, IdleClient
<1>3. answer \in [Clients -> Answers \cup {NoAnswer}]
  BY <1>1 DEF TypeOK
<1>4. QED
  BY <1>1, <1>2, <1>3, GoneKeepsInv DEF Leave

\* attach() after its snapshot: held-back events are applied, until there are none.
LEMMA DrainAttachKeepsInv ==
  ASSUME SessionInv, NEW c \in Clients, DrainAttach(c)
  PROVE  SessionInv'
<1>1. /\ TypeOK /\ ClientInv(c) /\ mirror[c] \in Mirrors /\ Due(c) \in Dues
      /\ mirror[c].queued \in Seq(Events)
  BY ClientTypes DEF SessionInv
<1>2. /\ UNCHANGED <<broker, request, serving, inbox, unseen, call, answer>>
      /\ call[c] = "replay" /\ mirror[c].queued # <<>> /\ Becomes(c, ApplyQueued(mirror[c]))
  BY DEF DrainAttach, brokerVars
<1>3. PICK r : r = ApplyQueued(mirror[c])
  OBVIOUS
<1>4. PICK e : e = Head(mirror[c].queued)
  OBVIOUS
<1>5. PICK m \in Mirrors : /\ m = [mirror[c] EXCEPT !.queued = Tail(mirror[c].queued)]
                           /\ r = ApplyEvent(m, e) /\ r \in Mirrors
                           /\ SameSocket(r, mirror[c]) /\ r.queued = Tail(mirror[c].queued)
  BY <1>1, <1>2, <1>3, <1>4, QueuedApplied
<1>6. /\ e \in Events /\ Number(e) = e.seq /\ e.seq \in Nat
      /\ Elements(mirror[c].queued) = {e} \cup Elements(r.queued)
  BY <1>1, <1>2, <1>4, <1>5, ElementsOfTail, EventShape
<1>7. m.applied = mirror[c].applied /\ m.running = mirror[c].running
  BY <1>1, <1>5 DEF Mirrors
<1>8. /\ e.seq <= m.applied => r = m
      /\ e.seq > m.applied => r.applied = e.seq /\ (r.running => m.running /\ e.kind = "output")
  BY <1>5, <1>6, EventApplied
<1>9. mirror[c].attaching
  BY <1>1, <1>2 DEF TypeOK
<1>10. MirrorTypes' /\ mirror'[c] = r /\ \A d \in Clients \ {c} : mirror'[d] = mirror[d]
  <2>1. r.attaching
    BY <1>5, <1>9 DEF SameSocket
  <2>2. QED
    BY <1>1, <1>2, <1>3, <1>5, <2>1, AllTypes, BecomesTyped
<1>11. TypeOK'
  BY <1>1, <1>2, <1>10 DEF TypeOK, MirrorTypes
<1>12. SameBroker /\ \A d \in Clients \ {c} : Same(d)
  BY <1>2, <1>10 DEF Same, SameBroker
<1>13. RequestInv(c)' /\ SnapshotInv(c)' /\ SocketInv(c)'
  BY <1>1, <1>2, <1>5, <1>9, <1>10
     DEF ClientInv, RequestInv, SnapshotInv, SocketInv, Waits, Asks, IsServed, Answered, Outlived,
         SameSocket
<1>14. PICK more : more = Due(c)'
  OBVIOUS
<1>15. more \subseteq Due(c) /\ Due(c) \subseteq more \cup {e} /\ e \in Due(c) /\ more \in Dues
  <2>1. more = Elements(r.queued) \cup Elements(inbox[c]) \cup {answer[c], NoAnswer}
    BY <1>2, <1>10, <1>14 DEF Due
  <2>2. more \subseteq Due(c) /\ Due(c) \subseteq more \cup {e} /\ e \in Due(c)
    BY <1>6, <2>1 DEF Due
  <2>3. QED
    BY <1>1, <2>2 DEF Dues
<1>16. NumberInv(c)'
  <2>1. r.applied = mirror[c].applied \/ r.applied = Number(e)
    <3>1. m.applied \in Nat
      BY <1>5 DEF Mirrors
    <3>2. QED
      BY <1>6, <1>7, <1>8, <3>1
  <2>2. QED
    BY <1>1, <1>2, <1>10, <1>12, <1>14, <1>15, <2>1, NumbersStay DEF ClientInv, Outlived
<1>17. PhantomInv(c)'
  <2>1. SUFFICES ASSUME c \in broker.clients, ~Outlived(c)
                 PROVE  Truthful(Live, r, more, call[c] = "check", request[c] = "snapshot")
    BY <1>2, <1>10, <1>14 DEF PhantomInv, Outlived, Live
  <2>2. Truthful(Live, m, Due(c), call[c] = "check", request[c] = "snapshot")
    BY <1>1, <1>7, <2>1 DEF ClientInv, PhantomInv, Truthful, Harmless, Corrected
  <2>3. e.seq <= m.applied => r.applied = m.applied /\ r.running = m.running
    BY <1>8
  <2>4. r \in Mirrors /\ m \in Mirrors /\ Due(c) \in Dues /\ e \in Events
    BY <1>1, <1>5, <1>6
  <2>5. e.seq > m.applied => r.applied = e.seq /\ (r.running => m.running /\ e.kind = "output")
    BY <1>8
  <2>6. QED
    BY <1>15, <2>2, <2>3, <2>4, <2>5, ApplyKeepsTruth
<1>18. QED
  BY <1>11, <1>12, <1>13, <1>16, <1>17, ControlKeepsOthers DEF ClientInv

LEMMA FinishAttachKeepsInv ==
  ASSUME SessionInv, NEW c \in Clients, FinishAttach(c)
  PROVE  SessionInv'
<1>1. TypeOK /\ ClientInv(c) /\ mirror[c] \in Mirrors
  BY DEF SessionInv, TypeOK
<1>2. /\ UNCHANGED <<broker, request, serving, inbox, unseen, answer>>
      /\ call[c] = "replay" /\ mirror[c].queued = <<>>
  BY DEF FinishAttach, brokerVars
<1>3. PICK m : m = [mirror[c] EXCEPT !.attaching = FALSE]
  OBVIOUS
<1>4. /\ m \in Mirrors /\ ~m.attaching /\ m.connected = mirror[c].connected
      /\ m.queued = mirror[c].queued /\ m.applied = mirror[c].applied
      /\ m.running = mirror[c].running
  <2>1. m \in Mirrors
    BY <1>1, <1>3, MirrorChanges
  <2>2. QED
    BY <1>1, <1>3, <2>1 DEF Mirrors
<1>5. MirrorTypes' /\ mirror'[c] = m /\ \A d \in Clients \ {c} : mirror'[d] = mirror[d]
  BY <1>1, <1>2, <1>3, <1>4, AllTypes, BecomesTyped DEF FinishAttach
<1>6. call' \in [Clients -> Calls] /\ call'[c] = "idle" /\ \A d \in Clients \ {c} : call'[d] = call[d]
  BY <1>1, GoesTyped DEF FinishAttach, Calls
<1>7. TypeOK'
  BY <1>1, <1>2, <1>5, <1>6 DEF TypeOK, MirrorTypes
<1>8. SameBroker /\ \A d \in Clients \ {c} : Same(d)
  BY <1>2, <1>5, <1>6 DEF Same, SameBroker
<1>9. RequestInv(c)' /\ SnapshotInv(c)' /\ SocketInv(c)'
  BY <1>1, <1>2, <1>4, <1>5, <1>6, IdleClient
     DEF ClientInv, RequestInv, SnapshotInv, SocketInv, Waits, Asks, IsServed, Answered, Outlived
<1>10. Due(c)' = Due(c)
  BY <1>2, <1>4, <1>5 DEF Due
<1>11. NumberInv(c)'
  BY <1>1, <1>2, <1>4, <1>5, <1>8, <1>10, NumbersStay DEF ClientInv, Outlived
<1>12. PhantomInv(c)'
  BY <1>1, <1>2, <1>4, <1>5, <1>6, <1>10
     DEF ClientInv, PhantomInv, Outlived, Live, Truthful, Harmless, Corrected
<1>13. QED
  BY <1>7, <1>8, <1>9, <1>11, <1>12, ControlKeepsOthers DEF ClientInv

-----------------------------------------------------------------------------
(* What the socket brings                                                  *)

\* An event is held back or applied.
LEMMA ReadEventKeepsInv ==
  ASSUME SessionInv, NEW c \in Clients, ReadEvent(c)
  PROVE  SessionInv'
<1>1. /\ TypeOK /\ ClientInv(c) /\ mirror[c] \in Mirrors /\ Due(c) \in Dues
      /\ mirror[c].queued \in Seq(Events) /\ inbox[c] \in Seq(Messages)
  BY ClientTypes DEF SessionInv
<1>2. /\ UNCHANGED <<broker, request, serving, unseen, call, answer>>
      /\ inbox[c] # <<>> /\ mirror[c].connected
      /\ inbox' = [inbox EXCEPT ![c] = Tail(@)]
  BY DEF ReadEvent
<1>3. PICK e : e = Head(inbox[c])
  OBVIOUS
<1>4. PICK box : box = Tail(inbox[c])
  OBVIOUS
<1>5. /\ box \in Seq(Messages) /\ e \in Events
      /\ Elements(inbox[c]) = {e} \cup Elements(box) /\ OneAnswer(box)
  BY <1>1, <1>2, <1>3, <1>4, HeadIsRead, MessageShape DEF ReadEvent, ClientInv, RequestInv
<1>6. IsEvent(e) /\ Number(e) = e.seq /\ e.seq \in Nat
  BY <1>5, EventShape
<1>7. /\ inbox' \in [Clients -> Seq(Messages)] /\ inbox'[c] = box
      /\ \A d \in Clients \ {c} : inbox'[d] = inbox[d]
  BY <1>1, <1>2, <1>4, <1>5 DEF TypeOK, Messages
<1>8. PICK r : r = Receive(mirror[c], e)
  OBVIOUS
<1>9. /\ r \in Mirrors /\ SameSocket(r, mirror[c])
      /\ ~mirror[c].attaching => r = ApplyEvent(mirror[c], e) /\ r.queued = mirror[c].queued
      /\ mirror[c].attaching => r = [mirror[c] EXCEPT !.queued = Append(mirror[c].queued, e)]
  BY <1>1, <1>5, <1>8, EventReceived
<1>10. MirrorTypes' /\ mirror'[c] = r /\ \A d \in Clients \ {c} : mirror'[d] = mirror[d]
  <2>1. r.attaching \/ r.queued = <<>>
    BY <1>1, <1>9 DEF SameSocket, TypeOK
  <2>2. Becomes(c, r)
    BY <1>3, <1>8 DEF ReadEvent
  <2>3. QED
    BY <1>1, <1>9, <2>1, <2>2, AllTypes, BecomesTyped
<1>11. TypeOK'
  BY <1>1, <1>2, <1>7, <1>10 DEF TypeOK, MirrorTypes, Messages
<1>12. SameBroker /\ \A d \in Clients \ {c} : Same(d)
  BY <1>2, <1>7, <1>10 DEF Same, SameBroker
<1>13. HasAnswer(box) => HasAnswer(inbox[c])
  BY <1>5 DEF HasAnswer
<1>14. RequestInv(c)'
  BY <1>1, <1>2, <1>5, <1>7, <1>13 DEF ClientInv, RequestInv, Waits, Asks, IsServed, Answered
<1>15. SnapshotInv(c)' /\ SocketInv(c)'
  BY <1>1, <1>2, <1>5, <1>7, <1>9, <1>10, EmptyMirrorTyped
     DEF ClientInv, SnapshotInv, SocketInv, IsServed, Answered, Outlived, SameSocket
<1>16. PICK more : more = Due(c)'
  OBVIOUS
<1>17. more = Elements(r.queued) \cup Elements(box) \cup {answer[c], NoAnswer}
  BY <1>2, <1>7, <1>10, <1>16 DEF Due
<1>18. CASE mirror[c].attaching
  <2>1. /\ r.applied = mirror[c].applied /\ r.running = mirror[c].running
        /\ r.queued = Append(mirror[c].queued, e)
    BY <1>1, <1>9, <1>18 DEF Mirrors
  <2>2. Elements(r.queued) = Elements(mirror[c].queued) \cup {e}
    BY <1>1, <1>5, <2>1, ElementsOfAppend
  <2>3. more = Due(c)
    BY <1>5, <1>17, <2>2 DEF Due
  <2>4. NumberInv(c)'
    BY <1>1, <1>2, <1>10, <1>12, <1>16, <2>1, <2>3, NumbersStay DEF ClientInv, Outlived
  <2>5. PhantomInv(c)'
    BY <1>1, <1>2, <1>10, <1>16, <2>1, <2>3
       DEF ClientInv, PhantomInv, Outlived, Live, Truthful, Harmless, Corrected
  <2>6. QED
    BY <1>11, <1>12, <1>14, <1>15, <2>4, <2>5, ControlKeepsOthers DEF ClientInv
<1>19. CASE ~mirror[c].attaching
  <2>1. /\ e.seq <= mirror[c].applied => r = mirror[c]
        /\ e.seq > mirror[c].applied =>
             r.applied = e.seq /\ (r.running => mirror[c].running /\ e.kind = "output")
    BY <1>1, <1>5, <1>9, <1>19, EventApplied
  <2>2. more \subseteq Due(c) /\ Due(c) \subseteq more \cup {e} /\ e \in Due(c) /\ more \in Dues
    <3>1. more \subseteq Due(c) /\ Due(c) \subseteq more \cup {e} /\ e \in Due(c)
      BY <1>5, <1>9, <1>17, <1>19 DEF Due
    <3>2. QED
      BY <1>1, <3>1 DEF Dues
  <2>3. r.applied = mirror[c].applied \/ r.applied = Number(e)
    <3>1. mirror[c].applied \in Nat
      BY <1>1 DEF Mirrors
    <3>2. QED
      BY <1>6, <2>1, <3>1
  <2>4. NumberInv(c)'
    BY <1>1, <1>2, <1>10, <1>12, <1>16, <2>2, <2>3, NumbersStay DEF ClientInv, Outlived
  <2>5. PhantomInv(c)'
    <3>1. SUFFICES ASSUME c \in broker.clients, ~Outlived(c)
                   PROVE  Truthful(Live, r, more, call[c] = "check", request[c] = "snapshot")
      BY <1>2, <1>10, <1>16 DEF PhantomInv, Outlived, Live
    <3>2. Truthful(Live, mirror[c], Due(c), call[c] = "check", request[c] = "snapshot")
      BY <1>1, <3>1 DEF ClientInv, PhantomInv
    <3>3. /\ e.seq <= mirror[c].applied =>
               r.applied = mirror[c].applied /\ r.running = mirror[c].running
          /\ e.seq > mirror[c].applied =>
               r.applied = e.seq /\ (r.running => mirror[c].running /\ e.kind = "output")
      BY <2>1
    <3>4. QED
      BY <1>1, <1>5, <1>9, <2>2, <3>2, <3>3, ApplyKeepsTruth
  <2>6. QED
    BY <1>11, <1>12, <1>14, <1>15, <2>4, <2>5, ControlKeepsOthers DEF ClientInv
<1>20. QED
  BY <1>18, <1>19

LEMMA ReadAnswerKeepsInv ==
  ASSUME SessionInv, NEW c \in Clients, ReadAnswer(c)
  PROVE  SessionInv'
<1>1. /\ TypeOK /\ ClientInv(c) /\ inbox[c] \in Seq(Messages)
  BY ClientTypes DEF SessionInv
<1>2. /\ UNCHANGED <<broker, request, serving, unseen, mirror, call>>
      /\ inbox[c] # <<>> /\ mirror[c].connected /\ ~IsEvent(Head(inbox[c]))
      /\ inbox' = [inbox EXCEPT ![c] = Tail(@)]
      /\ answer' = [answer EXCEPT ![c] = Head(inbox[c])]
  BY DEF ReadAnswer
<1>3. PICK x : x = Head(inbox[c])
  OBVIOUS
<1>4. PICK box : box = Tail(inbox[c])
  OBVIOUS
<1>5. /\ box \in Seq(Messages) /\ x \in Answers
      /\ Elements(inbox[c]) = {x} \cup Elements(box) /\ OneAnswer(box)
      /\ HasAnswer(inbox[c]) /\ ~HasAnswer(box)
  BY <1>1, <1>2, <1>3, <1>4, HeadIsRead, MessageShape DEF ClientInv, RequestInv
<1>6. /\ inbox' \in [Clients -> Seq(Messages)] /\ inbox'[c] = box
      /\ \A d \in Clients \ {c} : inbox'[d] = inbox[d]
  BY <1>1, <1>2, <1>4, <1>5 DEF TypeOK, Messages
<1>7. /\ answer' \in [Clients -> Answers \cup {NoAnswer}] /\ answer'[c] = x
      /\ \A d \in Clients \ {c} : answer'[d] = answer[d]
  BY <1>1, <1>2, <1>3, <1>5 DEF TypeOK
<1>8. TypeOK'
  BY <1>1, <1>2, <1>6, <1>7 DEF TypeOK, Messages
<1>9. SameBroker /\ \A d \in Clients \ {c} : Same(d)
  BY <1>2, <1>6, <1>7 DEF Same, SameBroker
<1>10. ~Answered(c) /\ answer[c] = NoAnswer
  BY <1>1, <1>5 DEF ClientInv, RequestInv, Answered
<1>11. RequestInv(c)'
  BY <1>1, <1>2, <1>5, <1>6 DEF ClientInv, RequestInv, Waits, Asks, IsServed, Answered
<1>12. SnapshotInv(c)' /\ SocketInv(c)'
  BY <1>1, <1>2, <1>5, <1>6, <1>7 DEF ClientInv, SnapshotInv, SocketInv, IsServed, Answered, Outlived
<1>13. Due(c)' = Due(c) /\ Live' = Live
  BY <1>2, <1>5, <1>6, <1>7, <1>10 DEF Due, Live
<1>14. NumberInv(c)' /\ PhantomInv(c)'
  BY <1>1, <1>2, <1>13 DEF ClientInv, NumberInv, PhantomInv, Outlived
<1>15. QED
  BY <1>8, <1>9, <1>11, <1>12, <1>14, ControlKeepsOthers DEF ClientInv

\* What a mirror is after the answer a: a reply is applied or dropped, a refusal throws.
Follows(r, m, a, checks) ==
  /\ SameSocket(r, m) /\ r.queued = m.queued
  /\ \/ /\ a.kind = "reply"
        /\ a.state.seq < m.applied => r.applied = m.applied /\ r.running = m.running
        /\ a.state.seq >= m.applied => r.applied = a.state.seq /\ r.running = a.state.running
     \/ a.kind # "reply" /\ ~checks /\ r.applied = m.applied /\ r.running = m.running

LEMMA StateFollows ==
  ASSUME NEW m \in Mirrors, NEW a \in Answers, a.kind = "reply", NEW replay \in BOOLEAN,
         NEW checks, NEW r, r = ApplyState(m, a.state, replay)
  PROVE  r \in Mirrors /\ Follows(r, m, a, checks)
<1>1. a.state \in States
  BY AnswerShape
<1>2. PICK s \in States : s = a.state
  BY <1>1
<1>3. r = ApplyState(m, s, replay)
  BY <1>2
<1>4. /\ r \in Mirrors /\ SameSocket(r, m) /\ r.queued = m.queued
      /\ s.seq < m.applied => r = m
      /\ s.seq >= m.applied => r.applied = s.seq /\ r.running = s.running
  BY <1>3, StateApplied
<1>5. QED
  BY <1>2, <1>4 DEF Follows

\* attach(), start() and stop() go on after their answer.
LEMMA AnswerAppliedKeepsInv ==
  ASSUME SessionInv, NEW c \in Clients, Answered(c), NEW r \in Mirrors,
         Follows(r, mirror[c], answer[c], call[c] = "check"),
         NEW next \in {"replay", "idle", "start"}, Becomes(c, r), GoesOn(c, next),
         r.attaching => next = "replay",
         UNCHANGED <<broker, inbox, unseen>>, request' \in [Clients -> Requests],
         \A d \in Clients \ {c} : request'[d] = request[d],
         request'[c] # "none" => c \in broker.clients /\ next = "start"
  PROVE  SessionInv'
<1>1. /\ TypeOK /\ ClientInv(c) /\ mirror[c] \in Mirrors /\ Due(c) \in Dues
      /\ mirror[c].queued \in Seq(Events) /\ inbox[c] \in Seq(Messages)
      /\ mirror[c].attaching \/ mirror[c].queued = <<>>
  BY ClientTypes DEF SessionInv
<1>2. PICK a : a = answer[c]
  OBVIOUS
<1>3. /\ ~Asks(c) /\ ~IsServed(c) /\ ~HasAnswer(inbox[c]) /\ a \in Answers /\ a \in Due(c)
      /\ mirror[c].connected /\ serving' = serving /\ request[c] = "none"
  BY <1>1, <1>2, AnsweredClient DEF GoesOn
<1>4. /\ SameSocket(r, mirror[c]) /\ r.queued = mirror[c].queued
      /\ \/ /\ a.kind = "reply"
            /\ a.state.seq < mirror[c].applied =>
                 r.applied = mirror[c].applied /\ r.running = mirror[c].running
            /\ a.state.seq >= mirror[c].applied =>
                 r.applied = a.state.seq /\ r.running = a.state.running
         \/ /\ a.kind # "reply" /\ call[c] # "check"
            /\ r.applied = mirror[c].applied /\ r.running = mirror[c].running
  BY <1>2 DEF Follows
<1>5. MirrorTypes' /\ mirror'[c] = r /\ \A d \in Clients \ {c} : mirror'[d] = mirror[d]
  BY <1>1, <1>4, AllTypes, BecomesTyped DEF SameSocket
<1>6. call' \in [Clients -> Calls] /\ call'[c] = next /\ \A d \in Clients \ {c} : call'[d] = call[d]
  BY <1>1, GoesTyped DEF GoesOn, Calls
<1>7. /\ answer' \in [Clients -> Answers \cup {NoAnswer}] /\ answer'[c] = NoAnswer
      /\ \A d \in Clients \ {c} : answer'[d] = answer[d]
  BY <1>1 DEF GoesOn, TypeOK
<1>8. TypeOK'
  BY <1>1, <1>3, <1>5, <1>6, <1>7 DEF TypeOK, MirrorTypes
<1>9. SameBroker /\ \A d \in Clients \ {c} : Same(d)
  BY <1>3, <1>5, <1>6, <1>7 DEF Same, SameBroker
<1>10. RequestInv(c)' /\ SnapshotInv(c)'
  BY <1>1, <1>3, <1>6, <1>7
     DEF ClientInv, RequestInv, SnapshotInv, Waits, Asks, IsServed, Answered
<1>11. SocketInv(c)'
  BY <1>1, <1>3, <1>4, <1>5, <1>6, <1>7 DEF ClientInv, SocketInv, Outlived, SameSocket
<1>12. PICK more : more = Due(c)'
  OBVIOUS
<1>13. more = Elements(mirror[c].queued) \cup Elements(inbox[c]) \cup {NoAnswer}
  BY <1>4, <1>5, <1>7, <1>12 DEF Due
<1>14. more \subseteq Due(c) /\ Due(c) \subseteq more \cup {a} /\ more \in Dues
  <2>1. more \subseteq Due(c) /\ Due(c) \subseteq more \cup {a}
    BY <1>2, <1>13 DEF Due
  <2>2. QED
    BY <1>1, <2>1 DEF Dues
<1>15. \A x \in more : x.kind # "reply"
  <2>1. \A x \in Elements(mirror[c].queued) : x.kind # "reply"
    BY <1>1, ElementsAreTyped, EventShape
  <2>2. \A x \in Elements(inbox[c]) : x.kind # "reply"
    BY <1>3 DEF HasAnswer, IsEvent
  <2>3. QED
    BY <1>13, <2>1, <2>2 DEF NoAnswer
<1>16. NumberInv(c)'
  <2>1. r.applied = mirror[c].applied \/ r.applied = Number(a)
    <3>1. a.kind = "reply" => a.state.seq \in Nat /\ Number(a) = a.state.seq
      BY <1>3, AnswerShape
    <3>2. mirror[c].applied \in Nat
      BY <1>1 DEF Mirrors
    <3>3. QED
      BY <1>4, <3>1, <3>2
  <2>2. QED
    BY <1>1, <1>3, <1>5, <1>9, <1>12, <1>14, <2>1, NumbersStay DEF ClientInv, Outlived
<1>17. PhantomInv(c)'
  <2>1. SUFFICES ASSUME c \in broker.clients, ~Outlived(c), NEW still
                 PROVE  Truthful(Live, r, more, FALSE, still)
    BY <1>5, <1>6, <1>12 DEF PhantomInv, Outlived, Live
  <2>2. Truthful(Live, mirror[c], Due(c), call[c] = "check", FALSE)
    BY <1>1, <1>3, <2>1 DEF ClientInv, PhantomInv
  <2>3. CASE a.kind = "reply"
    <3>1. /\ a.state.seq < mirror[c].applied =>
               r.applied = mirror[c].applied /\ r.running = mirror[c].running
          /\ a.state.seq >= mirror[c].applied =>
               r.applied = a.state.seq /\ r.running = a.state.running
      BY <1>4, <2>3
    <3>2. QED
      BY <1>1, <1>3, <1>14, <1>15, <2>2, <2>3, <3>1, StateKeepsTruth
  <2>4. CASE a.kind # "reply"
    <3>1. r.applied = mirror[c].applied /\ r.running = mirror[c].running /\ call[c] # "check"
      BY <1>4, <2>4
    <3>2. \A x \in Due(c) : x.kind = "exit" => x \in more
      BY <1>3, <1>14, AnswerShape
    <3>3. Truthful(Live, mirror[c], Due(c), FALSE, FALSE)
      BY <2>2, <3>1
    <3>4. QED
      BY <1>1, <1>14, <3>1, <3>2, <3>3, NothingAppliedKeepsTruth
  <2>5. QED
    BY <2>3, <2>4
<1>18. QED
  BY <1>8, <1>9, <1>10, <1>11, <1>16, <1>17, ControlKeepsOthers DEF ClientInv

LEMMA ContinueAttachKeepsInv ==
  ASSUME SessionInv, NEW c \in Clients, ContinueAttach(c)
  PROVE  SessionInv'
<1>1. /\ TypeOK /\ ClientInv(c) /\ mirror[c] \in Mirrors /\ Answered(c) /\ call[c] = "attach"
  BY DEF SessionInv, TypeOK, ContinueAttach
<1>2. answer[c] \in Answers /\ answer[c].kind = "reply" /\ request[c] = "none"
  BY <1>1, AnsweredClient, AnswerShape DEF ClientInv, SnapshotInv
<1>3. PICK r : r = ApplyState(mirror[c], answer[c].state, TRUE)
  OBVIOUS
<1>4. r \in Mirrors /\ Follows(r, mirror[c], answer[c], call[c] = "check")
  BY <1>1, <1>2, <1>3, StateFollows
<1>5. /\ Becomes(c, r) /\ GoesOn(c, "replay") /\ UNCHANGED <<broker, inbox, unseen>>
      /\ request' = request
  BY <1>3 DEF ContinueAttach
<1>6. request' \in [Clients -> Requests]
  BY <1>1, <1>5 DEF TypeOK
<1>7. QED
  BY <1>1, <1>2, <1>4, <1>5, <1>6, AnswerAppliedKeepsInv

LEMMA ContinueCheckKeepsInv ==
  ASSUME SessionInv, NEW c \in Clients, ContinueCheck(c)
  PROVE  SessionInv'
<1>1. /\ TypeOK /\ ClientInv(c) /\ mirror[c] \in Mirrors /\ Answered(c) /\ call[c] = "check"
  BY DEF SessionInv, TypeOK, ContinueCheck
<1>2. /\ answer[c] \in Answers /\ answer[c].kind = "reply" /\ request[c] = "none"
      /\ ~mirror[c].attaching
  BY <1>1, AnsweredClient, AnswerShape DEF ClientInv, SnapshotInv
<1>3. PICK m : m = ApplyState(mirror[c], answer[c].state, TRUE)
  OBVIOUS
<1>4. m \in Mirrors /\ Follows(m, mirror[c], answer[c], call[c] = "check") /\ ~m.attaching
  <2>1. m \in Mirrors /\ Follows(m, mirror[c], answer[c], call[c] = "check")
    BY <1>1, <1>2, <1>3, StateFollows
  <2>2. QED
    BY <1>2, <2>1 DEF Follows, SameSocket
<1>5. /\ UNCHANGED <<broker, inbox, unseen>>
      /\ IF m.running \/ HasSession(m)
           THEN GoesOn(c, "idle") /\ Becomes(c, m) /\ UNCHANGED request
           ELSE /\ GoesOn(c, "start") /\ Becomes(c, Fresh(m))
                /\ IF c \in broker.clients THEN Send(c, "start") ELSE UNCHANGED request
  BY <1>3 DEF ContinueCheck
<1>6. CASE m.running \/ HasSession(m)
  <2>1. request' \in [Clients -> Requests] /\ request' = request
    BY <1>1, <1>5, <1>6 DEF TypeOK
  <2>2. QED
    BY <1>1, <1>2, <1>4, <1>5, <1>6, <2>1, AnswerAppliedKeepsInv
<1>7. CASE ~(m.running \/ HasSession(m))
  <2>1. PICK r \in Mirrors : r = Fresh(m)
    BY <1>4, MirrorChanges
  <2>2. Follows(r, mirror[c], answer[c], call[c] = "check") /\ ~r.attaching
    BY <1>4, <2>1, ChangedFields DEF Follows, SameSocket
  <2>3. /\ request' \in [Clients -> Requests]
        /\ \A d \in Clients \ {c} : request'[d] = request[d]
        /\ request'[c] # "none" => c \in broker.clients
    <3>1. CASE c \in broker.clients
      BY <1>1, <1>5, <1>7, <3>1, SendTyped DEF Requests
    <3>2. CASE c \notin broker.clients
      BY <1>1, <1>2, <1>5, <1>7, <3>2 DEF TypeOK
    <3>3. QED
      BY <3>1, <3>2
  <2>4. GoesOn(c, "start") /\ Becomes(c, r) /\ UNCHANGED <<broker, inbox, unseen>>
    BY <1>5, <1>7, <2>1
  <2>5. QED
    BY <1>1, <2>2, <2>3, <2>4, AnswerAppliedKeepsInv
<1>8. QED
  BY <1>6, <1>7

LEMMA ContinueRunKeepsInv ==
  ASSUME SessionInv, NEW c \in Clients, ContinueRun(c)
  PROVE  SessionInv'
<1>1. /\ TypeOK /\ ClientInv(c) /\ mirror[c] \in Mirrors /\ Answered(c)
      /\ call[c] \in {"start", "stop"}
  BY DEF SessionInv, TypeOK, ContinueRun
<1>2. answer[c] \in Answers /\ request[c] = "none" /\ ~mirror[c].attaching
  BY <1>1, AnsweredClient
<1>3. PICK r : r = IF answer[c].kind = "reply"
                     THEN ApplyState(mirror[c], answer[c].state, call[c] = "stop") ELSE mirror[c]
  OBVIOUS
<1>4. r \in Mirrors /\ Follows(r, mirror[c], answer[c], call[c] = "check")
  <2>1. CASE answer[c].kind = "reply"
    <3>1. PICK replay \in BOOLEAN : replay = (call[c] = "stop")
      OBVIOUS
    <3>2. r = ApplyState(mirror[c], answer[c].state, replay)
      BY <1>3, <2>1, <3>1
    <3>3. QED
      BY <1>1, <1>2, <2>1, <3>2, StateFollows
  <2>2. CASE answer[c].kind # "reply"
    BY <1>1, <1>3, <2>2 DEF Follows, SameSocket
  <2>3. QED
    BY <2>1, <2>2
<1>5. /\ Becomes(c, r) /\ GoesOn(c, "idle") /\ UNCHANGED <<broker, inbox, unseen>>
      /\ request' = request
  BY <1>3 DEF ContinueRun
<1>6. request' \in [Clients -> Requests] /\ ~r.attaching
  BY <1>1, <1>2, <1>4, <1>5 DEF TypeOK, Follows, SameSocket
<1>7. QED
  BY <1>1, <1>2, <1>4, <1>5, <1>6, AnswerAppliedKeepsInv

LEMMA ContinueDisposeKeepsInv ==
  ASSUME SessionInv, NEW c \in Clients, ContinueDispose(c)
  PROVE  SessionInv'
<1>1. /\ TypeOK /\ ClientInv(c) /\ mirror[c] \in Mirrors /\ Answered(c) /\ call[c] = "dispose"
      /\ HangsUp(c) /\ GoesOn(c, "idle") /\ unseen' = unseen
  BY DEF SessionInv, TypeOK, ContinueDispose
<1>2. /\ serving' = serving /\ serving[c].type = "none"
      /\ ~mirror[c].attaching /\ mirror[c].queued = <<>>
  BY <1>1, AnsweredClient DEF GoesOn
<1>3. PICK m : m = IF answer[c].kind = "reply" THEN Cleared(mirror[c]) ELSE Disconnected(mirror[c])
  OBVIOUS
<1>4. /\ m \in Mirrors /\ m.applied = mirror[c].applied /\ ~m.connected /\ ~m.attaching
      /\ m.queued = <<>>
  <2>1. m = Cleared(mirror[c]) \/ m = Disconnected(mirror[c])
    BY <1>3
  <2>2. Cleared(mirror[c]) \in Mirrors /\ Disconnected(mirror[c]) \in Mirrors
    BY <1>1, MirrorChanges
  <2>3. QED
    BY <1>1, <1>2, <2>1, <2>2, ChangedFields
<1>5. MirrorTypes' /\ mirror'[c] = m /\ \A d \in Clients \ {c} : mirror'[d] = mirror[d]
  <2>1. Becomes(c, m)
    BY <1>3 DEF ContinueDispose
  <2>2. QED
    BY <1>1, <1>4, <2>1, AllTypes, BecomesTyped
<1>6. call' \in [Clients -> Calls] /\ call'[c] = "idle" /\ \A d \in Clients \ {c} : call'[d] = call[d]
  BY <1>1, GoesTyped DEF GoesOn, Calls
<1>7. /\ answer' \in [Clients -> Answers \cup {NoAnswer}] /\ answer'[c] = NoAnswer
      /\ \A d \in Clients \ {c} : answer'[d] = answer[d]
  BY <1>1 DEF GoesOn, TypeOK
<1>8. /\ broker' \in Brokers /\ SameBroker /\ broker'.clients = broker.clients \ {c}
      /\ request' \in [Clients -> Requests] /\ request'[c] = "none"
      /\ inbox' \in [Clients -> Seq(Messages)] /\ inbox'[c] = <<>>
      /\ \A d \in Clients \ {c} : request'[d] = request[d] /\ inbox'[d] = inbox[d]
  BY <1>1, HangsUpTyped
<1>9. TypeOK'
  BY <1>1, <1>2, <1>5, <1>6, <1>7, <1>8, AllTypes, AllTypesAfter DEF BrokerTypes
<1>10. \A d \in Clients \ {c} : Same(d)
  BY <1>1, <1>2, <1>5, <1>6, <1>7, <1>8 DEF Same
<1>11. RequestInv(c)' /\ SnapshotInv(c)'
  BY <1>2, <1>6, <1>7, <1>8, EmptyBox
     DEF RequestInv, SnapshotInv, Waits, Asks, IsServed, Answered
<1>12. SocketInv(c)'
  BY <1>4, <1>5, <1>6, <1>7, <1>8 DEF SocketInv, Answered
<1>13. NumberInv(c)'
  <2>1. Due(c)' = {NoAnswer}
    BY <1>4, <1>5, <1>7, <1>8, EmptyBox DEF Due
  <2>2. QED
    BY <1>1, <1>4, <1>5, <1>8, <2>1, NumbersStay DEF ClientInv, Due, Outlived
<1>14. PhantomInv(c)'
  BY <1>8 DEF PhantomInv
<1>15. QED
  BY <1>8, <1>9, <1>10, <1>11, <1>12, <1>13, <1>14, ControlKeepsOthers DEF ClientInv

LEMMA ContinueShutdownKeepsInv ==
  ASSUME SessionInv, NEW c \in Clients, ContinueShutdown(c)
  PROVE  SessionInv'
<1>1. /\ TypeOK /\ ClientInv(c) /\ Answered(c) /\ HangsUp(c) /\ Becomes(c, EmptyMirror)
      /\ Forgets(c) /\ Goes(c, "absent") /\ serving' = serving
      /\ answer' = [answer EXCEPT ![c] = NoAnswer]
  BY DEF SessionInv, ContinueShutdown, GoesOn
<1>2. serving[c].type = "none"
  BY <1>1, AnsweredClient
<1>3. /\ answer' \in [Clients -> Answers \cup {NoAnswer}] /\ answer'[c] = NoAnswer
      /\ \A d \in Clients \ {c} : answer'[d] = answer[d]
  BY <1>1 DEF TypeOK
<1>4. QED
  BY <1>1, <1>2, <1>3, GoneKeepsInv

\* handleDisconnect: the broker is gone, and what it had sent with it.
LEMMA SeesCloseKeepsInv ==
  ASSUME SessionInv, NEW c \in Clients, SeesClose(c)
  PROVE  SessionInv'
<1>1. /\ TypeOK /\ ClientInv(c) /\ mirror[c] \in Mirrors
      /\ mirror[c].attaching \/ mirror[c].queued = <<>>
  BY DEF SessionInv, TypeOK
<1>2. /\ mirror[c].connected /\ c \notin broker.clients /\ ~Answered(c)
      /\ inbox' = [inbox EXCEPT ![c] = <<>>]
      /\ UNCHANGED <<broker, request, serving, answer>>
  BY DEF SeesClose
<1>3. /\ Outlived(c) /\ ~Asks(c) /\ ~IsServed(c) /\ answer[c] = NoAnswer
      /\ request[c] = "none" /\ serving[c].type = "none"
  BY <1>1, <1>2 DEF ClientInv, SocketInv, RequestInv, Asks, IsServed, Answered
<1>4. /\ inbox' \in [Clients -> Seq(Messages)] /\ inbox'[c] = <<>>
      /\ \A d \in Clients \ {c} : inbox'[d] = inbox[d]
  BY <1>1, <1>2, EmptyBox DEF TypeOK, Messages
<1>5. ~HasAnswer(inbox'[c]) /\ OneAnswer(inbox'[c]) /\ Elements(inbox'[c]) = {}
  BY <1>4, EmptyBox
<1>6. SameBroker
  BY <1>2 DEF SameBroker
<1>7. RequestInv(c)' /\ PhantomInv(c)'
  BY <1>2, <1>3, <1>5 DEF RequestInv, PhantomInv, Waits, Asks, IsServed, Answered
<1>8. SnapshotInv(c)'
  BY <1>2, <1>3, <1>5 DEF SnapshotInv, IsServed, NoAnswer, Refusal
<1>9. CASE call[c] = "shutdown"
  <2>1. /\ Becomes(c, EmptyMirror) /\ Goes(c, "absent") /\ Forgets(c)
    BY <1>9 DEF SeesClose
  <2>2. MirrorTypes' /\ mirror'[c] = EmptyMirror /\ \A d \in Clients \ {c} : mirror'[d] = mirror[d]
    BY <1>1, <2>1, AllTypes, EmptyMirrorTyped, BecomesTyped
  <2>3. /\ call' \in [Clients -> Calls] /\ call'[c] = "absent"
        /\ \A d \in Clients \ {c} : call'[d] = call[d]
    BY <1>1, <2>1, GoesTyped DEF Calls
  <2>4. /\ unseen' \subseteq Clients \X {"run", "end"}
        /\ \A d \in Clients \ {c} : <<d, "end">> \in unseen' <=> <<d, "end">> \in unseen
    BY <1>1, <2>1, ForgetsTyped
  <2>5. TypeOK'
    BY <1>1, <1>2, <1>4, <2>2, <2>3, <2>4 DEF TypeOK, MirrorTypes, Messages
  <2>6. \A d \in Clients \ {c} : Same(d)
    BY <1>2, <1>4, <2>2, <2>3, <2>4 DEF Same
  <2>7. SocketInv(c)'
    BY <1>2, <1>4, <2>2, EmptyMirrorTyped DEF SocketInv, Answered
  <2>8. NumberInv(c)'
    <3>1. Due(c)' = {NoAnswer}
      BY <1>2, <1>3, <1>5, <2>2, EmptyMirrorTyped, EmptyBox DEF Due
    <3>2. broker'.seq \in Nat
      BY <1>1, <1>2 DEF TypeOK, Brokers
    <3>3. QED
      BY <2>2, <3>1, <3>2, EmptyMirrorTyped, NothingDue DEF NumberInv, Within
  <2>9. QED
    BY <1>6, <1>7, <1>8, <2>5, <2>6, <2>7, <2>8, ControlKeepsOthers DEF ClientInv
<1>10. CASE call[c] # "shutdown"
  <2>1. PICK m \in Mirrors : /\ m = Disconnected(mirror[c]) \/ m = Rejected(mirror[c])
                             /\ call[c] = "replay" => m = Disconnected(mirror[c])
                             /\ call[c] # "replay" => m = Rejected(mirror[c])
    BY <1>1, MirrorChanges
  <2>2. /\ m.applied = mirror[c].applied /\ ~m.connected
        /\ m.attaching \/ m.queued = <<>>
        /\ m.attaching => call[c] = "replay"
    BY <1>1, <2>1, ChangedFields
  <2>3. Becomes(c, m) /\ unseen' = unseen
    BY <1>10, <2>1 DEF SeesClose
  <2>4. PICK next \in {"replay", "idle"} :
          (call[c] = "replay" => next = "replay") /\ (call[c] # "replay" => next = "idle")
    OBVIOUS
  <2>5. /\ call' \in [Clients -> Calls] /\ call'[c] = next
        /\ \A d \in Clients \ {c} : call'[d] = call[d]
    <3>1. CASE call[c] = "replay"
      BY <1>1, <1>10, <2>4, <3>1 DEF SeesClose, TypeOK, Calls
    <3>2. CASE call[c] # "replay"
      BY <1>1, <1>10, <2>4, <3>2, GoesTyped DEF SeesClose, Calls
    <3>3. QED
      BY <3>1, <3>2
  <2>6. MirrorTypes' /\ mirror'[c] = m /\ \A d \in Clients \ {c} : mirror'[d] = mirror[d]
    BY <1>1, <2>1, <2>2, <2>3, AllTypes, BecomesTyped
  <2>7. TypeOK'
    BY <1>1, <1>2, <1>4, <2>3, <2>5, <2>6 DEF TypeOK, MirrorTypes, Messages
  <2>8. \A d \in Clients \ {c} : Same(d)
    BY <1>2, <1>4, <2>3, <2>5, <2>6 DEF Same
  <2>9. SocketInv(c)'
    BY <1>2, <1>3, <1>4, <2>2, <2>3, <2>4, <2>5, <2>6 DEF SocketInv, Outlived, Answered
  <2>10. NumberInv(c)'
    BY <1>3, <2>3 DEF NumberInv, Outlived
  <2>11. QED
    BY <1>6, <1>7, <1>8, <2>7, <2>8, <2>9, <2>10, ControlKeepsOthers DEF ClientInv
<1>11. QED
  BY <1>9, <1>10

-----------------------------------------------------------------------------
(* Theorems                                                                *)

LEMMA InitialInv ==
  ASSUME Init
  PROVE  SessionInv
<1>1. TypeOK
  BY InitialTypes
<1>2. ASSUME NEW c \in Clients
      PROVE  ClientInv(c)
  <2>1. /\ request[c] = "none" /\ serving[c].type = "none" /\ inbox[c] = <<>>
        /\ mirror[c] = EmptyMirror /\ call[c] = "absent" /\ answer[c] = NoAnswer
        /\ broker.clients = {} /\ broker.seq = 0
    BY DEF Init, Down
  <2>2. RequestInv(c) /\ SnapshotInv(c) /\ SocketInv(c) /\ PhantomInv(c)
    BY <2>1, EmptyBox, EmptyMirrorTyped
       DEF RequestInv, SnapshotInv, SocketInv, PhantomInv, Waits, Asks, IsServed, Answered
  <2>3. Due(c) = {NoAnswer}
    BY <2>1, EmptyBox, EmptyMirrorTyped DEF Due
  <2>4. NumberInv(c)
    BY <2>1, <2>3, EmptyMirrorTyped, NothingDue DEF NumberInv, Within
  <2>5. QED
    BY <2>2, <2>4 DEF ClientInv
<1>3. QED
  BY <1>1, <1>2 DEF SessionInv

LEMMA NextKeepsInv ==
  ASSUME SessionInv, Next
  PROVE  SessionInv'
<1>1. CASE Serving
  BY <1>1, ServingKeepsInv
<1>2. CASE IdleExit
  BY <1>2, IdleExitKeepsInv, IdleExitKeepsTypes DEF SessionInv
<1>3. ASSUME NEW c \in Clients, Controls(c)
      PROVE  SessionInv'
  <2>1. CASE Stop(c)
    BY <2>1, AskingKeepsInv DEF Stop
  <2>2. CASE Quit(c)
    BY <2>2, AskingKeepsInv DEF Quit
  <2>3. CASE Continue(c)
    BY <2>3, ContinueAttachKeepsInv, ContinueCheckKeepsInv, ContinueRunKeepsInv,
       ContinueDisposeKeepsInv, ContinueShutdownKeepsInv DEF Continue
  <2>4. QED
    BY <1>3, <2>1, <2>2, <2>3, EnterKeepsInv, AttachKeepsInv, DrainAttachKeepsInv,
       FinishAttachKeepsInv, StartKeepsInv, DisposeKeepsInv, LeaveKeepsInv, ReadEventKeepsInv,
       ReadAnswerKeepsInv, SeesCloseKeepsInv DEF Controls
<1>4. QED
  BY <1>1, <1>2, <1>3 DEF Next

LEMMA StutterKeepsInv ==
  ASSUME SessionInv, UNCHANGED vars
  PROVE  SessionInv'
<1>1. TypeOK'
  BY DEF SessionInv, TypeOK, vars
<1>2. ASSUME NEW c \in Clients
      PROVE  ClientInv(c)'
  <2>1. Same(c) /\ SameBroker
    BY DEF vars, Same, SameBroker
  <2>2. (Live => Live') /\ broker.seq <= broker'.seq
    BY <2>1 DEF SessionInv, TypeOK, Brokers, SameBroker, Live
  <2>3. QED
    BY <1>1, <2>1, <2>2, Untouched DEF SessionInv
<1>3. QED
  BY <1>1, <1>2 DEF SessionInv

\* The strengthened invariant holds of every run of the specification, whatever the chunks
\* and whoever starts: TaktRunController's handleData, applyState and applyEvent on one side,
\* the broker's requests and broadcasts on the other.
THEOREM SessionInvariant == Spec => []SessionInv
<1>1. Init => SessionInv
  BY InitialInv
<1>2. SessionInv /\ [Next]_vars => SessionInv'
  BY NextKeepsInv, StutterKeepsInv
<1>3. QED
  BY <1>1, <1>2, PTL DEF Spec

\* Every variable has its type, and a controller holds events back only in attach().
THEOREM SessionTypes == Spec => []TypeOK
<1>1. SessionInv => TypeOK
  BY DEF SessionInv
<1>2. QED
  BY <1>1, SessionInvariant, PTL

\* A window that is connected, idle and has read everything shows a live run only while the
\* broker's PTY lives, unless it has outlived a broker: an exit event that overtakes a snapshot,
\* or is overtaken by one, is not lost (appliedSequence and queuedAttachEvents).
THEOREM PhantomTheorem == Spec => []NoPhantomRun
<1>1. SessionInv => NoPhantomRun
  <2>1. SUFFICES ASSUME SessionInv, NEW c \in Clients, Settled(c), mirror[c].running,
                        <<c, "end">> \notin unseen
                 PROVE  Live
    BY DEF NoPhantomRun
  <2>2. /\ TypeOK /\ ClientInv(c) /\ call[c] = "idle" /\ c \in broker.clients
        /\ inbox[c] = <<>>
    BY <2>1 DEF SessionInv, Settled
  <2>3. answer[c] = NoAnswer /\ mirror[c].queued = <<>>
    BY <2>2, IdleClient
  <2>4. Due(c) = {NoAnswer}
    BY <2>2, <2>3, EmptyBox DEF Due
  <2>5. Truthful(Live, mirror[c], {NoAnswer}, FALSE, request[c] = "snapshot")
    BY <2>1, <2>2, <2>4 DEF ClientInv, PhantomInv, Outlived
  <2>6. QED
    BY <2>1, <2>5 DEF Truthful, ExitDue, NoAnswer
<1>2. QED
  BY <1>1, SessionInvariant, PTL

-----------------------------------------------------------------------------
(* What a window shows: the order of its messages                          *)

\* Events come in the order of their numbers, held back or not, and after an answer that
\* includes what was before them.
InOrder(held, box, ans) ==
  /\ \A i, j \in 1..Len(held) : i < j => held[i].seq < held[j].seq
  /\ \A e \in Elements(held), f \in Elements(box) : IsEvent(f) => e.seq < f.seq
  /\ \A i, j \in 1..Len(box) : i < j /\ IsEvent(box[j]) => Number(box[i]) < box[j].seq
  /\ \A i, j \in 1..Len(box) :
       i < j /\ box[j].kind = "reply" => Number(box[i]) <= Number(box[j])
  /\ ans # NoAnswer => \A f \in Elements(box) : IsEvent(f) => Number(ans) < f.seq

OrderInv(c) == ~Outlived(c) => InOrder(mirror[c].queued, inbox[c], answer[c])

\* Which requests belong to which call.
KindInv(c) ==
  /\ request[c] = "snapshot" => call[c] \in {"attach", "check"}
  /\ request[c] \notin {"none", "snapshot"} => call[c] = request[c]
  /\ serving[c].type # "none" => call[c] = serving[c].type
  /\ c \notin Starters => call[c] \notin {"check", "start", "stop", "dispose"}
  /\ call[c] = "attach" => mirror[c].attaching /\ ~mirror[c].running

-----------------------------------------------------------------------------
(* What a window shows: what its messages tell                             *)

\* The transcript is that of the live run.
TranscriptInv ==
  /\ broker.pty <= broker.runs
  /\ Live /\ broker.terminal =>
       \A i \in 1..Len(broker.transcript) : broker.transcript[i] = <<broker.pty, i>>

\* Outputs are in their order, and of the live run b, or the exit of theirs follows.
Tells(b, due) ==
  \A e \in due : e.kind = "output" =>
    /\ 0 < e.output[1] /\ e.output[1] <= b.runs
    /\ e.output[1] = b.pty /\ b.terminal => e.output[2] <= Len(b.transcript)
    /\ e.output[1] # b.pty => ExitDue(due, e.seq)
    /\ \A f \in due : f.kind = "output" /\ e.seq < f.seq /\ e.output[1] = f.output[1] =>
         e.output[2] < f.output[2]

\* A run is live, and screen shows its first outputs, of which the others are still due, with
\* numbers greater than n.
Good(b, screen, due, n) ==
  /\ b.pty # 0
  /\ b.terminal =>
       /\ screen # NoScreen /\ Len(screen) <= Len(b.transcript)
       /\ \A i \in 1..Len(screen) : screen[i] = <<b.pty, i>>
       /\ \A e \in due : e.kind = "output" /\ e.seq > n /\ e.output[1] = b.pty =>
            e.output[2] > Len(screen)
       /\ \A j \in (Len(screen) + 1)..Len(b.transcript) :
            \E e \in due : e.kind = "output" /\ e.seq > n /\ e.output = <<b.pty, j>>

\* No run is live, and nothing comes after n.
Ended(b, due, n) == b.pty = 0 /\ \A f \in due : IsEvent(f) => f.seq <= n

\* The reply x of a call at: it is dropped, or its run ends, or it makes the screen good.
ReplyShows(b, m, due, at, x) ==
  /\ x.state.running => x.state.session
  /\ x.state.running /\ x.state.seq >= m.applied =>
       \/ ExitDue(due, x.state.seq)
       \/ /\ at \in {"attach", "check", "stop"} =>
               Good(b, x.state.transcript, due, x.state.seq)
          /\ at = "start" => Good(b, m.screen, due, x.state.seq)
  /\ at = "check" =>
       /\ ~x.state.running => Ended(b, due, x.state.seq)
       /\ \A e \in due : e.kind = "exit" /\ e.seq > x.state.seq => Ended(b, due, e.seq)
       /\ x.state.running /\ x.state.seq < m.applied =>
            ExitDue(due, x.state.seq) \/ Ended(b, due, m.applied)
  /\ at = "start" => \A e \in due : IsEvent(e) => e.seq <= m.applied \/ e.seq > x.state.seq

\* A mirror that shows a run shows it well, or will show its exit, or is about to be
\* corrected; and start() is sent when there is no run, with an empty screen.
Shown(b, m, due, at, asked) ==
  /\ m.running => \/ ExitDue(due, m.applied)
                  \/ at = "check" /\ Corrected(m, due, asked = "snapshot")
                  \/ Good(b, m.screen, due, m.applied)
  /\ \A x \in due : x.kind = "reply" => ReplyShows(b, m, due, at, x)
  /\ asked = "start" => Ended(b, due, m.applied) /\ m.screen = <<>> /\ ~m.running

\* The window will be told of the live run, or knows it.
Known(m, due, at, asked) ==
  \/ asked = "snapshot"
  \/ /\ at \in {"attach", "check", "start"}
     /\ \E x \in due : x.kind = "reply" /\ x.state.running /\ x.state.seq >= m.applied
                       /\ ~ExitDue(due, x.state.seq)
  \/ /\ m.running /\ m.exit # "none" /\ ~ExitDue(due, m.applied)
     /\ \A x \in due : x.kind = "reply" /\ x.state.seq >= m.applied => x.state.running

ViewInv(c) ==
  c \in broker.clients /\ ~Outlived(c) =>
    /\ Tells(broker, Due(c))
    /\ ~Missed(c) => Shown(broker, mirror[c], Due(c), call[c], request[c])
    /\ <<c, "run">> \notin unseen /\ Live => Known(mirror[c], Due(c), call[c], request[c])

\* The inductive invariant of MirrorAgrees and ScreenAgrees, with SessionInv.
MirrorInv ==
  TranscriptInv /\ \A c \in Clients : OrderInv(c) /\ KindInv(c) /\ ViewInv(c)

-----------------------------------------------------------------------------
(* The order is kept                                                       *)

LEMMA OrderGrows ==
  ASSUME NEW held \in Seq(Events), NEW box \in Seq(Messages), NEW ans, NEW n \in Nat,
         InOrder(held, box, ans), NEW x \in Messages, NEW more, more = Append(box, x),
         \A y \in Elements(held) \cup Elements(box) \cup {ans} : Number(y) \in Nat /\ Number(y) <= n,
         IsEvent(x) => x.seq > n, x.kind = "reply" => Number(x) >= n
  PROVE  InOrder(held, more, ans)
<1>1. /\ Len(more) = Len(box) + 1 /\ Len(box) \in Nat /\ more[Len(box) + 1] = x
      /\ \A i \in 1..Len(box) : more[i] = box[i] /\ more[i] \in Elements(box)
  BY DEF Elements
<1>2. Elements(more) = Elements(box) \cup {x}
  BY ElementsOfAppend
<1>3. \A e \in Elements(held) : e.seq = Number(e)
  BY ElementsAreTyped, EventShape
<1>4. IsEvent(x) => x.seq \in Nat
  BY MessageShape, EventShape
<1>5. \A i \in 1..Len(more) : i \in 1..Len(box) \/ i = Len(box) + 1
  BY <1>1
<1>6. ASSUME NEW i \in 1..Len(more), NEW j \in 1..Len(more), i < j
      PROVE  /\ IsEvent(more[j]) => Number(more[i]) < more[j].seq
             /\ more[j].kind = "reply" => Number(more[i]) <= Number(more[j])
  <2>1. i \in 1..Len(box)
    BY <1>1, <1>5, <1>6
  <2>2. CASE j \in 1..Len(box)
    BY <1>1, <1>6, <2>1, <2>2 DEF InOrder
  <2>3. CASE j = Len(box) + 1
    <3>1. Number(more[i]) \in Nat /\ Number(more[i]) <= n /\ more[j] = x
      BY <1>1, <2>1, <2>3
    <3>2. Number(x) \in Nat
      BY MessageShape
    <3>3. QED
      BY <1>4, <3>1, <3>2
  <2>4. QED
    BY <1>5, <2>2, <2>3
<1>7. \A e \in Elements(held), f \in Elements(more) : IsEvent(f) => e.seq < f.seq
  BY <1>2, <1>3, <1>4 DEF InOrder
<1>8. ans # NoAnswer => \A f \in Elements(more) : IsEvent(f) => Number(ans) < f.seq
  BY <1>2, <1>4 DEF InOrder
<1>9. \A i, j \in 1..Len(held) : i < j => held[i].seq < held[j].seq
  BY DEF InOrder
<1>10. QED
  BY <1>6, <1>7, <1>8, <1>9 DEF InOrder

\* The first message of a box, and what is behind it.
LEMMA OrderOfTail ==
  ASSUME NEW held, NEW box \in Seq(Messages), box # <<>>, NEW ans, InOrder(held, box, ans),
         NEW x, x = Head(box), NEW rest, rest = Tail(box)
  PROVE  /\ InOrder(held, rest, ans)
         /\ \A f \in Elements(rest) : /\ IsEvent(f) => Number(x) < f.seq
                                      /\ f.kind = "reply" => Number(x) <= Number(f)
<1>1. /\ Elements(box) = {x} \cup Elements(rest)
      /\ Len(rest) = Len(box) - 1 /\ Len(box) \in Nat \ {0} /\ x = box[1]
      /\ \A i \in 1..Len(rest) : i + 1 \in 1..Len(box) /\ rest[i] = box[i + 1]
  BY ElementsOfTail
<1>2. \A i, j \in 1..Len(rest) : i < j =>
        /\ IsEvent(rest[j]) => Number(rest[i]) < rest[j].seq
        /\ rest[j].kind = "reply" => Number(rest[i]) <= Number(rest[j])
  <2>1. SUFFICES ASSUME NEW i \in 1..Len(rest), NEW j \in 1..Len(rest), i < j
                 PROVE  /\ IsEvent(rest[j]) => Number(rest[i]) < rest[j].seq
                        /\ rest[j].kind = "reply" => Number(rest[i]) <= Number(rest[j])
    OBVIOUS
  <2>2. i + 1 < j + 1 /\ i + 1 \in 1..Len(box) /\ j + 1 \in 1..Len(box)
    BY <1>1, <2>1
  <2>3. QED
    BY <1>1, <2>2 DEF InOrder
<1>3. ASSUME NEW f \in Elements(rest)
      PROVE  /\ IsEvent(f) => Number(x) < f.seq
             /\ f.kind = "reply" => Number(x) <= Number(f)
  <2>1. PICK i \in 1..Len(rest) : f = rest[i]
    BY DEF Elements
  <2>2. 1 < i + 1 /\ 1 \in 1..Len(box) /\ i + 1 \in 1..Len(box) /\ f = box[i + 1]
    BY <1>1, <2>1
  <2>3. QED
    BY <1>1, <2>2 DEF InOrder
<1>4. InOrder(held, rest, ans)
  BY <1>1, <1>2 DEF InOrder
<1>5. QED
  BY <1>3, <1>4

LEMMA OrderWhenHeld ==
  ASSUME NEW held \in Seq(Events), NEW box, NEW ans, InOrder(held, box, ans), NEW e \in Events,
         \A f \in Elements(held) : f.seq < e.seq,
         \A f \in Elements(box) : IsEvent(f) => e.seq < f.seq,
         NEW more, more = Append(held, e)
  PROVE  InOrder(more, box, ans)
<1>1. /\ Len(more) = Len(held) + 1 /\ Len(held) \in Nat /\ more[Len(held) + 1] = e
      /\ \A i \in 1..Len(held) : more[i] = held[i] /\ more[i] \in Elements(held)
      /\ Elements(more) = Elements(held) \cup {e}
  BY ElementsOfAppend DEF Elements
<1>2. ASSUME NEW i \in 1..Len(more), NEW j \in 1..Len(more), i < j
      PROVE  more[i].seq < more[j].seq
  <2>1. i \in 1..Len(held)
    BY <1>1, <1>2
  <2>2. CASE j \in 1..Len(held)
    BY <1>1, <1>2, <2>1, <2>2 DEF InOrder
  <2>3. CASE j = Len(held) + 1
    BY <1>1, <2>1, <2>3
  <2>4. QED
    BY <1>1, <2>2, <2>3
<1>3. QED
  BY <1>1, <1>2 DEF InOrder

LEMMA OrderWhenDrained ==
  ASSUME NEW held \in Seq(Events), held # <<>>, NEW box, NEW ans, InOrder(held, box, ans),
         NEW e, e = Head(held), NEW rest, rest = Tail(held)
  PROVE  /\ InOrder(rest, box, ans)
         /\ \A f \in Elements(rest) : e.seq < f.seq
         /\ \A f \in Elements(box) : IsEvent(f) => e.seq < f.seq
<1>1. /\ Elements(held) = {e} \cup Elements(rest)
      /\ Len(rest) = Len(held) - 1 /\ Len(held) \in Nat \ {0} /\ e = held[1]
      /\ \A i \in 1..Len(rest) : i + 1 \in 1..Len(held) /\ rest[i] = held[i + 1]
  BY ElementsOfTail
<1>2. ASSUME NEW i \in 1..Len(rest), NEW j \in 1..Len(rest), i < j
      PROVE  rest[i].seq < rest[j].seq
  <2>1. i + 1 < j + 1 /\ i + 1 \in 1..Len(held) /\ j + 1 \in 1..Len(held)
    BY <1>1, <1>2
  <2>2. QED
    BY <1>1, <2>1 DEF InOrder
<1>3. ASSUME NEW f \in Elements(rest)
      PROVE  e.seq < f.seq
  <2>1. PICK i \in 1..Len(rest) : f = rest[i]
    BY DEF Elements
  <2>2. 1 < i + 1 /\ 1 \in 1..Len(held) /\ i + 1 \in 1..Len(held) /\ f = held[i + 1]
    BY <1>1, <2>1
  <2>3. QED
    BY <1>1, <2>2 DEF InOrder
<1>4. QED
  BY <1>1, <1>2, <1>3 DEF InOrder

\* Fewer messages are in order too.
LEMMA OrderOfLess ==
  ASSUME NEW held, NEW box, NEW ans, InOrder(held, box, ans)
  PROVE  /\ InOrder(held, box, NoAnswer) /\ InOrder(<<>>, box, ans)
         /\ InOrder(held, <<>>, ans) /\ InOrder(<<>>, <<>>, ans)
  BY NothingIsEmpty DEF InOrder

-----------------------------------------------------------------------------
(* What the steps of the broker do to a view                               *)

LEMMA ExitDueGrows ==
  ASSUME NEW due, NEW x, NEW more, more = due \cup {x}
  PROVE  \A n : /\ ExitDue(due, n) => ExitDue(more, n)
                /\ x.kind # "exit" /\ ExitDue(more, n) => ExitDue(due, n)
  BY DEF ExitDue

LEMMA NothingNewer ==
  ASSUME NEW n \in Nat, NEW m \in Mirrors, NEW due \in Dues, Within(n, m, due)
  PROVE  /\ ~ExitDue(due, n)
         /\ \A x \in due : /\ IsEvent(x) => x.seq \in Nat /\ x.seq <= n
                           /\ x.kind = "reply" => x.state.seq \in Nat /\ x.state.seq <= n
                           /\ x.kind = "output" \/ x.kind = "exit" => IsEvent(x)
         /\ m.applied \in Nat /\ m.applied <= n
<1>1. ASSUME NEW x \in due
      PROVE  /\ IsEvent(x) => x.seq \in Nat /\ x.seq <= n
             /\ x.kind = "reply" => x.state.seq \in Nat /\ x.state.seq <= n
             /\ x.kind = "output" \/ x.kind = "exit" => IsEvent(x)
  <2>1. Number(x) \in Nat /\ Number(x) <= n
    BY DueShape DEF Within
  <2>2. IsEvent(x) <=> x.kind = "output" \/ x.kind = "exit"
    BY DEF IsEvent
  <2>3. QED
    BY <2>1, <2>2, DueShape DEF Number
<1>2. m.applied \in Nat /\ m.applied <= n
  BY DEF Mirrors, Within
<1>3. QED
  BY <1>1, <1>2 DEF ExitDue

\* The broker changes, and nobody is told: the run is the same, and its transcript as long as
\* there is a screen; or there was none, and one starts.
Moved(b, c, at, asked) ==
  /\ b.runs <= c.runs
  /\ \/ c.pty = b.pty /\ (b.pty # 0 /\ c.terminal => b.terminal /\ c.transcript = b.transcript)
     \/ b.pty = 0 /\ c.pty > b.runs /\ at # "check" /\ asked # "start"

LEMMA MovedKeepsView ==
  ASSUME NEW b \in Brokers, NEW c \in Brokers, NEW m \in Mirrors, NEW due \in Dues, NEW at,
         NEW asked, Moved(b, c, at, asked), Tells(b, due)
  PROVE  /\ Tells(c, due)
         /\ Shown(b, m, due, at, asked) => Shown(c, m, due, at, asked)
<1>1. b.runs \in Nat /\ c.runs \in Nat /\ b.pty \in Nat /\ c.pty \in Nat
  BY MaxRunsAssumption DEF Brokers, Runs
<1>2. \A e \in due : e.kind = "output" => e.output[1] \in Nat
  BY DueShape, EventShape, MaxRunsAssumption DEF Outputs, Runs
<1>3. Tells(c, due)
  <2>1. SUFFICES ASSUME NEW e \in due, e.kind = "output"
                 PROVE  /\ 0 < e.output[1] /\ e.output[1] <= c.runs
                        /\ e.output[1] = c.pty /\ c.terminal =>
                             e.output[2] <= Len(c.transcript)
                        /\ e.output[1] # c.pty => ExitDue(due, e.seq)
    BY DEF Tells
  <2>2. /\ 0 < e.output[1] /\ e.output[1] <= b.runs /\ e.output[1] \in Nat
        /\ e.output[1] = b.pty /\ b.terminal => e.output[2] <= Len(b.transcript)
        /\ e.output[1] # b.pty => ExitDue(due, e.seq)
    BY <1>2, <2>1 DEF Tells
  <2>3. QED
    BY <1>1, <2>2 DEF Moved
<1>4. \A screen, n : Good(b, screen, due, n) => Good(c, screen, due, n)
  BY DEF Good, Moved
<1>5. at = "check" \/ asked = "start" => \A n : Ended(b, due, n) => Ended(c, due, n)
  BY DEF Ended, Moved
<1>6. ASSUME NEW x \in due, ReplyShows(b, m, due, at, x)
      PROVE  ReplyShows(c, m, due, at, x)
  BY <1>4, <1>5, <1>6 DEF ReplyShows
<1>7. QED
  BY <1>3, <1>4, <1>5, <1>6 DEF Shown

\* The PTY writes e.
LEMMA OutputKeepsView ==
  ASSUME NEW b \in Brokers, NEW c \in Brokers, NEW m \in Mirrors, NEW due \in Dues, NEW at,
         NEW asked, NEW e \in Events, NEW more \in Dues, more = due \cup {e},
         Within(b.seq, m, due), b.pty # 0, b.terminal, b.pty <= b.runs,
         c.pty = b.pty, c.runs = b.runs, c.terminal = b.terminal,
         Len(c.transcript) = Len(b.transcript) + 1,
         e.kind = "output", e.seq = b.seq + 1, e.output = <<b.pty, Len(b.transcript) + 1>>,
         Tells(b, due)
  PROVE  /\ Tells(c, more)
         /\ Shown(b, m, due, at, asked) => Shown(c, m, more, at, asked)
         /\ Known(m, due, at, asked) => Known(m, more, at, asked)
<1>1. /\ b.seq \in Nat /\ b.pty \in Nat /\ Len(b.transcript) \in Nat /\ IsEvent(e)
      /\ e.output[1] = b.pty /\ e.output[2] = Len(b.transcript) + 1 /\ ~TellsRunning(NoAnswer)
  BY MaxRunsAssumption, EventShape DEF Brokers, Runs, TellsRunning, NoAnswer
<1>2. \A n : ExitDue(due, n) <=> ExitDue(more, n)
  BY ExitDueGrows
<1>3. /\ \A x \in due : /\ IsEvent(x) => x.seq \in Nat /\ x.seq <= b.seq
                        /\ x.kind = "reply" => x.state.seq \in Nat /\ x.state.seq <= b.seq
                        /\ x.kind = "output" \/ x.kind = "exit" => IsEvent(x)
      /\ m.applied \in Nat /\ m.applied <= b.seq
  BY <1>1, NothingNewer
<1>4. \A f \in due : f.kind = "output" => f.output[1] \in Nat /\ f.output[2] \in Nat
  BY DueShape, EventShape, MaxRunsAssumption DEF Outputs, Runs
<1>5. Tells(c, more)
  <2>1. SUFFICES ASSUME NEW f \in more, f.kind = "output"
                 PROVE  /\ 0 < f.output[1] /\ f.output[1] <= c.runs
                        /\ f.output[1] = c.pty /\ c.terminal =>
                             f.output[2] <= Len(c.transcript)
                        /\ f.output[1] # c.pty => ExitDue(more, f.seq)
                        /\ \A g \in more : g.kind = "output" /\ f.seq < g.seq
                                           /\ f.output[1] = g.output[1] =>
                             f.output[2] < g.output[2]
    BY DEF Tells
  <2>2. CASE f = e
    BY <1>1, <1>3, <2>2
  <2>3. CASE f \in due
    <3>1. /\ 0 < f.output[1] /\ f.output[1] <= b.runs
          /\ f.output[1] = b.pty => f.output[2] <= Len(b.transcript)
          /\ f.output[1] # b.pty => ExitDue(due, f.seq)
          /\ \A g \in due : g.kind = "output" /\ f.seq < g.seq /\ f.output[1] = g.output[1] =>
               f.output[2] < g.output[2]
      BY <2>1, <2>3 DEF Tells
    <3>2. f.output[2] \in Nat
      BY <1>4, <2>1, <2>3
    <3>3. f.output[1] = c.pty => f.output[2] <= Len(b.transcript)
      BY <3>1
    <3>4. ASSUME NEW g \in more, g.kind = "output", f.seq < g.seq, f.output[1] = g.output[1]
          PROVE  f.output[2] < g.output[2]
      <4>1. CASE g \in due
        BY <3>1, <3>4, <4>1
      <4>2. CASE g = e
        BY <1>1, <3>2, <3>3, <3>4, <4>2
      <4>3. QED
        BY <3>4, <4>1, <4>2
    <3>5. /\ 0 < f.output[1] /\ f.output[1] <= c.runs
          /\ f.output[1] # c.pty => ExitDue(more, f.seq)
      BY <1>2, <3>1
    <3>6. f.output[1] = c.pty /\ c.terminal => f.output[2] <= Len(c.transcript)
      BY <1>1, <3>2, <3>3
    <3>7. QED
      BY <3>4, <3>5, <3>6
  <2>4. QED
    BY <2>2, <2>3
<1>6. ASSUME NEW screen, NEW n \in Nat, n <= b.seq, Len(screen) \in Nat, Good(b, screen, due, n)
      PROVE  Good(c, screen, more, n)
  <2>1. /\ screen # NoScreen /\ Len(screen) <= Len(b.transcript)
        /\ \A i \in 1..Len(screen) : screen[i] = <<b.pty, i>>
        /\ \A f \in due : f.kind = "output" /\ f.seq > n /\ f.output[1] = b.pty =>
             f.output[2] > Len(screen)
        /\ \A j \in (Len(screen) + 1)..Len(b.transcript) :
             \E f \in due : f.kind = "output" /\ f.seq > n /\ f.output = <<b.pty, j>>
    BY <1>6 DEF Good
  <2>2. \A f \in more : f.kind = "output" /\ f.seq > n /\ f.output[1] = c.pty =>
          f.output[2] > Len(screen)
    BY <1>1, <1>6, <2>1
  <2>3. \A j \in (Len(screen) + 1)..Len(c.transcript) :
          \E f \in more : f.kind = "output" /\ f.seq > n /\ f.output = <<c.pty, j>>
    <3>1. TAKE j \in (Len(screen) + 1)..Len(c.transcript)
    <3>2. CASE j = Len(b.transcript) + 1
      BY <1>1, <1>6, <3>2
    <3>3. CASE j \in (Len(screen) + 1)..Len(b.transcript)
      BY <2>1, <3>3
    <3>4. QED
      BY <1>1, <1>6, <3>1, <3>2, <3>3
  <2>4. /\ c.pty # 0 /\ screen # NoScreen /\ Len(screen) <= Len(c.transcript)
        /\ \A i \in 1..Len(screen) : screen[i] = <<c.pty, i>>
    BY <1>1, <1>6, <2>1
  <2>5. QED
    BY <2>2, <2>3, <2>4 DEF Good
<1>7. \A n : ~Ended(b, due, n)
  BY DEF Ended
<1>8. ASSUME NEW x \in due, x.kind = "reply", ReplyShows(b, m, due, at, x)
      PROVE  ReplyShows(c, m, more, at, x)
  <2>1. x.state.seq \in Nat /\ x.state.seq <= b.seq /\ Len(x.state.transcript) \in Nat
    BY <1>3, <1>8, AnswerShape, DueShape DEF States
  <2>2. Len(m.screen) \in Nat
    BY DEF Mirrors, NoScreen
  <2>3. x.state.running /\ x.state.seq >= m.applied =>
          \/ ExitDue(more, x.state.seq)
          \/ /\ at \in {"attach", "check", "stop"} =>
                  Good(c, x.state.transcript, more, x.state.seq)
             /\ at = "start" => Good(c, m.screen, more, x.state.seq)
    BY <1>2, <1>6, <1>8, <2>1, <2>2 DEF ReplyShows
  <2>4. at = "check" =>
          /\ x.state.running
          /\ \A f \in more : f.kind = "exit" => ~(f.seq > x.state.seq)
          /\ x.state.seq < m.applied => ExitDue(more, x.state.seq)
    BY <1>2, <1>7, <1>8 DEF ReplyShows
  <2>5. at = "start" =>
          \A f \in more : IsEvent(f) => f.seq <= m.applied \/ f.seq > x.state.seq
    BY <1>1, <1>8, <2>1 DEF ReplyShows
  <2>6. QED
    BY <1>8, <2>3, <2>4, <2>5 DEF ReplyShows
<1>9. Shown(b, m, due, at, asked) => Shown(c, m, more, at, asked)
  <2>1. SUFFICES ASSUME Shown(b, m, due, at, asked)
                 PROVE  Shown(c, m, more, at, asked)
    OBVIOUS
  <2>2. Len(m.screen) \in Nat
    BY DEF Mirrors, NoScreen
  <2>3. asked # "start"
    BY <1>7, <2>1 DEF Shown
  <2>4. \A x \in more : x.kind = "reply" => ReplyShows(c, m, more, at, x)
    BY <1>8, <2>1 DEF Shown
  <2>5. Corrected(m, due, asked = "snapshot") => Corrected(m, more, asked = "snapshot")
    BY DEF Corrected
  <2>6. QED
    BY <1>2, <1>3, <1>6, <2>1, <2>2, <2>3, <2>4, <2>5 DEF Shown
<1>10. Known(m, due, at, asked) => Known(m, more, at, asked)
  BY <1>2 DEF Known
<1>11. QED
  BY <1>5, <1>9, <1>10

\* The PTY exits, and e tells of it.
LEMMA ExitKeepsView ==
  ASSUME NEW b \in Brokers, NEW c \in Brokers, NEW m \in Mirrors, NEW due \in Dues, NEW at,
         NEW asked, NEW e \in Events, NEW more \in Dues, more = due \cup {e},
         Within(b.seq, m, due), b.pty # 0, c.pty = 0, c.runs = b.runs,
         e.kind = "exit", e.seq = b.seq + 1, Tells(b, due)
  PROVE  /\ Tells(c, more)
         /\ Shown(b, m, due, at, asked) => Shown(c, m, more, at, asked)
<1>1. b.seq \in Nat /\ IsEvent(e)
  BY EventShape DEF Brokers
<1>2. /\ \A x \in due : /\ IsEvent(x) => x.seq \in Nat /\ x.seq <= b.seq
                        /\ x.kind = "reply" => x.state.seq \in Nat /\ x.state.seq <= b.seq
                        /\ x.kind = "output" \/ x.kind = "exit" => IsEvent(x)
      /\ m.applied \in Nat /\ m.applied <= b.seq
  BY <1>1, NothingNewer
<1>3. \A n \in Nat : n <= b.seq => ExitDue(more, n)
  BY <1>1 DEF ExitDue
<1>4. Tells(c, more)
  <2>1. SUFFICES ASSUME NEW f \in more, f.kind = "output"
                 PROVE  /\ 0 < f.output[1] /\ f.output[1] <= c.runs
                        /\ f.output[1] # c.pty /\ ExitDue(more, f.seq)
                        /\ \A g \in more : g.kind = "output" /\ f.seq < g.seq
                                           /\ f.output[1] = g.output[1] =>
                             f.output[2] < g.output[2]
    BY DEF Tells
  <2>2. f \in due /\ f.seq \in Nat /\ f.seq <= b.seq
    BY <1>2, <2>1
  <2>3. f.output[1] \in Nat
    BY <2>1, <2>2, DueShape, EventShape, MaxRunsAssumption DEF Outputs, Runs
  <2>4. /\ 0 < f.output[1] /\ f.output[1] <= c.runs
        /\ \A g \in due : g.kind = "output" /\ f.seq < g.seq /\ f.output[1] = g.output[1] =>
             f.output[2] < g.output[2]
    BY <2>1, <2>2 DEF Tells
  <2>5. \A g \in more : g.kind = "output" => g \in due
    OBVIOUS
  <2>6. ExitDue(more, f.seq)
    BY <1>3, <2>2
  <2>7. f.output[1] # 0
    BY <2>3, <2>4
  <2>8. QED
    BY <2>4, <2>5, <2>6, <2>7
<1>5. \A n : ~Ended(b, due, n)
  BY DEF Ended
<1>6. Ended(c, more, e.seq)
  BY <1>1, <1>2 DEF Ended
<1>7. ASSUME NEW x \in due, x.kind = "reply", ReplyShows(b, m, due, at, x)
      PROVE  ReplyShows(c, m, more, at, x)
  <2>1. x.state.seq \in Nat /\ x.state.seq <= b.seq
    BY <1>2, <1>7
  <2>2. ExitDue(more, x.state.seq)
    BY <1>3, <2>1
  <2>3. at = "check" =>
          /\ x.state.running
          /\ \A f \in more : f.kind = "exit" /\ f.seq > x.state.seq => Ended(c, more, f.seq)
    BY <1>5, <1>6, <1>7 DEF ReplyShows
  <2>4. at = "start" =>
          \A f \in more : IsEvent(f) => f.seq <= m.applied \/ f.seq > x.state.seq
    BY <1>1, <1>7, <2>1 DEF ReplyShows
  <2>5. QED
    BY <1>7, <2>2, <2>3, <2>4 DEF ReplyShows
<1>8. Shown(b, m, due, at, asked) => Shown(c, m, more, at, asked)
  <2>1. SUFFICES ASSUME Shown(b, m, due, at, asked)
                 PROVE  Shown(c, m, more, at, asked)
    OBVIOUS
  <2>2. asked # "start"
    BY <1>5, <2>1 DEF Shown
  <2>3. \A x \in more : x.kind = "reply" => ReplyShows(c, m, more, at, x)
    BY <1>7, <2>1 DEF Shown
  <2>4. ExitDue(more, m.applied)
    BY <1>2, <1>3
  <2>5. QED
    BY <2>2, <2>3, <2>4 DEF Shown
<1>9. QED
  BY <1>4, <1>8

\* The state of a broker in a reply.
LEMMA ReplyShape ==
  ASSUME NEW b \in Brokers, NEW x, x = Reply(b)
  PROVE  /\ x \in Answers /\ x.kind = "reply" /\ ~IsEvent(x)
         /\ x.state.seq = b.seq /\ b.seq \in Nat /\ x.state.transcript = b.transcript
         /\ x.state.running <=> b.pty # 0
         /\ x.state.running => x.state.session
<1>1. x \in Answers /\ x.kind = "reply" /\ x.state.seq = b.seq /\ b.seq \in Nat
  BY ReplyTyped
<1>2. PICK s : s = Snapshot(b)
  OBVIOUS
<1>3. x.state = s
  BY <1>2 DEF Reply
<1>4. s.transcript = b.transcript
  BY <1>2 DEF Snapshot
<1>5. s.running = (b.pty # 0)
  BY <1>2 DEF Snapshot
<1>6. s.session = (b.pty # 0 \/ b.lastExit # 0 \/ b.transcript # <<>>)
  BY <1>2 DEF Snapshot
<1>7. s.running => s.session
  BY <1>5, <1>6
<1>8. QED
  BY <1>1, <1>3, <1>4, <1>5, <1>7 DEF IsEvent

\* The snapshot a client has asked for comes, whatever it has shown before.
LEMMA SnapshotComes ==
  ASSUME NEW b \in Brokers, NEW m \in Mirrors, NEW due \in Dues, NEW at \in {"attach", "check"},
         at = "attach" => ~m.running, NEW x \in Answers, x = Reply(b),
         NEW more \in Dues, more = due \cup {x}, \A y \in due : y.kind # "reply",
         Within(b.seq, m, due), Tells(b, due),
         b.pty # 0 /\ b.terminal =>
           \A i \in 1..Len(b.transcript) : b.transcript[i] = <<b.pty, i>>
  PROVE  /\ Tells(b, more) /\ Shown(b, m, more, at, "none")
         /\ b.pty # 0 => Known(m, more, at, "none")
<1>1. x.kind = "reply" /\ b.seq \in Nat /\ ~IsEvent(x)
  BY ReplyShape
<1>2. /\ x.state.seq = b.seq /\ x.state.transcript = b.transcript
      /\ x.state.running <=> b.pty # 0
      /\ x.state.running => x.state.session
  BY ReplyShape
<1>3. /\ ~ExitDue(due, b.seq)
      /\ \A y \in due : /\ IsEvent(y) => y.seq \in Nat /\ y.seq <= b.seq
                        /\ y.kind = "output" \/ y.kind = "exit" => IsEvent(y)
      /\ m.applied \in Nat /\ m.applied <= b.seq
  BY <1>1, NothingNewer
<1>4. \A n : ExitDue(more, n) <=> ExitDue(due, n)
  BY <1>1, ExitDueGrows
<1>5. Tells(b, more)
  BY <1>1, <1>4 DEF Tells
<1>6. \A y \in more : /\ IsEvent(y) => y.seq \in Nat /\ y.seq <= b.seq
                      /\ y.kind = "output" \/ y.kind = "exit" => y.seq \in Nat /\ y.seq <= b.seq
  BY <1>1, <1>3
<1>7. b.pty # 0 => Good(b, b.transcript, more, b.seq)
  <2>1. SUFFICES ASSUME b.pty # 0, b.terminal
                 PROVE  /\ b.transcript # NoScreen
                        /\ \A e \in more : e.kind = "output" => ~(e.seq > b.seq)
                        /\ Len(b.transcript) \in Nat
    BY DEF Good
  <2>2. Len(b.transcript) \in Nat
    BY DEF Brokers
  <2>3. b.transcript # NoScreen
    <3>1. SUFFICES ASSUME b.transcript = NoScreen
                   PROVE  FALSE
      OBVIOUS
    <3>2. Len(b.transcript) = 1 /\ b.transcript[1] = <<0, 0>>
      BY <3>1 DEF NoScreen
    <3>3. b.transcript[1] = <<b.pty, 1>>
      BY <2>1, <3>2
    <3>4. QED
      BY <2>1, <3>2, <3>3
  <2>4. QED
    BY <1>1, <1>6, <2>2, <2>3
<1>8. ~x.state.running => Ended(b, more, x.state.seq)
  BY <1>2, <1>6 DEF Ended
<1>9. \A e \in more : e.kind = "exit" => ~(e.seq > x.state.seq)
  BY <1>1, <1>2, <1>6
<1>10. ReplyShows(b, m, more, at, x)
  BY <1>1, <1>2, <1>3, <1>7, <1>8, <1>9 DEF ReplyShows
<1>11. Corrected(m, more, FALSE)
  BY <1>1, <1>2, <1>3 DEF Corrected
<1>12. Shown(b, m, more, at, "none")
  BY <1>10, <1>11 DEF Shown
<1>13. b.pty # 0 => Known(m, more, at, "none")
  BY <1>1, <1>2, <1>3, <1>4 DEF Known
<1>14. QED
  BY <1>5, <1>12, <1>13

\* An answer that comes to a call which waits for it, and finds the view as it was.
LEMMA StopReplyComes ==
  ASSUME NEW b \in Brokers, NEW m \in Mirrors, NEW due \in Dues, NEW at \in {"stop", "dispose"},
         NEW x \in Answers, x = Reply(b),
         NEW more \in Dues, more = due \cup {x}, \A y \in due : y.kind # "reply",
         Within(b.seq, m, due), Tells(b, due),
         b.pty # 0 /\ b.terminal =>
           \A i \in 1..Len(b.transcript) : b.transcript[i] = <<b.pty, i>>
  PROVE  /\ Tells(b, more)
         /\ Shown(b, m, due, at, "none") => Shown(b, m, more, at, "none")
         /\ b.pty # 0 /\ Known(m, due, at, "none") => Known(m, more, at, "none")
<1>1. x.kind = "reply" /\ b.seq \in Nat /\ ~IsEvent(x)
  BY ReplyShape
<1>2. /\ x.state.seq = b.seq /\ x.state.transcript = b.transcript
      /\ x.state.running <=> b.pty # 0
      /\ x.state.running => x.state.session
  BY ReplyShape
<1>3. \A n : ExitDue(more, n) <=> ExitDue(due, n)
  BY <1>1, ExitDueGrows
<1>4. \A screen, n : Good(b, screen, due, n) => Good(b, screen, more, n)
  BY <1>1 DEF Good
<1>5. /\ Tells(b, more) /\ Shown(b, m, more, "check", "none")
  BY <1>1, SnapshotComes
<1>6. ReplyShows(b, m, more, at, x)
  BY <1>1, <1>5 DEF Shown, ReplyShows
<1>7. Shown(b, m, due, at, "none") => Shown(b, m, more, at, "none")
  BY <1>3, <1>4, <1>6 DEF Shown
<1>8. b.pty # 0 /\ Known(m, due, at, "none") => Known(m, more, at, "none")
  BY <1>2, <1>3 DEF Known
<1>9. QED
  BY <1>5, <1>7, <1>8

\* The run that start() asked for is live.
LEMMA StartReplyComes ==
  ASSUME NEW b \in Brokers, NEW c \in Brokers, NEW m \in Mirrors, NEW due \in Dues,
         NEW x \in Answers, x = Reply(c), NEW more \in Dues, more = due \cup {x},
         \A y \in due : y.kind # "reply", Within(b.seq, m, due), Tells(b, due),
         b.pty = 0, c.pty > b.runs, c.runs >= c.pty, c.seq = b.seq + 1, c.transcript = <<>>
  PROVE  /\ Tells(c, more) /\ Known(m, more, "start", "none")
         /\ Shown(b, m, due, "start", "start") => Shown(c, m, more, "start", "none")
<1>1. /\ x.kind = "reply" /\ c.seq \in Nat /\ b.seq \in Nat
      /\ ~IsEvent(x) /\ b.runs \in Nat /\ c.pty \in Nat /\ c.runs \in Nat
  BY MaxRunsAssumption, ReplyShape DEF Brokers, Runs
<1>2. /\ x.state.seq = c.seq /\ x.state.running /\ x.state.session /\ c.pty # 0
  <2>1. c.pty # 0
    BY <1>1
  <2>2. QED
    BY <2>1, ReplyShape
<1>3. /\ \A y \in due : /\ IsEvent(y) => y.seq \in Nat /\ y.seq <= b.seq
                        /\ y.kind = "output" \/ y.kind = "exit" => IsEvent(y)
      /\ m.applied \in Nat /\ m.applied <= b.seq
  BY <1>1, NothingNewer
<1>4. \A n : ExitDue(more, n) <=> ExitDue(due, n)
  BY <1>1, ExitDueGrows
<1>5. Tells(c, more)
  <2>1. Moved(b, c, "start", "none")
    BY <1>1 DEF Moved
  <2>2. Tells(c, due)
    BY <2>1, MovedKeepsView
  <2>3. QED
    BY <1>1, <1>4, <2>2 DEF Tells
<1>6. Known(m, more, "start", "none")
  <2>1. ~ExitDue(more, x.state.seq)
    BY <1>1, <1>2, <1>3, <1>4 DEF ExitDue
  <2>2. QED
    BY <1>1, <1>2, <1>3, <2>1 DEF Known
<1>7. ASSUME Shown(b, m, due, "start", "start")
      PROVE  Shown(c, m, more, "start", "none")
  <2>1. /\ \A f \in due : IsEvent(f) => f.seq <= m.applied
        /\ m.screen = <<>> /\ ~m.running
    BY <1>7 DEF Shown, Ended
  <2>2. \A f \in more : f.kind = "output" => ~(f.seq > x.state.seq)
    BY <1>1, <1>2, <1>3
  <2>3. Good(c, m.screen, more, x.state.seq)
    <3>1. m.screen # NoScreen /\ Len(m.screen) = 0 /\ Len(c.transcript) = 0
      BY <2>1 DEF NoScreen
    <3>2. QED
      BY <1>2, <2>2, <3>1 DEF Good
  <2>4. ReplyShows(c, m, more, "start", x)
    BY <1>1, <1>2, <2>1, <2>3 DEF ReplyShows
  <2>5. QED
    BY <2>1, <2>4 DEF Shown
<1>8. QED
  BY <1>5, <1>6, <1>7

\* A request is refused.
LEMMA RefusalComes ==
  ASSUME NEW b, NEW m, NEW due, NEW at, NEW asked, asked # "snapshot",
         NEW more, more = due \cup {Refusal}
  PROVE  /\ Tells(b, due) => Tells(b, more)
         /\ Shown(b, m, due, at, asked) => Shown(b, m, more, at, "none")
         /\ Known(m, due, at, asked) => Known(m, more, at, "none")
<1>1. Refusal.kind = "refusal" /\ ~IsEvent(Refusal)
  BY DEF Refusal, IsEvent
<1>2. \A n : ExitDue(more, n) <=> ExitDue(due, n)
  BY <1>1, ExitDueGrows
<1>3. \A screen, n : Good(b, screen, due, n) => Good(b, screen, more, n)
  BY <1>1 DEF Good
<1>4. \A n : Ended(b, due, n) => Ended(b, more, n)
  BY <1>1 DEF Ended
<1>5. ASSUME NEW x, ReplyShows(b, m, due, at, x)
      PROVE  ReplyShows(b, m, more, at, x)
  BY <1>1, <1>2, <1>3, <1>4, <1>5 DEF ReplyShows
<1>6. Tells(b, due) => Tells(b, more)
  BY <1>1, <1>2 DEF Tells
<1>7. Shown(b, m, due, at, asked) => Shown(b, m, more, at, "none")
  <2>1. Corrected(m, due, asked = "snapshot") => Corrected(m, more, FALSE)
    BY DEF Corrected
  <2>2. \A x \in more : x.kind = "reply" => x \in due
    BY <1>1
  <2>3. QED
    BY <1>2, <1>3, <1>5, <2>1, <2>2 DEF Shown
<1>8. Known(m, due, at, asked) => Known(m, more, at, "none")
  BY <1>1, <1>2 DEF Known
<1>9. QED
  BY <1>6, <1>7, <1>8

-----------------------------------------------------------------------------
(* What an event does to a view                                            *)

\* r is the mirror m after the event e.
Sees(r, m, e) ==
  /\ e.seq <= m.applied =>
       r.applied = m.applied /\ r.running = m.running /\ r.screen = m.screen /\ r.exit = m.exit
  /\ e.seq > m.applied => r.applied = e.seq
  /\ e.seq > m.applied /\ e.kind = "output" =>
       /\ r.running = m.running /\ r.exit = m.exit
       /\ r.screen = IF m.screen = NoScreen THEN m.screen ELSE Append(m.screen, e.output)
  /\ e.seq > m.applied /\ e.kind = "exit" => ~r.running /\ r.screen = m.screen

LEMMA EventIsSeen ==
  ASSUME NEW m \in Mirrors, NEW e \in Events, NEW r, r = ApplyEvent(m, e)
  PROVE  Sees(r, m, e)
<1>1. m.applied \in Nat /\ e.seq \in Nat /\ (e.kind = "output" \/ e.kind = "exit")
  BY EventShape DEF Mirrors
<1>2. CASE e.seq <= m.applied
  BY <1>1, <1>2 DEF ApplyEvent, Sees
<1>3. CASE e.seq > m.applied /\ e.kind = "output"
  <2>1. PICK screen : screen = IF m.screen = NoScreen THEN m.screen ELSE Append(m.screen, e.output)
    OBVIOUS
  <2>2. r = [m EXCEPT !.applied = e.seq, !.screen = screen]
    BY <1>1, <1>3, <2>1 DEF ApplyEvent
  <2>3. /\ r.applied = e.seq /\ r.running = m.running /\ r.exit = m.exit
        /\ r.screen = screen
    BY <2>2 DEF Mirrors
  <2>4. QED
    BY <1>1, <1>3, <2>1, <2>3 DEF Sees
<1>4. CASE e.seq > m.applied /\ e.kind = "exit"
  <2>1. PICK exit : exit = IF m.exit = "pending" THEN "resolved" ELSE m.exit
    OBVIOUS
  <2>2. r = [m EXCEPT !.applied = e.seq, !.running = FALSE, !.lastExit = e.run, !.exit = exit]
    BY <1>1, <1>4, <2>1 DEF ApplyEvent
  <2>3. r.applied = e.seq /\ r.running = FALSE /\ r.screen = m.screen
    BY <2>2 DEF Mirrors
  <2>4. QED
    BY <1>1, <1>4, <2>3 DEF Sees
<1>5. QED
  BY <1>1, <1>2, <1>3, <1>4

\* A screen with the outputs of a run is one.
LEMMA ScreenOfRun ==
  ASSUME NEW screen, NEW pty, pty # 0, \A i \in 1..Len(screen) : screen[i] = <<pty, i>>
  PROVE  screen # NoScreen
<1>1. SUFFICES ASSUME screen = NoScreen
               PROVE  FALSE
  OBVIOUS
<1>2. Len(screen) = 1 /\ screen[1] = <<0, 0>>
  BY <1>1 DEF NoScreen
<1>3. screen[1] = <<pty, 1>>
  BY <1>2
<1>4. QED
  BY <1>2, <1>3

\* The next output of the live run is the one that is due next.
LEMMA NextOutputShown ==
  ASSUME NEW b \in Brokers, NEW screen \in Seq(Outputs) \cup {NoScreen}, NEW n \in Nat,
         NEW due \in Dues, NEW e \in Events,
         e.kind = "output", e.seq > n, e.output[1] = b.pty,
         NEW more \in Dues, due = more \cup {e}, \A f \in more : IsEvent(f) => e.seq < f.seq,
         Tells(b, due), Good(b, screen, due, n), b.terminal
  PROVE  /\ screen # NoScreen
         /\ Good(b, Append(screen, e.output), more, e.seq)
<1>1. /\ b.pty # 0 /\ screen # NoScreen /\ screen \in Seq(Outputs)
      /\ Len(screen) \in Nat /\ Len(b.transcript) \in Nat /\ Len(screen) <= Len(b.transcript)
      /\ \A i \in 1..Len(screen) : screen[i] = <<b.pty, i>>
  <2>1. b.pty # 0 /\ screen # NoScreen /\ Len(screen) <= Len(b.transcript)
    BY DEF Good
  <2>2. screen \in Seq(Outputs)
    BY <2>1
  <2>3. Len(screen) \in Nat /\ Len(b.transcript) \in Nat
    BY <2>2 DEF Brokers
  <2>4. QED
    BY <2>1, <2>2, <2>3 DEF Good
<1>2. /\ \A f \in due : f.kind = "output" /\ f.seq > n /\ f.output[1] = b.pty =>
           f.output[2] > Len(screen)
      /\ \A j \in (Len(screen) + 1)..Len(b.transcript) :
           \E f \in due : f.kind = "output" /\ f.seq > n /\ f.output = <<b.pty, j>>
  BY DEF Good
<1>3. \A f \in due : f.kind = "output" => IsEvent(f) /\ f.output[2] \in Nat /\ f.seq \in Nat
  BY DueShape, EventShape DEF Outputs, IsEvent
<1>4. e.seq \in Nat /\ e.output \in Outputs
  BY EventShape
<1>5. /\ e.output[2] \in Nat /\ e.output[2] > Len(screen) /\ e.output[2] <= Len(b.transcript)
      /\ e.output = <<b.pty, e.output[2]>>
  <2>1. e.output[2] <= Len(b.transcript)
    BY DEF Tells
  <2>2. e.output = <<b.pty, e.output[2]>>
    BY <1>4 DEF Outputs
  <2>3. QED
    BY <1>2, <1>3, <2>1, <2>2
<1>6. \A g \in more : g.kind = "output" /\ g.output[1] = b.pty => e.output[2] < g.output[2]
  BY <1>3 DEF Tells
<1>7. e.output[2] = Len(screen) + 1
  <2>1. SUFFICES ASSUME e.output[2] # Len(screen) + 1
                 PROVE  FALSE
    OBVIOUS
  <2>2. Len(screen) + 1 \in (Len(screen) + 1)..Len(b.transcript)
    BY <1>1, <1>5, <2>1
  <2>3. PICK g \in due : g.kind = "output" /\ g.seq > n /\ g.output = <<b.pty, Len(screen) + 1>>
    BY <1>2, <2>2
  <2>4. g.output[1] = b.pty /\ g.output[2] = Len(screen) + 1
    BY <2>3
  <2>5. g \in more
    BY <2>1, <2>4
  <2>6. e.output[2] < Len(screen) + 1
    BY <1>6, <2>3, <2>4, <2>5
  <2>7. QED
    BY <1>1, <1>5, <2>6
<1>8. PICK now : now = Append(screen, e.output)
  OBVIOUS
<1>9. Len(now) = Len(screen) + 1 /\ \A i \in 1..Len(now) : now[i] = <<b.pty, i>>
  <2>1. /\ Len(now) = Len(screen) + 1 /\ now[Len(screen) + 1] = e.output
        /\ \A i \in 1..Len(screen) : now[i] = screen[i]
    BY <1>1, <1>4, <1>8
  <2>2. now[Len(screen) + 1] = <<b.pty, Len(screen) + 1>>
    BY <1>5, <1>7, <2>1
  <2>3. \A i \in 1..Len(now) : i \in 1..Len(screen) \/ i = Len(screen) + 1
    BY <1>1, <2>1
  <2>4. QED
    BY <1>1, <2>1, <2>2, <2>3
<1>10. now # NoScreen
  BY <1>1, <1>9, ScreenOfRun
<1>11. \A g \in more : g.kind = "output" /\ g.output[1] = b.pty => g.output[2] > Len(now)
  BY <1>3, <1>6, <1>7, <1>9
<1>12. ASSUME NEW j \in (Len(now) + 1)..Len(b.transcript)
       PROVE  \E g \in more : g.kind = "output" /\ g.seq > e.seq /\ g.output = <<b.pty, j>>
  <2>1. j \in (Len(screen) + 1)..Len(b.transcript) /\ j # Len(screen) + 1
    BY <1>1, <1>9
  <2>2. PICK g \in due : g.kind = "output" /\ g.seq > n /\ g.output = <<b.pty, j>>
    BY <1>2, <2>1
  <2>3. g.output[2] = j
    BY <2>2
  <2>4. g \in more
    BY <1>7, <2>1, <2>3
  <2>5. g.seq > e.seq
    BY <1>3, <1>4, <2>2, <2>4
  <2>6. QED
    BY <2>2, <2>4, <2>5
<1>13. Len(now) <= Len(b.transcript)
  BY <1>1, <1>5, <1>7, <1>9
<1>14. QED
  BY <1>1, <1>8, <1>9, <1>10, <1>11, <1>12, <1>13 DEF Good

\* An event is applied, or dropped.
LEMMA EventKeepsView ==
  ASSUME NEW b \in Brokers, NEW m \in Mirrors, NEW r \in Mirrors, NEW e \in Events,
         NEW due \in Dues, NEW more \in Dues, due = more \cup {e}, NEW at, NEW asked,
         Sees(r, m, e), \A f \in more : IsEvent(f) => e.seq < f.seq,
         \A x \in more : x.kind = "reply" /\ x.state.seq < e.seq /\ e.kind = "output"
                         /\ at \in {"attach", "check", "start"} =>
           \E f \in more : f.kind = "exit",
         Tells(b, due)
  PROVE  /\ Tells(b, more)
         /\ Shown(b, m, due, at, asked) => Shown(b, r, more, at, asked)
         /\ Known(m, due, at, asked) => Known(r, more, at, asked)
<1>1. /\ m.applied \in Nat /\ r.applied \in Nat /\ e.seq \in Nat /\ IsEvent(e)
      /\ e.kind = "output" \/ e.kind = "exit"
      /\ m.screen \in Seq(Outputs) \cup {NoScreen}
  BY EventShape DEF Mirrors
<1>2. m.applied <= r.applied /\ e.seq <= r.applied
  BY <1>1 DEF Sees
<1>3. /\ \A f \in more : IsEvent(f) => f.seq \in Nat
      /\ \A f \in due : f.kind = "output" \/ f.kind = "exit" => IsEvent(f) /\ f.seq \in Nat
      /\ \A x \in more : x.kind = "reply" => x.state.seq \in Nat /\ x # e
  BY DueShape, EventShape, MessageShape, AnswerShape DEF IsEvent
<1>4. /\ \A k : ExitDue(more, k) => ExitDue(due, k)
      /\ \A k \in Nat : ExitDue(due, k) /\ ~ExitDue(more, k) => e.kind = "exit" /\ e.seq > k
  BY DEF ExitDue
<1>5. ASSUME NEW k \in Nat, e.seq <= k, ExitDue(due, k)
      PROVE  ExitDue(more, k)
  <2>1. PICK f \in due : f.kind = "exit" /\ f.seq > k
    BY <1>5 DEF ExitDue
  <2>2. f \in more
    BY <1>1, <1>5, <2>1
  <2>3. QED
    BY <2>1, <2>2 DEF ExitDue
<1>6. ASSUME NEW screen, NEW k \in Nat, e.seq <= k, Good(b, screen, due, k)
      PROVE  Good(b, screen, more, k)
  <2>1. \A f \in due : f.seq > k => f \in more
    BY <1>1, <1>6
  <2>2. QED
    BY <1>6, <2>1 DEF Good
<1>7. ASSUME NEW k \in Nat, NEW j \in Nat, k <= j, Ended(b, due, k)
      PROVE  Ended(b, more, j)
  BY <1>3, <1>7 DEF Ended
<1>8. Tells(b, more)
  <2>1. ASSUME NEW f \in more, f.kind = "output", ExitDue(due, f.seq)
        PROVE  ExitDue(more, f.seq)
    <3>1. f.seq \in Nat /\ e.seq <= f.seq
      BY <1>1, <1>3, <2>1
    <3>2. QED
      BY <1>5, <2>1, <3>1
  <2>2. QED
    BY <2>1 DEF Tells
<1>9. ASSUME NEW x \in more, x.kind = "reply", e.seq > x.state.seq, e.kind = "output",
             at \in {"attach", "check", "start"}
      PROVE  ExitDue(more, e.seq) /\ ExitDue(more, x.state.seq)
  <2>1. PICK f \in more : f.kind = "exit"
    BY <1>3, <1>9
  <2>2. f.seq > e.seq /\ f.seq > x.state.seq
    BY <1>1, <1>3, <1>9, <2>1
  <2>3. QED
    BY <2>1, <2>2 DEF ExitDue
<1>10. ASSUME NEW x \in more, x.kind = "reply", ReplyShows(b, m, due, at, x)
       PROVE  ReplyShows(b, r, more, at, x)
  <2>1. x.state.seq \in Nat
    BY <1>3, <1>10
  <2>2. ASSUME x.state.running, x.state.seq >= r.applied
        PROVE  \/ ExitDue(more, x.state.seq)
               \/ /\ at \in {"attach", "check", "stop"} =>
                       Good(b, x.state.transcript, more, x.state.seq)
                  /\ at = "start" => Good(b, r.screen, more, x.state.seq)
    <3>1. x.state.seq >= m.applied /\ e.seq <= x.state.seq
      BY <1>1, <1>2, <2>1, <2>2
    <3>2. CASE ExitDue(due, x.state.seq)
      BY <1>5, <2>1, <3>1, <3>2
    <3>3. CASE /\ at \in {"attach", "check", "stop"} =>
                    Good(b, x.state.transcript, due, x.state.seq)
               /\ at = "start" => Good(b, m.screen, due, x.state.seq)
      <4>1. at = "start" => r.screen = m.screen
        <5>1. at = "start" => e.seq <= m.applied
          BY <1>1, <1>10, <2>1, <3>1 DEF ReplyShows
        <5>2. QED
          BY <5>1 DEF Sees
      <4>2. QED
        BY <1>6, <2>1, <3>1, <3>3, <4>1
    <3>4. QED
      BY <1>10, <2>2, <3>1, <3>2, <3>3 DEF ReplyShows
  <2>3. ASSUME at = "check"
        PROVE  /\ ~x.state.running => Ended(b, more, x.state.seq)
               /\ \A f \in more : f.kind = "exit" /\ f.seq > x.state.seq => Ended(b, more, f.seq)
    <3>1. ~x.state.running => Ended(b, due, x.state.seq)
      BY <1>10, <2>3 DEF ReplyShows
    <3>2. \A f \in due : f.kind = "exit" /\ f.seq > x.state.seq => Ended(b, due, f.seq)
      BY <1>10, <2>3 DEF ReplyShows
    <3>3. \A k \in Nat : Ended(b, due, k) => Ended(b, more, k)
      BY <1>7
    <3>4. QED
      BY <1>3, <2>1, <3>1, <3>2, <3>3
  <2>4. ASSUME at = "check", x.state.running, x.state.seq < r.applied
        PROVE  ExitDue(more, x.state.seq) \/ Ended(b, more, r.applied)
    <3>1. CASE e.kind = "exit" /\ e.seq > x.state.seq
      <4>1. Ended(b, due, e.seq)
        BY <1>10, <2>4, <3>1 DEF ReplyShows
      <4>2. QED
        BY <1>1, <1>2, <1>7, <4>1
    <3>2. CASE e.kind = "output" /\ e.seq > x.state.seq
      BY <1>9, <1>10, <2>4, <3>2
    <3>3. CASE ~(e.seq > x.state.seq)
      <4>1. x.state.seq < m.applied
        BY <1>1, <2>1, <2>4, <3>3 DEF Sees
      <4>2. ExitDue(due, x.state.seq) \/ Ended(b, due, m.applied)
        BY <1>10, <2>4, <4>1 DEF ReplyShows
      <4>3. e.seq <= x.state.seq
        BY <1>1, <2>1, <3>3
      <4>4. QED
        BY <1>1, <1>2, <1>5, <1>7, <2>1, <4>2, <4>3
    <3>4. QED
      BY <1>1, <3>1, <3>2, <3>3
  <2>5. ASSUME at = "start", NEW f \in more, IsEvent(f)
        PROVE  f.seq <= r.applied \/ f.seq > x.state.seq
    <3>1. f.seq <= m.applied \/ f.seq > x.state.seq
      BY <1>10, <2>5 DEF ReplyShows
    <3>2. f.seq \in Nat
      BY <1>3, <2>5
    <3>3. QED
      BY <1>1, <1>2, <3>1, <3>2
  <2>6. x.state.running => x.state.session
    BY <1>10 DEF ReplyShows
  <2>7. QED
    BY <2>2, <2>3, <2>4, <2>5, <2>6 DEF ReplyShows
<1>11. ASSUME Shown(b, m, due, at, asked), r.running
       PROVE  \/ ExitDue(more, r.applied)
              \/ at = "check" /\ Corrected(r, more, asked = "snapshot")
              \/ Good(b, r.screen, more, r.applied)
  <2>1. m.running /\ (e.seq <= m.applied \/ (e.seq > m.applied /\ e.kind = "output"))
    <3>1. e.seq <= m.applied \/ (e.seq > m.applied /\ e.kind = "output")
      BY <1>1, <1>11 DEF Sees
    <3>2. r.running = m.running
      BY <3>1 DEF Sees
    <3>3. QED
      BY <1>11, <3>1, <3>2
  <2>2. \/ ExitDue(due, m.applied)
        \/ at = "check" /\ Corrected(m, due, asked = "snapshot")
        \/ Good(b, m.screen, due, m.applied)
    BY <1>11, <2>1 DEF Shown
  <2>3. CASE e.seq <= m.applied
    <3>1. r.applied = m.applied /\ r.screen = m.screen
      BY <2>3 DEF Sees
    <3>2. ExitDue(due, m.applied) => ExitDue(more, r.applied)
      BY <1>1, <1>5, <2>3, <3>1
    <3>3. Corrected(m, due, asked = "snapshot") => Corrected(r, more, asked = "snapshot")
      <4>1. \A x \in due : x.kind = "reply" => x \in more
        BY <1>1
      <4>2. QED
        BY <3>1, <4>1 DEF Corrected
    <3>4. Good(b, m.screen, due, m.applied) => Good(b, r.screen, more, r.applied)
      BY <1>1, <1>6, <2>3, <3>1
    <3>5. QED
      BY <2>2, <3>2, <3>3, <3>4
  <2>4. CASE e.seq > m.applied /\ e.kind = "output"
    <3>1. /\ r.applied = e.seq
          /\ r.screen = IF m.screen = NoScreen THEN m.screen ELSE Append(m.screen, e.output)
      BY <2>4 DEF Sees
    <3>2. CASE ExitDue(due, m.applied)
      <4>1. PICK f \in due : f.kind = "exit" /\ f.seq > m.applied
        BY <3>2 DEF ExitDue
      <4>2. f \in more
        BY <2>4, <4>1
      <4>3. f.seq > e.seq
        BY <1>1, <1>3, <4>1, <4>2
      <4>4. QED
        BY <3>1, <4>1, <4>2, <4>3 DEF ExitDue
    <3>3. CASE at = "check" /\ Corrected(m, due, asked = "snapshot")
      <4>1. CASE asked = "snapshot"
        BY <3>3, <4>1 DEF Corrected
      <4>2. CASE asked # "snapshot"
        <5>1. PICK x \in due : x.kind = "reply" /\ x.state.seq >= m.applied
          BY <3>3, <4>2 DEF Corrected
        <5>2. x \in more /\ x.state.seq \in Nat
          BY <1>1, <1>3, <5>1
        <5>3. CASE x.state.seq >= e.seq
          BY <3>1, <3>3, <5>1, <5>2, <5>3 DEF Corrected
        <5>4. CASE e.seq > x.state.seq
          BY <1>9, <2>4, <3>1, <3>3, <5>1, <5>2, <5>4
        <5>5. QED
          BY <1>1, <5>2, <5>3, <5>4
      <4>3. QED
        BY <4>1, <4>2
    <3>4. CASE Good(b, m.screen, due, m.applied)
      <4>1. CASE e.output[1] = b.pty /\ b.terminal
        <5>1. m.screen # NoScreen /\ Good(b, Append(m.screen, e.output), more, e.seq)
          BY <1>1, <2>4, <3>4, <4>1, NextOutputShown
        <5>2. QED
          BY <3>1, <5>1
      <4>2. CASE ~b.terminal
        BY <3>4, <4>2 DEF Good
      <4>3. CASE e.output[1] # b.pty
        <5>1. ExitDue(due, e.seq)
          BY <2>4, <4>3 DEF Tells
        <5>2. e.seq <= e.seq
          BY <1>1
        <5>3. QED
          BY <1>1, <1>5, <3>1, <5>1, <5>2
      <4>4. QED
        BY <4>1, <4>2, <4>3
    <3>5. QED
      BY <2>2, <3>2, <3>3, <3>4
  <2>5. QED
    BY <1>1, <2>1, <2>3, <2>4
<1>12. Shown(b, m, due, at, asked) => Shown(b, r, more, at, asked)
  <2>1. SUFFICES ASSUME Shown(b, m, due, at, asked)
                 PROVE  Shown(b, r, more, at, asked)
    OBVIOUS
  <2>2. \A x \in more : x.kind = "reply" => ReplyShows(b, r, more, at, x)
    BY <1>10, <2>1 DEF Shown
  <2>3. asked = "start" => Ended(b, more, r.applied) /\ r.screen = <<>> /\ ~r.running
    <3>1. SUFFICES ASSUME asked = "start"
                   PROVE  Ended(b, more, r.applied) /\ r.screen = <<>> /\ ~r.running
      OBVIOUS
    <3>2. Ended(b, due, m.applied) /\ m.screen = <<>> /\ ~m.running
      BY <2>1, <3>1 DEF Shown
    <3>3. e.seq <= m.applied
      BY <1>1, <3>2 DEF Ended
    <3>4. r.applied = m.applied /\ r.screen = m.screen /\ r.running = m.running
      BY <3>3 DEF Sees
    <3>5. Ended(b, more, m.applied)
      <4>1. m.applied <= m.applied
        BY <1>1
      <4>2. QED
        BY <1>1, <1>7, <3>2, <4>1
    <3>6. QED
      BY <3>2, <3>4, <3>5
  <2>4. QED
    BY <1>11, <2>1, <2>2, <2>3 DEF Shown
<1>13. Known(m, due, at, asked) => Known(r, more, at, asked)
  <2>1. SUFFICES ASSUME Known(m, due, at, asked)
                 PROVE  Known(r, more, at, asked)
    OBVIOUS
  <2>2. CASE asked = "snapshot"
    BY <2>2 DEF Known
  <2>3. ASSUME at \in {"attach", "check", "start"}, NEW x \in due, x.kind = "reply",
               x.state.running, x.state.seq >= m.applied, ~ExitDue(due, x.state.seq)
        PROVE  Known(r, more, at, asked)
    <3>1. x \in more /\ x.state.seq \in Nat /\ ~ExitDue(more, x.state.seq)
      BY <1>1, <1>3, <1>4, <2>3
    <3>2. ~(e.seq > x.state.seq)
      <4>1. e.seq > x.state.seq => e.kind # "exit"
        BY <2>3 DEF ExitDue
      <4>2. e.seq > x.state.seq /\ e.kind = "output" => ExitDue(more, x.state.seq)
        BY <1>9, <2>3, <3>1
      <4>3. QED
        BY <1>1, <3>1, <4>1, <4>2
    <3>3. x.state.seq >= r.applied
      BY <1>1, <2>3, <3>1, <3>2 DEF Sees
    <3>4. QED
      BY <2>3, <3>1, <3>3 DEF Known
  <2>4. ASSUME m.running, m.exit # "none", ~ExitDue(due, m.applied),
               \A x \in due : x.kind = "reply" /\ x.state.seq >= m.applied => x.state.running
        PROVE  Known(r, more, at, asked)
    <3>1. e.kind = "exit" => e.seq <= m.applied
      BY <1>1, <2>4 DEF ExitDue
    <3>2. r.running /\ r.exit # "none"
      <4>1. e.seq <= m.applied \/ (e.seq > m.applied /\ e.kind = "output")
        BY <1>1, <3>1
      <4>2. r.running = m.running /\ r.exit = m.exit
        BY <4>1 DEF Sees
      <4>3. QED
        BY <2>4, <4>2
    <3>3. ~ExitDue(more, r.applied)
      <4>1. SUFFICES ASSUME NEW f \in more, f.kind = "exit", f.seq > r.applied
                     PROVE  FALSE
        BY DEF ExitDue
      <4>2. f \in due /\ f.seq > m.applied
        BY <1>1, <1>2, <1>3, <4>1
      <4>3. QED
        BY <2>4, <4>1, <4>2 DEF ExitDue
    <3>4. \A x \in more : x.kind = "reply" /\ x.state.seq >= r.applied => x.state.running
      BY <1>1, <1>2, <1>3, <2>4
    <3>5. QED
      BY <3>2, <3>3, <3>4 DEF Known
  <2>5. QED
    BY <2>1, <2>2, <2>3, <2>4 DEF Known
<1>14. QED
  BY <1>8, <1>12, <1>13

-----------------------------------------------------------------------------
(* What an answer does to a view                                           *)

\* r is the mirror m after the state s.
TakesOver(r, m, s, replay) ==
  /\ s.seq < m.applied =>
       r.applied = m.applied /\ r.running = m.running /\ r.screen = m.screen /\ r.exit = m.exit
  /\ s.seq >= m.applied =>
       /\ r.applied = s.seq /\ r.running = s.running
       /\ r.exit = IF s.running /\ m.exit = "none" THEN "pending" ELSE m.exit
       /\ r.screen = IF replay /\ s.session THEN s.transcript ELSE m.screen

LEMMA StateTakesOver ==
  ASSUME NEW m \in Mirrors, NEW s \in States, NEW replay, NEW r, r = ApplyState(m, s, replay)
  PROVE  TakesOver(r, m, s, replay)
<1>1. m.applied \in Nat /\ s.seq \in Nat
  BY DEF Mirrors, States
<1>2. CASE s.seq < m.applied
  <2>1. r = m /\ ~(s.seq >= m.applied)
    BY <1>1, <1>2 DEF ApplyState
  <2>2. QED
    BY <2>1 DEF TakesOver
<1>3. CASE s.seq >= m.applied
  <2>1. PICK exit : exit = IF s.running /\ m.exit = "none" THEN "pending" ELSE m.exit
    OBVIOUS
  <2>2. PICK screen : screen = IF replay /\ s.session THEN s.transcript ELSE m.screen
    OBVIOUS
  <2>3. r = [m EXCEPT !.applied = s.seq, !.running = s.running, !.session = s.session,
                      !.lastExit = s.lastExit, !.exit = exit, !.screen = screen]
    BY <1>1, <1>3, <2>1, <2>2 DEF ApplyState
  <2>4. r.applied = s.seq /\ r.running = s.running /\ r.exit = exit /\ r.screen = screen
    BY <2>3 DEF Mirrors
  <2>5. ~(s.seq < m.applied)
    BY <1>1, <1>3
  <2>6. QED
    BY <2>1, <2>2, <2>4, <2>5 DEF TakesOver
<1>4. QED
  BY <1>1, <1>2, <1>3

\* The state of an answer is applied, or dropped.
LEMMA StateKeepsView ==
  ASSUME NEW b, NEW m \in Mirrors, NEW r \in Mirrors, NEW a \in Answers, a.kind = "reply",
         NEW due \in Dues, NEW more \in Dues, due = more \cup {a}, \A x \in more : x.kind # "reply",
         NEW at \in {"attach", "check", "start", "stop"}, NEW next, next # "check",
         TakesOver(r, m, a.state, at # "start"), Tells(b, due)
  PROVE  /\ Tells(b, more)
         /\ Shown(b, m, due, at, "none") => Shown(b, r, more, next, "none")
         /\ Known(m, due, at, "none") =>
              Known(r, more, next, "none") /\ r.running /\ ~ExitDue(more, r.applied)
<1>1. /\ m.applied \in Nat /\ r.applied \in Nat /\ a.state.seq \in Nat /\ ~IsEvent(a)
      /\ a.kind # "output" /\ a.kind # "exit"
  BY AnswerShape DEF Mirrors
<1>2. /\ \A n : ExitDue(more, n) => ExitDue(due, n)
      /\ \A n : ExitDue(due, n) => ExitDue(more, n)
  BY <1>1 DEF ExitDue
<1>3. ASSUME NEW screen, NEW n, Good(b, screen, due, n)
      PROVE  Good(b, screen, more, n)
  BY <1>1, <1>3 DEF Good
<1>4. Tells(b, more)
  BY <1>2 DEF Tells
<1>5. ASSUME Shown(b, m, due, at, "none"), r.running
      PROVE  ExitDue(more, r.applied) \/ Good(b, r.screen, more, r.applied)
  <2>1. CASE a.state.seq < m.applied
    <3>1. r.applied = m.applied /\ r.running = m.running /\ r.screen = m.screen
      BY <2>1 DEF TakesOver
    <3>2. ~Corrected(m, due, "none" = "snapshot")
      BY <1>1, <2>1 DEF Corrected
    <3>3. ExitDue(due, m.applied) \/ Good(b, m.screen, due, m.applied)
      BY <1>5, <3>1, <3>2 DEF Shown
    <3>4. QED
      BY <1>2, <1>3, <3>1, <3>3
  <2>2. CASE a.state.seq >= m.applied
    <3>1. /\ r.applied = a.state.seq /\ r.running = a.state.running
          /\ r.screen = IF at # "start" /\ a.state.session THEN a.state.transcript ELSE m.screen
      BY <2>2 DEF TakesOver
    <3>2. ReplyShows(b, m, due, at, a) /\ a.state.running
      BY <1>5, <3>1 DEF Shown
    <3>3. /\ a.state.session
          /\ \/ ExitDue(due, a.state.seq)
             \/ /\ at \in {"attach", "check", "stop"} =>
                     Good(b, a.state.transcript, due, a.state.seq)
                /\ at = "start" => Good(b, m.screen, due, a.state.seq)
      BY <2>2, <3>2 DEF ReplyShows
    <3>4. QED
      BY <1>2, <1>3, <3>1, <3>3
  <2>3. QED
    BY <1>1, <2>1, <2>2
<1>6. Shown(b, m, due, at, "none") => Shown(b, r, more, next, "none")
  BY <1>5 DEF Shown
<1>7. ASSUME Known(m, due, at, "none")
      PROVE  r.running /\ r.exit # "none" /\ ~ExitDue(more, r.applied)
  <2>1. CASE a.state.seq >= m.applied
    <3>1. /\ r.applied = a.state.seq /\ r.running = a.state.running
          /\ r.exit = IF a.state.running /\ m.exit = "none" THEN "pending" ELSE m.exit
      BY <2>1 DEF TakesOver
    <3>2. CASE \E x \in due : x.kind = "reply" /\ x.state.running /\ ~ExitDue(due, x.state.seq)
      BY <1>2, <3>1, <3>2
    <3>3. CASE m.running /\ ~ExitDue(due, m.applied)
               /\ \A x \in due : x.kind = "reply" /\ x.state.seq >= m.applied => x.state.running
      <4>1. a.state.running
        BY <2>1, <3>3
      <4>2. ~ExitDue(due, a.state.seq)
        <5>1. SUFFICES ASSUME NEW x \in due, x.kind = "exit", x.seq > a.state.seq
                       PROVE  FALSE
          BY DEF ExitDue
        <5>2. x.seq \in Nat
          BY <5>1, DueShape, EventShape
        <5>3. x.seq > m.applied
          BY <1>1, <2>1, <5>1, <5>2
        <5>4. QED
          BY <3>3, <5>1, <5>3 DEF ExitDue
      <4>3. QED
        BY <1>2, <3>1, <4>1, <4>2
    <3>4. QED
      BY <1>7, <3>2, <3>3 DEF Known
  <2>2. CASE a.state.seq < m.applied
    <3>1. /\ r.applied = m.applied /\ r.running = m.running /\ r.exit = m.exit
          /\ ~(a.state.seq >= m.applied)
      BY <1>1, <2>2 DEF TakesOver
    <3>2. m.running /\ m.exit # "none" /\ ~ExitDue(due, m.applied)
      BY <1>7, <3>1 DEF Known
    <3>3. QED
      BY <1>2, <3>1, <3>2
  <2>3. QED
    BY <1>1, <2>1, <2>2
<1>8. Known(m, due, at, "none") => Known(r, more, next, "none")
  BY <1>7 DEF Known
<1>9. QED
  BY <1>4, <1>6, <1>7, <1>8

\* start() finds no run, and sends its request with an empty screen.
LEMMA StartIsSent ==
  ASSUME NEW b, NEW m \in Mirrors, NEW r \in Mirrors, NEW f \in Mirrors,
         NEW a \in Answers, a.kind = "reply",
         NEW due \in Dues, NEW more \in Dues, due = more \cup {a}, \A x \in more : x.kind # "reply",
         TakesOver(r, m, a.state, TRUE), ~r.running,
         f.applied = r.applied, ~f.running, f.screen = <<>>, NEW asked \in {"none", "start"},
         a.state.seq < m.applied => \A x \in more : x.kind # "exit", Tells(b, due)
  PROVE  /\ Tells(b, more) /\ ~Known(m, due, "check", "none")
         /\ Shown(b, m, due, "check", "none") => Shown(b, f, more, "start", asked)
<1>1. /\ m.applied \in Nat /\ r.applied \in Nat /\ a.state.seq \in Nat
      /\ a.kind # "output" /\ a.kind # "exit"
  BY AnswerShape DEF Mirrors
<1>2. TakesOver(r, m, a.state, "check" # "start")
  OBVIOUS
<1>3. Tells(b, more) /\ ~Known(m, due, "check", "none")
  BY <1>2, StateKeepsView
<1>4. ASSUME Shown(b, m, due, "check", "none")
      PROVE  Ended(b, more, r.applied)
  <2>1. ReplyShows(b, m, due, "check", a)
    BY <1>4 DEF Shown
  <2>2. \A x \in more : IsEvent(x) => x.seq \in Nat
    BY DueShape, EventShape DEF IsEvent
  <2>3. CASE a.state.seq >= m.applied
    <3>1. ~a.state.running /\ r.applied = a.state.seq
      BY <2>3 DEF TakesOver
    <3>2. Ended(b, due, a.state.seq)
      BY <2>1, <3>1 DEF ReplyShows
    <3>3. QED
      BY <3>1, <3>2 DEF Ended
  <2>4. CASE a.state.seq < m.applied
    <3>1. r.applied = m.applied
      BY <2>4 DEF TakesOver
    <3>2. ~ExitDue(due, a.state.seq)
      BY <1>1, <2>4 DEF ExitDue
    <3>3. CASE a.state.running
      <4>1. Ended(b, due, m.applied)
        BY <2>1, <2>4, <3>2, <3>3 DEF ReplyShows
      <4>2. QED
        BY <3>1, <4>1 DEF Ended
    <3>4. CASE ~a.state.running
      <4>1. Ended(b, due, a.state.seq)
        BY <2>1, <3>4 DEF ReplyShows
      <4>2. QED
        BY <1>1, <2>2, <2>4, <3>1, <4>1 DEF Ended
    <3>5. QED
      BY <3>3, <3>4
  <2>5. QED
    BY <1>1, <2>3, <2>4
<1>5. Shown(b, m, due, "check", "none") => Shown(b, f, more, "start", asked)
  BY <1>4 DEF Shown
<1>6. QED
  BY <1>3, <1>5

\* A call is made or done, and the mirror shows what it did.
LEMMA CallKeepsView ==
  ASSUME NEW b, NEW m, NEW r, NEW due, NEW more, more \subseteq due,
         \A x \in due : x.kind # "reply" /\ (x \notin more => x.kind = "refusal"),
         NEW at, NEW next, at # "check", NEW asked, asked # "start",
         r.applied = m.applied, r.running = m.running, r.screen = m.screen, r.exit = m.exit,
         Tells(b, due)
  PROVE  /\ Tells(b, more)
         /\ Shown(b, m, due, at, "none") => Shown(b, r, more, next, asked)
         /\ Known(m, due, at, "none") => Known(r, more, next, asked)
<1>1. \A n : ExitDue(more, n) <=> ExitDue(due, n)
  BY DEF ExitDue
<1>2. ASSUME NEW screen, NEW n, Good(b, screen, due, n)
      PROVE  Good(b, screen, more, n)
  BY <1>2 DEF Good
<1>3. Tells(b, more)
  BY <1>1 DEF Tells
<1>4. Shown(b, m, due, at, "none") => Shown(b, r, more, next, asked)
  BY <1>1, <1>2 DEF Shown
<1>5. Known(m, due, at, "none") => Known(r, more, next, asked)
  BY <1>1 DEF Known
<1>6. QED
  BY <1>3, <1>4, <1>5

\* A window connects, and asks for a snapshot.
LEMMA ConnectShows ==
  ASSUME NEW b, NEW r, NEW at \in {"attach", "check"}, at = "attach" => ~r.running
  PROVE  /\ Tells(b, {NoAnswer}) /\ Known(r, {NoAnswer}, at, "snapshot")
         /\ Shown(b, r, {NoAnswer}, at, "snapshot")
<1>1. NoAnswer.kind = "none"
  BY DEF NoAnswer
<1>2. QED
  BY <1>1 DEF Tells, Known, Shown, Corrected

-----------------------------------------------------------------------------
(* The steps of the broker, and what the windows show                      *)

LEMMA NoReplyDue ==
  ASSUME TypeOK, NEW c \in Clients, ~HasAnswer(inbox[c]), ~Answered(c)
  PROVE  \A y \in Due(c) : y.kind # "reply" /\ y.kind # "refusal"
<1>1. mirror[c].queued \in Seq(Events) /\ inbox[c] \in Seq(Messages) /\ answer[c] = NoAnswer
  BY ClientTypes DEF Answered
<1>2. \A y \in Elements(mirror[c].queued) : IsEvent(y)
  BY <1>1, ElementsAreTyped, EventShape
<1>3. \A y \in Elements(inbox[c]) : IsEvent(y)
  BY DEF HasAnswer
<1>4. \A y \in Due(c) : IsEvent(y) \/ y = NoAnswer
  BY <1>1, <1>2, <1>3 DEF Due
<1>5. QED
  BY <1>4 DEF IsEvent, NoAnswer

LEMMA OrderOnArrival ==
  ASSUME TypeOK, NEW c \in Clients, NumberInv(c), OrderInv(c), NEW x \in Messages,
         inbox'[c] = Append(inbox[c], x), mirror'[c] = mirror[c], answer'[c] = answer[c],
         <<c, "end">> \in unseen' <=> <<c, "end">> \in unseen,
         IsEvent(x) => x.seq > broker.seq, x.kind = "reply" => Number(x) >= broker.seq
  PROVE  OrderInv(c)'
<1>1. SUFFICES ASSUME ~Outlived(c)
               PROVE  InOrder(mirror[c].queued, inbox'[c], answer[c])
  BY DEF OrderInv, Outlived
<1>2. /\ mirror[c].queued \in Seq(Events) /\ inbox[c] \in Seq(Messages) /\ broker.seq \in Nat
      /\ Due(c) \in Dues
  BY ClientTypes
<1>3. \A y \in Elements(mirror[c].queued) \cup Elements(inbox[c]) \cup {answer[c]} :
        Number(y) \in Nat /\ Number(y) <= broker.seq
  BY <1>1, <1>2, DueShape DEF NumberInv, Within, Due
<1>4. PICK more : more = inbox'[c]
  OBVIOUS
<1>5. PICK held : held = mirror[c].queued
  OBVIOUS
<1>6. PICK box : box = inbox[c]
  OBVIOUS
<1>7. PICK ans : ans = answer[c]
  OBVIOUS
<1>8. PICK n \in Nat : n = broker.seq
  BY <1>2
<1>9. InOrder(held, more, ans)
  <2>1. held \in Seq(Events) /\ box \in Seq(Messages) /\ InOrder(held, box, ans)
    BY <1>1, <1>2, <1>5, <1>6, <1>7 DEF OrderInv
  <2>2. more = Append(box, x)
    BY <1>4, <1>6
  <2>3. \A y \in Elements(held) \cup Elements(box) \cup {ans} : Number(y) \in Nat /\ Number(y) <= n
    BY <1>3, <1>5, <1>6, <1>7, <1>8
  <2>4. (IsEvent(x) => x.seq > n) /\ (x.kind = "reply" => Number(x) >= n)
    BY <1>8
  <2>5. QED
    BY <2>1, <2>2, <2>3, <2>4, OrderGrows
<1>10. QED
  BY <1>4, <1>5, <1>7, <1>9

\* A client a step leaves alone, whatever the broker does meanwhile.
LEMMA OthersKeepView ==
  ASSUME TypeOK, TypeOK', NEW d \in Clients, Same(d), OrderInv(d), KindInv(d), ViewInv(d),
         <<d, "run">> \in unseen => <<d, "run">> \in unseen',
         d \in broker.clients => Moved(broker, broker', "idle", "none"),
         d \in broker.clients /\ ~Missed(d)' => Moved(broker, broker', call[d], request[d]),
         d \in broker.clients /\ <<d, "run">> \notin unseen' /\ Live' => Live
  PROVE  OrderInv(d)' /\ KindInv(d)' /\ ViewInv(d)'
<1>1. OrderInv(d)' /\ KindInv(d)'
  BY DEF Same, OrderInv, KindInv, Outlived
<1>2. ASSUME d \in broker.clients, ~Outlived(d)
      PROVE  /\ Tells(broker', Due(d))
             /\ ~Missed(d)' => Shown(broker', mirror[d], Due(d), call[d], request[d])
             /\ <<d, "run">> \notin unseen' /\ Live' =>
                  Known(mirror[d], Due(d), call[d], request[d])
  <2>1. broker \in Brokers /\ broker' \in Brokers /\ mirror[d] \in Mirrors /\ Due(d) \in Dues
    <3>1. broker \in Brokers /\ mirror[d] \in Mirrors /\ Due(d) \in Dues
      BY ClientTypes
    <3>2. QED
      BY <3>1 DEF TypeOK
  <2>2. /\ Tells(broker, Due(d))
        /\ ~Missed(d) => Shown(broker, mirror[d], Due(d), call[d], request[d])
        /\ <<d, "run">> \notin unseen /\ Live => Known(mirror[d], Due(d), call[d], request[d])
    BY <1>2 DEF ViewInv
  <2>3. PICK b \in Brokers : b = broker'
    BY <2>1
  <2>4. Tells(b, Due(d))
    BY <1>2, <2>1, <2>2, <2>3, MovedKeepsView
  <2>5. ASSUME ~Missed(d)'
        PROVE  Shown(b, mirror[d], Due(d), call[d], request[d])
    <3>1. ~Missed(d) /\ Moved(broker, b, call[d], request[d])
      BY <1>2, <2>3, <2>5 DEF Missed
    <3>2. QED
      BY <2>1, <2>2, <3>1, MovedKeepsView
  <2>6. QED
    BY <1>2, <2>2, <2>3, <2>4, <2>5
<1>3. /\ Due(d)' = Due(d) /\ mirror'[d] = mirror[d] /\ call'[d] = call[d]
      /\ request'[d] = request[d]
      /\ d \in broker'.clients <=> d \in broker.clients
      /\ Outlived(d)' <=> Outlived(d)
  BY DEF Same, Due, Outlived
<1>4. ViewInv(d)'
  BY <1>2, <1>3 DEF ViewInv
<1>5. QED
  BY <1>1, <1>4

\* The broker answers c.
LEMMA AnswerKeepsMirror ==
  ASSUME SessionInv, TypeOK', MirrorInv, NEW c \in Clients, NEW x \in Answers, Respond(c, x),
         UNCHANGED <<mirror, call, answer>>,
         request'[c] = "none", serving'[c].type = "none",
         \A d \in Clients \ {c} : request'[d] = request[d] /\ serving'[d] = serving[d],
         \A d \in Clients : <<d, "end">> \in unseen' <=> <<d, "end">> \in unseen,
         broker'.clients = broker.clients,
         x.kind = "reply" => Number(x) >= broker.seq,
         TranscriptInv', ViewInv(c)',
         \A d \in (Clients \ {c}) \cap broker.clients :
           /\ <<d, "run">> \in unseen => <<d, "run">> \in unseen'
           /\ Moved(broker, broker', "idle", "none")
           /\ ~Missed(d)' => Moved(broker, broker', call[d], request[d])
           /\ <<d, "run">> \notin unseen' /\ Live' => Live,
         \A d \in Clients \ {c} : <<d, "run">> \in unseen => <<d, "run">> \in unseen'
  PROVE  MirrorInv'
<1>1. TypeOK /\ ClientInv(c)
  BY DEF SessionInv
<1>2. inbox'[c] = Append(inbox[c], x) /\ \A d \in Clients \ {c} : inbox'[d] = inbox[d]
  BY <1>1, RespondsTo
<1>3. mirror' = mirror /\ call' = call /\ answer' = answer
  OBVIOUS
<1>4. OrderInv(c)'
  <2>1. x \in Messages /\ ~IsEvent(x)
    BY AnswerShape DEF Messages
  <2>2. NumberInv(c) /\ OrderInv(c)
    BY <1>1 DEF ClientInv, MirrorInv
  <2>3. mirror'[c] = mirror[c] /\ answer'[c] = answer[c]
    BY <1>3
  <2>4. QED
    BY <1>1, <1>2, <2>1, <2>2, <2>3, OrderOnArrival
<1>5. KindInv(c)'
  BY <1>3 DEF MirrorInv, KindInv
<1>6. ASSUME NEW d \in Clients \ {c}
      PROVE  OrderInv(d)' /\ KindInv(d)' /\ ViewInv(d)'
  <2>1. Same(d)
    BY <1>2, <1>3 DEF Same
  <2>2. OrderInv(d) /\ KindInv(d) /\ ViewInv(d)
    BY DEF MirrorInv
  <2>3. QED
    BY <1>1, <2>1, <2>2, OthersKeepView
<1>7. QED
  BY <1>4, <1>5, <1>6 DEF MirrorInv

\* What is due to a client after an answer.
LEMMA DueOnAnswer ==
  ASSUME SessionInv, MirrorInv, NEW c \in Clients, NEW x \in Answers, Respond(c, x),
         UNCHANGED <<mirror, call, answer>>, Asks(c) \/ IsServed(c)
  PROVE  /\ Due(c)' = Due(c) \cup {x} /\ Due(c) \in Dues /\ Due(c) \cup {x} \in Dues
         /\ \A y \in Due(c) : y.kind # "reply"
         /\ mirror[c] \in Mirrors /\ c \in broker.clients
         /\ ~Outlived(c) => /\ Within(broker.seq, mirror[c], Due(c)) /\ Tells(broker, Due(c))
                            /\ ~Missed(c) => Shown(broker, mirror[c], Due(c), call[c], request[c])
                            /\ <<c, "run">> \notin unseen /\ Live =>
                                 Known(mirror[c], Due(c), call[c], request[c])
<1>1. TypeOK /\ ClientInv(c) /\ ViewInv(c)
  BY DEF SessionInv, MirrorInv
<1>2. /\ inbox[c] \in Seq(Messages) /\ mirror[c] \in Mirrors /\ Due(c) \in Dues
      /\ x \in Messages /\ Due(c) \cup {x} \in Dues
  <2>1. inbox[c] \in Seq(Messages) /\ mirror[c] \in Mirrors /\ Due(c) \in Dues
    BY <1>1, ClientTypes
  <2>2. QED
    BY <2>1 DEF Messages, Dues
<1>3. ~HasAnswer(inbox[c]) /\ ~Answered(c) /\ c \in broker.clients
  BY <1>1 DEF ClientInv, RequestInv
<1>4. inbox'[c] = Append(inbox[c], x)
  BY <1>1, RespondsTo
<1>5. PICK box : box = inbox'[c]
  OBVIOUS
<1>6. Elements(box) = Elements(inbox[c]) \cup {x}
  BY <1>2, <1>3, <1>4, <1>5, AnswerArrives
<1>7. Due(c)' = Due(c) \cup {x}
  BY <1>5, <1>6 DEF Due
<1>8. \A y \in Due(c) : y.kind # "reply"
  BY <1>1, <1>3, NoReplyDue
<1>9. ~Outlived(c) => Within(broker.seq, mirror[c], Due(c))
  BY <1>1 DEF ClientInv, NumberInv
<1>10. QED
  BY <1>1, <1>2, <1>3, <1>7, <1>8, <1>9 DEF ViewInv

\* The parts of a broker that make a view.
SameRun == /\ broker'.pty = broker.pty /\ broker'.runs = broker.runs
           /\ broker'.terminal = broker.terminal /\ broker'.transcript = broker.transcript

LEMMA NothingMoves ==
  ASSUME TypeOK, SameRun
  PROVE  /\ \A at, asked : Moved(broker, broker', at, asked)
         /\ Live' <=> Live
         /\ TranscriptInv => TranscriptInv'
<1>1. broker.runs \in Nat
  BY MaxRunsAssumption DEF TypeOK, Brokers, Runs
<1>2. QED
  BY <1>1 DEF SameRun, Moved, Live, TranscriptInv

\* startPty has reset the transcript, or dispose has: no screen with an old one is left.
LEMMA ClearedMoves ==
  ASSUME TypeOK, broker' = broker \/ (ClearsBroker /\ (broker.pty = 0 \/ ~broker'.terminal))
  PROVE  /\ \A at, asked : Moved(broker, broker', at, asked)
         /\ Live' <=> Live
         /\ TranscriptInv => TranscriptInv'
<1>1. CASE broker' = broker
  <2>1. SameRun
    BY <1>1 DEF SameRun
  <2>2. QED
    BY <2>1, NothingMoves
<1>2. CASE ClearsBroker /\ (broker.pty = 0 \/ ~broker'.terminal)
  <2>1. PICK terminal \in BOOLEAN :
          broker' = [broker EXCEPT !.transcript = <<>>, !.lastExit = 0, !.seq = broker.seq + 1,
                                   !.terminal = terminal]
    BY <1>2 DEF ClearsBroker
  <2>2. broker'.pty = broker.pty /\ broker'.runs = broker.runs
    BY <2>1 DEF TypeOK, Brokers
  <2>3. broker.runs \in Nat /\ (broker.pty = 0 \/ ~broker'.terminal)
    BY <1>2, MaxRunsAssumption DEF TypeOK, Brokers, Runs
  <2>4. QED
    BY <2>2, <2>3 DEF Moved, Live, TranscriptInv
<1>3. QED
  BY <1>1, <1>2

LEMMA ServeSnapshotKeepsMirror ==
  ASSUME SessionInv, TypeOK', MirrorInv, NEW c \in Clients, ServeSnapshot(c),
         UNCHANGED <<mirror, call, answer>>
  PROVE  MirrorInv'
<1>1. TypeOK /\ ClientInv(c) /\ broker \in Brokers /\ KindInv(c) /\ TranscriptInv
  BY DEF SessionInv, TypeOK, MirrorInv
<1>2. PICK x : x = Reply(broker)
  OBVIOUS
<1>3. /\ x \in Answers /\ x.kind = "reply" /\ Number(x) = broker.seq /\ broker.seq \in Nat
  BY <1>1, <1>2, ReplyTyped
<1>4. /\ broker' = broker /\ serving' = serving /\ request[c] = "snapshot" /\ Respond(c, x)
      /\ unseen' = unseen \ {<<c, "run">>}
  BY <1>2 DEF ServeSnapshot
<1>5. request'[c] = "none" /\ \A d \in Clients \ {c} : request'[d] = request[d]
  BY <1>1, TakesFrom DEF ServeSnapshot
<1>6. Asks(c) /\ serving[c].type = "none"
  BY <1>1, <1>4 DEF Asks, ClientInv, RequestInv, IsServed
<1>7. /\ Due(c)' = Due(c) \cup {x} /\ Due(c) \in Dues /\ Due(c) \cup {x} \in Dues
      /\ \A y \in Due(c) : y.kind # "reply"
      /\ mirror[c] \in Mirrors
      /\ ~Outlived(c) => Within(broker.seq, mirror[c], Due(c)) /\ Tells(broker, Due(c))
  BY <1>3, <1>4, <1>6, DueOnAnswer
<1>8. call[c] \in {"attach", "check"} /\ (call[c] = "attach" => ~mirror[c].running)
  BY <1>1, <1>4 DEF KindInv
<1>9. ViewInv(c)'
  <2>1. ASSUME ~Outlived(c)
        PROVE  /\ Tells(broker, Due(c)')
               /\ Shown(broker, mirror[c], Due(c)', call[c], "none")
               /\ Live => Known(mirror[c], Due(c)', call[c], "none")
    <3>1. PICK more \in Dues : more = Due(c) \cup {x}
      BY <1>7
    <3>2. broker.pty # 0 /\ broker.terminal =>
            \A i \in 1..Len(broker.transcript) : broker.transcript[i] = <<broker.pty, i>>
      BY <1>1 DEF TranscriptInv, Live
    <3>3. /\ Tells(broker, more) /\ Shown(broker, mirror[c], more, call[c], "none")
          /\ broker.pty # 0 => Known(mirror[c], more, call[c], "none")
      BY <1>1, <1>2, <1>3, <1>7, <1>8, <2>1, <3>1, <3>2, SnapshotComes
    <3>4. QED
      BY <1>7, <3>1, <3>3 DEF Live
  <2>2. QED
    BY <1>4, <1>5, <2>1 DEF ViewInv, Live, Outlived
<1>10. SameRun
  BY <1>4 DEF SameRun
<1>11. /\ \A at, asked : Moved(broker, broker', at, asked)
       /\ Live' <=> Live
       /\ TranscriptInv'
  BY <1>1, <1>10, NothingMoves
<1>12. /\ serving'[c].type = "none" /\ \A d \in Clients \ {c} : serving'[d] = serving[d]
       /\ \A d \in Clients : <<d, "end">> \in unseen' <=> <<d, "end">> \in unseen
       /\ \A d \in Clients \ {c} : <<d, "run">> \in unseen => <<d, "run">> \in unseen'
       /\ broker'.clients = broker.clients /\ Number(x) >= broker.seq
  BY <1>3, <1>4, <1>6
<1>13. QED
  BY <1>3, <1>4, <1>5, <1>9, <1>11, <1>12, AnswerKeepsMirror

\* The new run has a number of its own: the windows it is not told to have missed its start.
LEMMA ServeStartKeepsMirror ==
  ASSUME SessionInv, TypeOK', MirrorInv, NEW c \in Clients, ServeStart(c),
         UNCHANGED <<mirror, call, answer>>
  PROVE  MirrorInv'
<1>1. /\ TypeOK /\ ClientInv(c) /\ broker \in Brokers /\ broker' \in Brokers /\ KindInv(c)
      /\ TranscriptInv /\ broker.runs \in Nat
  <2>1. /\ TypeOK /\ ClientInv(c) /\ broker \in Brokers /\ broker' \in Brokers /\ KindInv(c)
        /\ TranscriptInv
    BY DEF SessionInv, TypeOK, MirrorInv
  <2>2. broker.runs \in Nat
    BY <2>1, MaxRunsAssumption DEF Brokers, Runs
  <2>3. QED
    BY <2>1, <2>2
<1>2. PICK x : x = Reply(broker')
  OBVIOUS
<1>3. /\ x \in Answers /\ x.kind = "reply" /\ Number(x) = broker'.seq /\ broker'.seq \in Nat
  BY <1>1, <1>2, ReplyTyped
<1>4. /\ serving' = serving /\ request[c] = "start" /\ Respond(c, x) /\ broker.pty = 0
      /\ unseen' = unseen \cup ((broker.clients \ {c}) \X {"run"})
  BY <1>2 DEF ServeStart, Live
<1>5. /\ broker'.clients = broker.clients /\ broker'.seq = broker.seq + 1 /\ broker.seq \in Nat
      /\ broker'.transcript = <<>>
  BY <1>1 DEF ServeStart, Brokers
<1>6. broker'.pty = broker.runs + 1 /\ broker'.runs = broker.runs + 1
  BY <1>1 DEF ServeStart, Brokers
<1>7. request'[c] = "none" /\ \A d \in Clients \ {c} : request'[d] = request[d]
  BY <1>1, TakesFrom DEF ServeStart
<1>8. Asks(c) /\ serving[c].type = "none" /\ call[c] = "start"
  BY <1>1, <1>4 DEF Asks, ClientInv, RequestInv, IsServed, KindInv
<1>9. /\ Due(c)' = Due(c) \cup {x} /\ Due(c) \in Dues /\ Due(c) \cup {x} \in Dues
      /\ \A y \in Due(c) : y.kind # "reply"
      /\ mirror[c] \in Mirrors
      /\ ~Outlived(c) => /\ Within(broker.seq, mirror[c], Due(c)) /\ Tells(broker, Due(c))
                         /\ ~Missed(c) => Shown(broker, mirror[c], Due(c), call[c], request[c])
  BY <1>3, <1>4, <1>8, DueOnAnswer
<1>10. ViewInv(c)'
  <2>1. ASSUME ~Outlived(c)
        PROVE  /\ Tells(broker', Due(c)')
               /\ ~Missed(c) => Shown(broker', mirror[c], Due(c)', call[c], "none")
               /\ Known(mirror[c], Due(c)', call[c], "none")
    <3>1. PICK more \in Dues : more = Due(c) \cup {x}
      BY <1>9
    <3>2. PICK b \in Brokers : b = broker'
      BY <1>1
    <3>3. b.pty > broker.runs /\ b.runs >= b.pty /\ b.seq = broker.seq + 1 /\ b.transcript = <<>>
      BY <1>1, <1>5, <1>6, <3>2
    <3>4. /\ Tells(b, more) /\ Known(mirror[c], more, "start", "none")
          /\ Shown(broker, mirror[c], Due(c), "start", "start") =>
               Shown(b, mirror[c], more, "start", "none")
      BY <1>1, <1>2, <1>3, <1>4, <1>9, <2>1, <3>1, <3>2, <3>3, StartReplyComes
    <3>5. QED
      BY <1>4, <1>8, <1>9, <2>1, <3>1, <3>2, <3>4
  <2>2. /\ <<c, "end">> \in unseen' <=> <<c, "end">> \in unseen
        /\ <<c, "run">> \in unseen' <=> <<c, "run">> \in unseen
    BY <1>4
  <2>3. QED
    BY <1>7, <2>1, <2>2 DEF ViewInv, Outlived, Missed
<1>11. TranscriptInv'
  BY <1>1, <1>5, <1>6 DEF TranscriptInv, Live
<1>12. ASSUME NEW d \in (Clients \ {c}) \cap broker.clients
       PROVE  /\ <<d, "run">> \in unseen'
              /\ Moved(broker, broker', "idle", "none")
              /\ ~Missed(d)' => Moved(broker, broker', call[d], request[d])
  <2>1. <<d, "run">> \in unseen'
    BY <1>4
  <2>2. \A at, asked : at # "check" /\ asked # "start" => Moved(broker, broker', at, asked)
    BY <1>1, <1>4, <1>6 DEF Moved
  <2>3. ~Missed(d)' => call[d] # "check" /\ request[d] # "start"
    <3>1. SUFFICES ASSUME d \notin Starters
                   PROVE  call[d] # "check" /\ request[d] # "start"
      BY <2>1 DEF Missed
    <3>2. KindInv(d)
      BY DEF MirrorInv
    <3>3. QED
      BY <3>1, <3>2 DEF KindInv
  <2>4. QED
    BY <2>1, <2>2, <2>3
<1>13. /\ serving'[c].type = "none" /\ \A d \in Clients \ {c} : serving'[d] = serving[d]
       /\ \A d \in Clients : <<d, "end">> \in unseen' <=> <<d, "end">> \in unseen
       /\ \A d \in Clients \ {c} : <<d, "run">> \in unseen => <<d, "run">> \in unseen'
       /\ Number(x) >= broker.seq
  BY <1>3, <1>4, <1>5, <1>8
<1>14. QED
  BY <1>3, <1>4, <1>5, <1>7, <1>10, <1>11, <1>12, <1>13, AnswerKeepsMirror

\* An answer of a broker that has not moved, or has been cleared.
LEMMA OtherAnswerKeepsMirror ==
  ASSUME SessionInv, TypeOK', MirrorInv, NEW c \in Clients, NEW x \in Answers, Respond(c, x),
         UNCHANGED <<mirror, call, answer>>, unseen' = unseen,
         request'[c] = "none", serving'[c].type = "none",
         \A d \in Clients \ {c} : request'[d] = request[d] /\ serving'[d] = serving[d],
         Asks(c) \/ IsServed(c), request[c] # "snapshot",
         broker' = broker \/ (ClearsBroker /\ (broker.pty = 0 \/ ~broker'.terminal)),
         \/ x = Refusal
         \/ x = Reply(broker') /\ call[c] \in {"stop", "dispose"} /\ request[c] = "none"
  PROVE  MirrorInv'
<1>1. /\ TypeOK /\ TranscriptInv /\ broker' \in Brokers
  BY DEF SessionInv, TypeOK, MirrorInv
<1>2. /\ broker'.clients = broker.clients /\ broker.seq <= broker'.seq
      /\ broker.seq \in Nat /\ broker'.seq \in Nat
  BY <1>1, ClearedBroker DEF TypeOK, Brokers
<1>3. /\ \A at, asked : Moved(broker, broker', at, asked)
      /\ Live' <=> Live
      /\ TranscriptInv'
  BY <1>1, ClearedMoves
<1>4. /\ Due(c)' = Due(c) \cup {x} /\ Due(c) \in Dues /\ Due(c) \cup {x} \in Dues
      /\ \A y \in Due(c) : y.kind # "reply"
      /\ mirror[c] \in Mirrors /\ c \in broker.clients
      /\ ~Outlived(c) => /\ Within(broker.seq, mirror[c], Due(c)) /\ Tells(broker, Due(c))
                         /\ ~Missed(c) => Shown(broker, mirror[c], Due(c), call[c], request[c])
                         /\ <<c, "run">> \notin unseen /\ Live =>
                              Known(mirror[c], Due(c), call[c], request[c])
  BY DueOnAnswer
<1>5. x.kind = "reply" => Number(x) >= broker.seq
  BY <1>1, <1>2, ReplyTyped, AnswerShape
<1>6. ASSUME ~Outlived(c)
      PROVE  /\ Tells(broker', Due(c)')
             /\ ~Missed(c) => Shown(broker', mirror[c], Due(c)', call[c], "none")
             /\ <<c, "run">> \notin unseen /\ Live => Known(mirror[c], Due(c)', call[c], "none")
  <2>1. PICK b \in Brokers : b = broker'
    BY <1>1
  <2>2. PICK more \in Dues : more = Due(c) \cup {x}
    BY <1>4
  <2>3. broker \in Brokers
    BY <1>1 DEF TypeOK
  <2>4. /\ Tells(b, Due(c))
        /\ ~Missed(c) => Shown(b, mirror[c], Due(c), call[c], request[c])
    <3>1. Moved(broker, b, call[c], request[c])
      BY <1>3, <2>1
    <3>2. QED
      BY <1>4, <1>6, <2>3, <3>1, MovedKeepsView
  <2>5. CASE x = Refusal
    <3>1. more = Due(c) \cup {Refusal}
      BY <2>2, <2>5
    <3>2. /\ Tells(b, Due(c)) => Tells(b, more)
          /\ Shown(b, mirror[c], Due(c), call[c], request[c]) =>
               Shown(b, mirror[c], more, call[c], "none")
          /\ Known(mirror[c], Due(c), call[c], request[c]) =>
               Known(mirror[c], more, call[c], "none")
      BY <3>1, RefusalComes
    <3>3. QED
      BY <1>4, <1>6, <2>1, <2>2, <2>4, <3>2
  <2>6. CASE x = Reply(broker') /\ call[c] \in {"stop", "dispose"} /\ request[c] = "none"
    <3>1. Within(b.seq, mirror[c], Due(c))
      <4>1. \A y \in Due(c) : Number(y) \in Nat
        BY <1>4, DueShape
      <4>2. mirror[c].applied \in Nat
        BY <1>4 DEF Mirrors
      <4>3. QED
        BY <1>2, <1>4, <1>6, <2>1, <4>1, <4>2 DEF Within
    <3>2. b.pty # 0 /\ b.terminal =>
            \A i \in 1..Len(b.transcript) : b.transcript[i] = <<b.pty, i>>
      BY <1>3, <2>1 DEF TranscriptInv, Live
    <3>3. x = Reply(b)
      BY <2>1, <2>6
    <3>4. /\ Tells(b, more)
          /\ Shown(b, mirror[c], Due(c), call[c], "none") => Shown(b, mirror[c], more, call[c], "none")
          /\ b.pty # 0 /\ Known(mirror[c], Due(c), call[c], "none") =>
               Known(mirror[c], more, call[c], "none")
      BY <1>4, <2>2, <2>4, <2>6, <3>1, <3>2, <3>3, StopReplyComes
    <3>5. Live => b.pty # 0
      BY <1>3, <2>1 DEF Live
    <3>6. QED
      BY <1>4, <1>6, <2>1, <2>2, <2>4, <2>6, <3>4, <3>5
  <2>7. QED
    BY <2>5, <2>6
<1>7. ViewInv(c)'
  BY <1>2, <1>3, <1>6 DEF ViewInv, Outlived, Missed
<1>8. QED
  BY <1>2, <1>3, <1>5, <1>7, AnswerKeepsMirror

LEMMA RefuseStartKeepsMirror ==
  ASSUME SessionInv, TypeOK', MirrorInv, NEW c \in Clients, RefuseStart(c),
         UNCHANGED <<mirror, call, answer>>
  PROVE  MirrorInv'
<1>1. TypeOK /\ ClientInv(c)
  BY DEF SessionInv
<1>2. serving' = serving /\ request[c] = "start" /\ Respond(c, Refusal) /\ unseen' = unseen
  BY DEF RefuseStart
<1>3. broker' = broker \/ (ClearsBroker /\ (broker.pty = 0 \/ ~broker'.terminal))
  BY DEF RefuseStart, ClearsBroker, Live
<1>4. request'[c] = "none" /\ \A d \in Clients \ {c} : request'[d] = request[d]
  BY <1>1, TakesFrom DEF RefuseStart
<1>5. Asks(c) /\ serving'[c].type = "none"
  BY <1>1, <1>2 DEF Asks, ClientInv, RequestInv, IsServed
<1>6. \A d \in Clients \ {c} : request'[d] = request[d] /\ serving'[d] = serving[d]
  BY <1>2, <1>4
<1>7. Refusal \in Answers /\ request[c] # "snapshot"
  BY <1>2, RefusalTyped
<1>8. QED
  BY <1>2, <1>3, <1>4, <1>5, <1>6, <1>7, OtherAnswerKeepsMirror

LEMMA FinishStoppingKeepsMirror ==
  ASSUME SessionInv, TypeOK', MirrorInv, NEW c \in Clients, FinishStopping(c),
         UNCHANGED <<mirror, call, answer>>
  PROVE  MirrorInv'
<1>1. TypeOK /\ ClientInv(c) /\ broker' \in Brokers /\ KindInv(c)
  BY DEF SessionInv, TypeOK, MirrorInv
<1>2. PICK x : x = Reply(broker')
  OBVIOUS
<1>3. x \in Answers
  BY <1>1, <1>2, ReplyTyped
<1>4. /\ request' = request /\ unseen' = unseen /\ Respond(c, x) /\ IsServed(c)
      /\ call[c] \in {"stop", "dispose"}
  BY <1>1, <1>2 DEF FinishStopping, IsServed, KindInv
<1>5. broker' = broker \/ (ClearsBroker /\ (broker.pty = 0 \/ ~broker'.terminal))
  <2>1. CASE serving[c].type = "dispose"
    <3>1. broker' = [broker EXCEPT !.transcript = <<>>, !.lastExit = 0, !.seq = broker.seq + 1,
                                   !.terminal = FALSE]
      BY <2>1 DEF FinishStopping, Emptied
    <3>2. ~broker'.terminal
      BY <1>1, <3>1 DEF TypeOK, Brokers
    <3>3. QED
      BY <3>1, <3>2 DEF ClearsBroker
  <2>2. CASE serving[c].type # "dispose"
    BY <2>2 DEF FinishStopping
  <2>3. QED
    BY <2>1, <2>2
<1>6. serving'[c].type = "none" /\ \A d \in Clients \ {c} : serving'[d] = serving[d]
  BY <1>1, TakesFrom DEF FinishStopping
<1>7. request[c] = "none" /\ request'[c] = "none" /\ request[c] # "snapshot"
  BY <1>1, <1>4 DEF Asks, ClientInv, RequestInv
<1>8. \A d \in Clients \ {c} : request'[d] = request[d] /\ serving'[d] = serving[d]
  BY <1>4, <1>6
<1>9. QED
  BY <1>2, <1>3, <1>4, <1>5, <1>6, <1>7, <1>8, OtherAnswerKeepsMirror

LEMMA FailStoppingKeepsMirror ==
  ASSUME SessionInv, TypeOK', MirrorInv, NEW c \in Clients, FailStopping(c),
         UNCHANGED <<mirror, call, answer>>
  PROVE  MirrorInv'
<1>1. TypeOK /\ ClientInv(c)
  BY DEF SessionInv
<1>2. /\ request' = request /\ unseen' = unseen /\ broker' = broker
      /\ Respond(c, Refusal) /\ IsServed(c)
  BY DEF FailStopping, IsServed
<1>3. serving'[c].type = "none" /\ \A d \in Clients \ {c} : serving'[d] = serving[d]
  BY <1>1, TakesFrom DEF FailStopping
<1>4. request'[c] = "none" /\ request[c] # "snapshot"
  BY <1>1, <1>2 DEF Asks, ClientInv, RequestInv
<1>5. \A d \in Clients \ {c} : request'[d] = request[d] /\ serving'[d] = serving[d]
  BY <1>2, <1>3
<1>6. Refusal \in Answers
  BY RefusalTyped
<1>7. QED
  BY <1>2, <1>3, <1>4, <1>5, <1>6, OtherAnswerKeepsMirror

\* A request is taken, and its answer waits for the exit of the PTY.
LEMMA ServeStoppingKeepsMirror ==
  ASSUME SessionInv, TypeOK', MirrorInv, NEW c \in Clients, ServeStopping(c),
         UNCHANGED <<mirror, call, answer>>
  PROVE  MirrorInv'
<1>1. TypeOK /\ ClientInv(c) /\ TranscriptInv /\ OrderInv(c) /\ KindInv(c) /\ ViewInv(c)
  BY DEF SessionInv, MirrorInv
<1>2. /\ mirror' = mirror /\ call' = call /\ answer' = answer
      /\ broker' = broker /\ inbox' = inbox /\ unseen' = unseen
      /\ request[c] \in {"stop", "dispose", "shutdown"}
  BY DEF ServeStopping
<1>3. request'[c] = "none" /\ \A d \in Clients \ {c} : request'[d] = request[d]
  BY <1>1, TakesFrom DEF ServeStopping
<1>4. serving'[c].type = request[c] /\ \A d \in Clients \ {c} : serving'[d] = serving[d]
  BY <1>1 DEF ServeStopping, TypeOK
<1>5. OrderInv(c)' /\ KindInv(c)'
  BY <1>1, <1>2, <1>3, <1>4 DEF OrderInv, KindInv, Outlived
<1>6. \A b, m, due, at :
        /\ Shown(b, m, due, at, request[c]) => Shown(b, m, due, at, "none")
        /\ Known(m, due, at, request[c]) => Known(m, due, at, "none")
  <2>1. request[c] # "snapshot"
    BY <1>2
  <2>2. \A m, due : Corrected(m, due, request[c] = "snapshot") => Corrected(m, due, FALSE)
    BY <2>1 DEF Corrected
  <2>3. ("none" = "snapshot") = FALSE
    OBVIOUS
  <2>4. QED
    BY <2>1, <2>2, <2>3 DEF Shown, Known
<1>7. ViewInv(c)'
  BY <1>1, <1>2, <1>3, <1>6 DEF ViewInv, Outlived, Missed, Due, Live
<1>8. SameRun
  BY <1>2 DEF SameRun
<1>9. TranscriptInv' /\ \A at, asked : Moved(broker, broker', at, asked)
  BY <1>1, <1>8, NothingMoves
<1>10. ASSUME NEW d \in Clients \ {c}
       PROVE  OrderInv(d)' /\ KindInv(d)' /\ ViewInv(d)'
  <2>1. Same(d) /\ (Live' => Live)
    BY <1>2, <1>3, <1>4 DEF Same, Live
  <2>2. OrderInv(d) /\ KindInv(d) /\ ViewInv(d)
    BY DEF MirrorInv
  <2>3. QED
    BY <1>1, <1>2, <1>9, <2>1, <2>2, OthersKeepView
<1>11. QED
  BY <1>5, <1>7, <1>9, <1>10 DEF MirrorInv

LEMMA ServeControlKeepsMirror ==
  ASSUME SessionInv, TypeOK', MirrorInv, ServeControl, UNCHANGED <<mirror, call, answer>>
  PROVE  MirrorInv'
<1>1. TypeOK /\ TranscriptInv
  BY DEF SessionInv, MirrorInv
<1>2. SameRun /\ broker'.clients = broker.clients
  BY <1>1 DEF ServeControl, SameRun, TypeOK, Brokers
<1>3. /\ TranscriptInv' /\ (Live' => Live) /\ unseen' = unseen
      /\ \A at, asked : Moved(broker, broker', at, asked)
  BY <1>1, <1>2, NothingMoves DEF ServeControl
<1>4. ASSUME NEW d \in Clients
      PROVE  OrderInv(d)' /\ KindInv(d)' /\ ViewInv(d)'
  <2>1. Same(d)
    BY <1>2 DEF Same, ServeControl
  <2>2. OrderInv(d) /\ KindInv(d) /\ ViewInv(d)
    BY DEF MirrorInv
  <2>3. QED
    BY <1>1, <1>3, <2>1, <2>2, OthersKeepView
<1>5. QED
  BY <1>3, <1>4 DEF MirrorInv

\* The broker is gone: nobody is connected to it.
LEMMA EndKeepsMirror ==
  ASSUME SessionInv, TypeOK', MirrorInv, BrokerEnds, UNCHANGED <<mirror, call, answer>>,
         \A c \in Clients : (Outlived(c) => Outlived(c)')
                            /\ (Outlived(c)' \/ inbox'[c] = inbox[c])
  PROVE  MirrorInv'
<1>1. /\ TypeOK /\ broker'.pty = 0 /\ broker'.runs = broker.runs /\ broker'.clients = {}
  BY DEF SessionInv, BrokerEnds, Down
<1>2. TranscriptInv'
  <2>1. broker.runs \in Nat
    BY <1>1, MaxRunsAssumption DEF TypeOK, Brokers, Runs
  <2>2. QED
    BY <1>1, <2>1 DEF TranscriptInv, Live
<1>3. ASSUME NEW c \in Clients
      PROVE  OrderInv(c)' /\ KindInv(c)' /\ ViewInv(c)'
  <2>1. OrderInv(c) /\ KindInv(c)
    BY DEF MirrorInv
  <2>2. mirror' = mirror /\ call' = call /\ answer' = answer
    OBVIOUS
  <2>3. request'[c] = "none" /\ serving'[c].type = "none"
    BY DEF BrokerEnds
  <2>4. OrderInv(c)'
    <3>1. SUFFICES ASSUME ~Outlived(c)'
                   PROVE  InOrder(mirror[c].queued, inbox'[c], answer[c])
      BY <2>2 DEF OrderInv
    <3>2. ~Outlived(c) /\ inbox'[c] = inbox[c]
      BY <3>1
    <3>3. QED
      BY <2>1, <3>2 DEF OrderInv
  <2>5. KindInv(c)'
    BY <2>1, <2>2, <2>3 DEF KindInv
  <2>6. ViewInv(c)'
    BY <1>1 DEF ViewInv
  <2>7. QED
    BY <2>4, <2>5, <2>6
<1>4. QED
  BY <1>2, <1>3 DEF MirrorInv

LEMMA FinishShutdownKeepsMirror ==
  ASSUME SessionInv, TypeOK', MirrorInv, NEW c \in Clients, FinishShutdown(c, Knowing),
         UNCHANGED <<mirror, call, answer>>
  PROVE  MirrorInv'
<1>1. TypeOK /\ ClientInv(c)
  BY DEF SessionInv
<1>2. PICK x : x = Reply(broker)
  OBVIOUS
<1>3. Respond(c, x) /\ IsServed(c) /\ BrokerEnds
  BY <1>2 DEF FinishShutdown, IsServed
<1>4. \A d \in Clients \ {c} : inbox'[d] = inbox[d]
  BY <1>1, <1>3, RespondsTo
<1>5. c \in Knowing
  BY <1>1, <1>3 DEF ClientInv, RequestInv, SocketInv, Knowing
<1>6. Outlived(c)' /\ \A d \in Clients : Outlived(d) => Outlived(d)'
  BY <1>5 DEF FinishShutdown, Outlived
<1>7. \A d \in Clients : Outlived(d)' \/ inbox'[d] = inbox[d]
  BY <1>4, <1>6
<1>8. QED
  BY <1>3, <1>6, <1>7, EndKeepsMirror

LEMMA IdleExitKeepsMirror ==
  ASSUME SessionInv, TypeOK', MirrorInv, IdleExit
  PROVE  MirrorInv'
<1>1. UNCHANGED <<mirror, call, answer>> /\ BrokerEnds /\ inbox' = inbox /\ unseen' = unseen
  BY DEF IdleExit
<1>2. \A c \in Clients : (Outlived(c) => Outlived(c)') /\ (Outlived(c)' \/ inbox'[c] = inbox[c])
  BY <1>1 DEF Outlived
<1>3. QED
  BY <1>1, <1>2, EndKeepsMirror

\* A broadcast reaches the windows that are connected.
LEMMA EventKeepsOrder ==
  ASSUME SessionInv, MirrorInv, NEW c \in Clients, NEW e \in Events, Broadcast(e),
         UNCHANGED <<mirror, call, answer, request, serving, unseen>>, e.seq = broker.seq + 1
  PROVE  OrderInv(c)' /\ KindInv(c)'
<1>1. TypeOK /\ NumberInv(c) /\ OrderInv(c) /\ KindInv(c) /\ e \in Messages
  BY DEF SessionInv, ClientInv, MirrorInv, Messages
<1>2. mirror' = mirror /\ call' = call /\ answer' = answer /\ request' = request
      /\ serving' = serving /\ unseen' = unseen
  OBVIOUS
<1>3. inbox'[c] = Append(inbox[c], e) \/ inbox'[c] = inbox[c]
  BY BroadcastReaches
<1>4. e.seq > broker.seq /\ e.kind # "reply"
  BY <1>1, EventShape, ClientTypes
<1>5. OrderInv(c)'
  <2>1. CASE inbox'[c] = Append(inbox[c], e)
    BY <1>1, <1>2, <1>4, <2>1, OrderOnArrival
  <2>2. CASE inbox'[c] = inbox[c]
    BY <1>1, <1>2, <2>2 DEF OrderInv, Outlived
  <2>3. QED
    BY <1>3, <2>1, <2>2
<1>6. KindInv(c)'
  BY <1>1, <1>2 DEF KindInv
<1>7. QED
  BY <1>5, <1>6

LEMMA PtyWritesKeepsMirror ==
  ASSUME SessionInv, TypeOK', MirrorInv, PtyWrites, UNCHANGED <<mirror, call, answer>>
  PROVE  MirrorInv'
<1>1. /\ TypeOK /\ broker \in Brokers /\ broker' \in Brokers /\ broker.seq \in Nat
      /\ TranscriptInv /\ broker.transcript \in Seq(Outputs)
  BY DEF SessionInv, TypeOK, Brokers, MirrorInv
<1>2. PICK output : output = <<broker.pty, Len(broker.transcript) + 1>>
  OBVIOUS
<1>3. output \in Outputs
  BY <1>1, <1>2 DEF Brokers, Outputs
<1>4. PICK transcript : transcript = Append(broker.transcript, output)
  OBVIOUS
<1>5. broker' = [broker EXCEPT !.transcript = transcript, !.seq = broker.seq + 1]
  BY <1>2, <1>4 DEF PtyWrites
<1>6. /\ broker'.clients = broker.clients /\ broker'.seq = broker.seq + 1
      /\ broker'.pty = broker.pty /\ broker'.runs = broker.runs
      /\ broker'.terminal = broker.terminal /\ broker'.transcript = transcript
  BY <1>1, <1>5 DEF Brokers
<1>7. PICK e : e = [kind |-> "output", seq |-> broker'.seq, output |-> output]
  OBVIOUS
<1>8. /\ e \in Events /\ e.seq = broker.seq + 1 /\ e.kind = "output"
      /\ e.output = <<broker.pty, Len(broker.transcript) + 1>>
  BY <1>1, <1>2, <1>3, <1>6, <1>7 DEF Events
<1>9. Broadcast(e) /\ Live /\ broker.terminal
  BY <1>2, <1>7 DEF PtyWrites
<1>10. UNCHANGED <<mirror, call, answer, request, serving, unseen>>
  BY DEF PtyWrites
<1>11. /\ Len(transcript) = Len(broker.transcript) + 1 /\ Len(broker.transcript) \in Nat
       /\ \A i \in 1..Len(broker.transcript) : transcript[i] = broker.transcript[i]
       /\ transcript[Len(broker.transcript) + 1] = output
  BY <1>1, <1>3, <1>4
<1>12. TranscriptInv'
  <2>1. \A i \in 1..Len(transcript) :
          i \in 1..Len(broker.transcript) \/ i = Len(broker.transcript) + 1
    BY <1>11
  <2>2. \A i \in 1..Len(broker.transcript) : broker.transcript[i] = <<broker.pty, i>>
    BY <1>1, <1>9 DEF TranscriptInv
  <2>3. \A i \in 1..Len(transcript) : transcript[i] = <<broker.pty, i>>
    BY <1>2, <1>11, <2>1, <2>2
  <2>4. QED
    BY <1>1, <1>6, <2>3 DEF TranscriptInv
<1>13. ASSUME NEW c \in Clients
       PROVE  ViewInv(c)'
  <2>1. ClientInv(c) /\ ViewInv(c)
    BY DEF SessionInv, MirrorInv
  <2>2. UNCHANGED <<request, serving, unseen, mirror, call, answer>>
    BY <1>10
  <2>3. /\ Due(c)' = IF c \in broker.clients THEN Due(c) \cup {e} ELSE Due(c)
        /\ Due(c) \cup {e} \in Dues
    BY <1>1, <1>6, <1>8, <1>9, <2>1, <2>2, BroadcastReaches, EventKeepsRest
  <2>4. Due(c) \in Dues /\ mirror[c] \in Mirrors
    BY <1>1, ClientTypes
  <2>5. ASSUME c \in broker.clients, ~Outlived(c)
        PROVE  /\ Tells(broker', Due(c)')
               /\ ~Missed(c) => Shown(broker', mirror[c], Due(c)', call[c], request[c])
               /\ <<c, "run">> \notin unseen => Known(mirror[c], Due(c)', call[c], request[c])
    <3>1. PICK more \in Dues : more = Due(c) \cup {e}
      BY <2>3
    <3>2. PICK b \in Brokers : b = broker'
      BY <1>1
    <3>3. /\ b.pty = broker.pty /\ b.runs = broker.runs /\ b.terminal = broker.terminal
          /\ Len(b.transcript) = Len(broker.transcript) + 1
      BY <1>6, <1>11, <3>2
    <3>4. Within(broker.seq, mirror[c], Due(c)) /\ Tells(broker, Due(c))
      BY <2>1, <2>5 DEF ClientInv, NumberInv, ViewInv
    <3>5. broker.pty # 0 /\ broker.pty <= broker.runs
      BY <1>1, <1>9 DEF TranscriptInv, Live
    <3>6. /\ Tells(b, more)
          /\ Shown(broker, mirror[c], Due(c), call[c], request[c]) =>
               Shown(b, mirror[c], more, call[c], request[c])
          /\ Known(mirror[c], Due(c), call[c], request[c]) =>
               Known(mirror[c], more, call[c], request[c])
      BY <1>1, <1>8, <1>9, <2>4, <3>1, <3>2, <3>3, <3>4, <3>5, OutputKeepsView
    <3>7. /\ ~Missed(c) => Shown(broker, mirror[c], Due(c), call[c], request[c])
          /\ <<c, "run">> \notin unseen => Known(mirror[c], Due(c), call[c], request[c])
      BY <1>9, <2>1, <2>5 DEF ViewInv
    <3>8. QED
      BY <2>3, <2>5, <3>1, <3>2, <3>6, <3>7
  <2>6. QED
    BY <1>6, <2>2, <2>5 DEF ViewInv, Outlived, Missed
<1>14. QED
  BY <1>8, <1>9, <1>10, <1>12, <1>13, EventKeepsOrder DEF MirrorInv

LEMMA PtyExitsKeepsMirror ==
  ASSUME SessionInv, TypeOK', MirrorInv, PtyExits, UNCHANGED <<mirror, call, answer>>
  PROVE  MirrorInv'
<1>1. /\ TypeOK /\ broker \in Brokers /\ broker' \in Brokers /\ broker.seq \in Nat
      /\ broker.pty \in Runs
  BY DEF SessionInv, TypeOK, Brokers
<1>2. /\ broker'.clients = broker.clients /\ broker'.seq = broker.seq + 1
      /\ broker'.pty = 0 /\ broker'.runs = broker.runs
  BY <1>1 DEF Brokers, PtyExits
<1>3. PICK e : e = [kind |-> "exit", seq |-> broker'.seq, run |-> broker.pty]
  OBVIOUS
<1>4. e \in Events /\ e.seq = broker.seq + 1 /\ e.kind = "exit"
  BY <1>1, <1>2, <1>3 DEF Events
<1>5. Broadcast(e) /\ broker.pty # 0
  BY <1>3 DEF PtyExits, Live
<1>6. UNCHANGED <<mirror, call, answer, request, serving, unseen>>
  BY DEF PtyExits
<1>7. TranscriptInv'
  <2>1. broker.runs \in Nat
    BY <1>1, MaxRunsAssumption DEF Brokers, Runs
  <2>2. QED
    BY <1>2, <2>1 DEF TranscriptInv, Live
<1>8. ASSUME NEW c \in Clients
      PROVE  ViewInv(c)'
  <2>1. ClientInv(c) /\ ViewInv(c)
    BY DEF SessionInv, MirrorInv
  <2>2. UNCHANGED <<request, serving, unseen, mirror, call, answer>>
    BY <1>6
  <2>3. /\ Due(c)' = IF c \in broker.clients THEN Due(c) \cup {e} ELSE Due(c)
        /\ Due(c) \cup {e} \in Dues
    BY <1>1, <1>2, <1>4, <1>5, <2>1, <2>2, BroadcastReaches, EventKeepsRest
  <2>4. Due(c) \in Dues /\ mirror[c] \in Mirrors
    BY <1>1, ClientTypes
  <2>5. ASSUME c \in broker.clients, ~Outlived(c)
        PROVE  /\ Tells(broker', Due(c)')
               /\ ~Missed(c) => Shown(broker', mirror[c], Due(c)', call[c], request[c])
    <3>1. PICK more \in Dues : more = Due(c) \cup {e}
      BY <2>3
    <3>2. PICK b \in Brokers : b = broker'
      BY <1>1
    <3>3. Within(broker.seq, mirror[c], Due(c)) /\ Tells(broker, Due(c))
      BY <2>1, <2>5 DEF ClientInv, NumberInv, ViewInv
    <3>4. b.pty = 0 /\ b.runs = broker.runs
      BY <1>2, <3>2
    <3>5. /\ Tells(b, more)
          /\ Shown(broker, mirror[c], Due(c), call[c], request[c]) =>
               Shown(b, mirror[c], more, call[c], request[c])
      BY <1>1, <1>4, <1>5, <2>4, <3>1, <3>3, <3>4, ExitKeepsView
    <3>6. ~Missed(c) => Shown(broker, mirror[c], Due(c), call[c], request[c])
      BY <2>1, <2>5 DEF ViewInv
    <3>7. QED
      BY <2>3, <2>5, <3>1, <3>2, <3>5, <3>6
  <2>6. QED
    BY <1>2, <2>2, <2>5 DEF ViewInv, Outlived, Missed, Live
<1>9. QED
  BY <1>4, <1>5, <1>6, <1>7, <1>8, EventKeepsOrder DEF MirrorInv

LEMMA ServingKeepsMirror ==
  ASSUME SessionInv, TypeOK', MirrorInv, Serving
  PROVE  MirrorInv'
<1>1. BrokerActs(Knowing) /\ UNCHANGED <<mirror, call, answer>>
  BY DEF Serving
<1>2. QED
  BY <1>1, ServeSnapshotKeepsMirror, ServeStartKeepsMirror, RefuseStartKeepsMirror,
     ServeStoppingKeepsMirror, FinishStoppingKeepsMirror, FailStoppingKeepsMirror,
     FinishShutdownKeepsMirror, PtyWritesKeepsMirror, PtyExitsKeepsMirror,
     ServeControlKeepsMirror
     DEF BrokerActs

-----------------------------------------------------------------------------
(* The calls of a controller, and what the windows show                    *)

LEMMA Touched ==
  ASSUME TypeOK, NEW c \in Clients
  PROVE  /\ \A m : Becomes(c, m) =>
              mirror'[c] = m /\ \A d \in Clients \ {c} : mirror'[d] = mirror[d]
         /\ \A next : Goes(c, next) =>
              call'[c] = next /\ \A d \in Clients \ {c} : call'[d] = call[d]
         /\ \A type : Send(c, type) =>
              request'[c] = type /\ \A d \in Clients \ {c} : request'[d] = request[d]
         /\ \A next : GoesOn(c, next) =>
              /\ answer'[c] = NoAnswer /\ call'[c] = next /\ serving' = serving
              /\ \A d \in Clients \ {c} : answer'[d] = answer[d] /\ call'[d] = call[d]
         /\ Forgets(c) => \A d \in Clients \ {c} :
              /\ <<d, "run">> \in unseen' <=> <<d, "run">> \in unseen
              /\ <<d, "end">> \in unseen' <=> <<d, "end">> \in unseen
  BY DEF TypeOK, Becomes, Goes, Send, GoesOn, Forgets

LEMMA ConnectsTo ==
  ASSUME TypeOK, NEW c \in Clients, NEW up \in BOOLEAN,
         broker' = [broker EXCEPT !.up = up, !.clients = broker.clients \cup {c}]
  PROVE  SameRun /\ broker'.clients = broker.clients \cup {c}
  BY DEF TypeOK, Brokers, SameRun

LEMMA HungUp ==
  ASSUME TypeOK, NEW c \in Clients, HangsUp(c)
  PROVE  /\ SameRun /\ broker'.clients = broker.clients \ {c}
         /\ request'[c] = "none" /\ inbox'[c] = <<>>
         /\ \A d \in Clients \ {c} : request'[d] = request[d] /\ inbox'[d] = inbox[d]
<1>1. SameRun /\ broker'.clients = broker.clients \ {c}
  BY DEF TypeOK, Brokers, SameRun, HangsUp
<1>2. QED
  BY <1>1, HangsUpTyped

\* A call of a controller is not seen by the others.
Apart(c) ==
  /\ SameRun
  /\ \A d \in Clients \ {c} : Same(d) /\ (<<d, "run">> \in unseen' <=> <<d, "run">> \in unseen)

LEMMA CallsApart ==
  ASSUME TypeOK, NEW c \in Clients, Controls(c)
  PROVE  Apart(c)
<1>1. ASSUME UNCHANGED <<broker, unseen>>
      PROVE  SameRun /\ \A d \in Clients : /\ <<d, "run">> \in unseen' <=> <<d, "run">> \in unseen
                                           /\ <<d, "end">> \in unseen' <=> <<d, "end">> \in unseen
                                           /\ d \in broker'.clients <=> d \in broker.clients
  BY <1>1 DEF SameRun
<1>2. CASE Enter(c) \/ DrainAttach(c) \/ FinishAttach(c)
  BY <1>1, <1>2, Touched DEF Enter, DrainAttach, FinishAttach, brokerVars, Apart, Same
<1>3. CASE Attach(c)
  <2>1. broker.up \in BOOLEAN /\ broker' = [broker EXCEPT !.up = broker.up, !.clients = broker.clients \cup {c}]
    BY <1>3 DEF Attach, Connects, TypeOK, Brokers
  <2>2. SameRun /\ broker'.clients = broker.clients \cup {c}
    BY <2>1, ConnectsTo
  <2>3. QED
    BY <1>3, <2>2, Touched DEF Attach, Apart, Same
<1>4. CASE Start(c)
  <2>1. CASE mirror[c].connected
    BY <1>1, <1>4, <2>1, Touched DEF Start, Apart, Same
  <2>2. CASE ~mirror[c].connected
    <3>1. broker' = [broker EXCEPT !.up = TRUE, !.clients = broker.clients \cup {c}]
      BY <1>4, <2>2 DEF Start
    <3>2. SameRun /\ broker'.clients = broker.clients \cup {c}
      BY <3>1, ConnectsTo
    <3>3. QED
      BY <1>4, <3>2, Touched DEF Start, Apart, Same
  <2>3. QED
    BY <2>1, <2>2
<1>5. CASE Stop(c) \/ Dispose(c) \/ Quit(c)
  BY <1>1, <1>5, Touched DEF Stop, Dispose, Quit, Apart, Same
<1>6. CASE Leave(c) \/ ContinueShutdown(c)
  <2>1. HangsUp(c) /\ Forgets(c)
    BY <1>6 DEF Leave, ContinueShutdown
  <2>2. \A d \in Clients \ {c} : d \in broker'.clients <=> d \in broker.clients
    BY <2>1, HungUp
  <2>3. QED
    BY <1>6, <2>1, <2>2, HungUp, Touched DEF Leave, ContinueShutdown, Apart, Same
<1>7. CASE ContinueDispose(c)
  <2>1. HangsUp(c)
    BY <1>7 DEF ContinueDispose
  <2>2. \A d \in Clients \ {c} : d \in broker'.clients <=> d \in broker.clients
    BY <2>1, HungUp
  <2>3. QED
    BY <1>7, <2>1, <2>2, HungUp, Touched DEF ContinueDispose, Apart, Same
<1>8. CASE ReadEvent(c)
  <2>1. \A d \in Clients \ {c} : inbox'[d] = inbox[d]
    BY <1>8 DEF ReadEvent, TypeOK
  <2>2. QED
    BY <1>1, <1>8, <2>1, Touched DEF ReadEvent, Apart, Same
<1>9. CASE ReadAnswer(c)
  <2>1. \A d \in Clients \ {c} : inbox'[d] = inbox[d] /\ answer'[d] = answer[d]
    BY <1>9 DEF ReadAnswer, TypeOK
  <2>2. QED
    BY <1>1, <1>9, <2>1 DEF ReadAnswer, Apart, Same
<1>10. CASE ContinueAttach(c) \/ ContinueRun(c)
  BY <1>1, <1>10, Touched DEF ContinueAttach, ContinueRun, Apart, Same
<1>11. CASE ContinueCheck(c)
  <2>1. PICK m : m = ApplyState(mirror[c], answer[c].state, TRUE)
    OBVIOUS
  <2>2. /\ UNCHANGED <<broker, inbox, unseen>>
        /\ IF m.running \/ HasSession(m)
             THEN GoesOn(c, "idle") /\ Becomes(c, m) /\ UNCHANGED request
             ELSE /\ GoesOn(c, "start") /\ Becomes(c, Fresh(m))
                  /\ IF c \in broker.clients THEN Send(c, "start") ELSE UNCHANGED request
    BY <1>11, <2>1 DEF ContinueCheck
  <2>3. QED
    BY <1>1, <2>2, Touched DEF Apart, Same
<1>12. CASE SeesClose(c)
  <2>1. \A d \in Clients \ {c} : inbox'[d] = inbox[d]
    BY <1>12 DEF SeesClose, TypeOK
  <2>2. UNCHANGED <<broker, request, serving, answer>>
    BY <1>12 DEF SeesClose
  <2>3. \A d \in Clients \ {c} : mirror'[d] = mirror[d] /\ call'[d] = call[d]
    BY <1>12, Touched DEF SeesClose
  <2>4. unseen' = unseen \/ Forgets(c)
    BY <1>12 DEF SeesClose
  <2>5. QED
    BY <2>1, <2>2, <2>3, <2>4, Touched DEF Apart, Same, SameRun
<1>13. QED
  BY <1>2, <1>3, <1>4, <1>5, <1>6, <1>7, <1>8, <1>9, <1>10, <1>11, <1>12 DEF Controls, Continue

LEMMA ControlKeepsMirror ==
  ASSUME SessionInv, TypeOK', MirrorInv, NEW c \in Clients, Controls(c),
         OrderInv(c)', KindInv(c)', ViewInv(c)'
  PROVE  MirrorInv'
<1>1. TypeOK /\ Apart(c) /\ TranscriptInv
  BY CallsApart DEF SessionInv, MirrorInv
<1>2. /\ \A at, asked : Moved(broker, broker', at, asked)
      /\ Live' <=> Live
      /\ TranscriptInv'
  BY <1>1, NothingMoves DEF Apart
<1>3. ASSUME NEW d \in Clients \ {c}
      PROVE  OrderInv(d)' /\ KindInv(d)' /\ ViewInv(d)'
  <2>1. /\ OrderInv(d) /\ KindInv(d) /\ ViewInv(d) /\ Same(d)
        /\ <<d, "run">> \in unseen' <=> <<d, "run">> \in unseen
    BY <1>1 DEF MirrorInv, Apart
  <2>2. QED
    BY <1>1, <1>2, <2>1, OthersKeepView
<1>4. QED
  BY <1>2, <1>3 DEF MirrorInv

LEMMA NothingInOrder == InOrder(<<>>, <<>>, NoAnswer)
  BY NothingIsEmpty DEF InOrder

\* A window that is not connected shows what it likes.
LEMMA AwayKeepsMirror ==
  ASSUME SessionInv, TypeOK', MirrorInv, NEW c \in Clients, Controls(c),
         c \notin broker'.clients, request'[c] = "none", serving'[c].type = "none",
         call'[c] \in {"absent", "idle", "replay"},
         \/ Outlived(c)'
         \/ mirror'[c].queued = <<>> /\ inbox'[c] = <<>> /\ answer'[c] = NoAnswer
  PROVE  MirrorInv'
<1>1. OrderInv(c)'
  BY NothingInOrder DEF OrderInv
<1>2. KindInv(c)' /\ ViewInv(c)'
  BY DEF KindInv, ViewInv
<1>3. QED
  BY <1>1, <1>2, ControlKeepsMirror

LEMMA EnterKeepsMirror ==
  ASSUME SessionInv, TypeOK', MirrorInv, NEW c \in Clients, Enter(c)
  PROVE  MirrorInv'
<1>1. /\ TypeOK /\ ClientInv(c) /\ UNCHANGED <<answer, broker, request, serving, inbox, unseen>>
      /\ call[c] = "absent" /\ Becomes(c, EmptyMirror) /\ Goes(c, "idle")
  BY DEF SessionInv, Enter, brokerVars
<1>2. /\ mirror'[c] = EmptyMirror /\ call'[c] = "idle"
      /\ c \notin broker.clients /\ inbox[c] = <<>> /\ answer[c] = NoAnswer
  BY <1>1, Touched, EmptyMirrorTyped DEF ClientInv, SocketInv, Answered
<1>3. request[c] = "none" /\ serving[c].type = "none"
  BY <1>1, IdleClient
<1>4. QED
  BY <1>1, <1>2, <1>3, EmptyMirrorTyped, AwayKeepsMirror DEF Controls

LEMMA LeaveKeepsMirror ==
  ASSUME SessionInv, TypeOK', MirrorInv, NEW c \in Clients, Leave(c)
  PROVE  MirrorInv'
<1>1. /\ TypeOK /\ ClientInv(c) /\ UNCHANGED <<serving, answer>> /\ HangsUp(c)
      /\ call[c] = "idle" /\ Becomes(c, EmptyMirror) /\ Goes(c, "absent")
  BY DEF SessionInv, Leave
<1>2. /\ mirror'[c] = EmptyMirror /\ call'[c] = "absent" /\ request'[c] = "none"
      /\ c \notin broker'.clients /\ inbox'[c] = <<>>
  BY <1>1, Touched, HungUp
<1>3. serving[c].type = "none" /\ answer[c] = NoAnswer
  BY <1>1, IdleClient
<1>4. QED
  BY <1>1, <1>2, <1>3, EmptyMirrorTyped, AwayKeepsMirror DEF Controls

LEMMA ContinueDisposeKeepsMirror ==
  ASSUME SessionInv, TypeOK', MirrorInv, NEW c \in Clients, ContinueDispose(c)
  PROVE  MirrorInv'
<1>1. /\ TypeOK /\ ClientInv(c) /\ mirror[c] \in Mirrors /\ Answered(c) /\ call[c] = "dispose"
      /\ HangsUp(c) /\ GoesOn(c, "idle")
  BY DEF SessionInv, TypeOK, ContinueDispose
<1>2. serving[c].type = "none" /\ mirror[c].queued = <<>>
  BY <1>1, AnsweredClient
<1>3. PICK m : m = IF answer[c].kind = "reply" THEN Cleared(mirror[c]) ELSE Disconnected(mirror[c])
  OBVIOUS
<1>4. m.queued = <<>> /\ Becomes(c, m)
  BY <1>1, <1>2, <1>3, ChangedFields DEF ContinueDispose
<1>5. /\ mirror'[c] = m /\ call'[c] = "idle" /\ request'[c] = "none" /\ answer'[c] = NoAnswer
      /\ serving' = serving /\ c \notin broker'.clients /\ inbox'[c] = <<>>
  BY <1>1, <1>4, Touched, HungUp
<1>6. QED
  BY <1>2, <1>4, <1>5, AwayKeepsMirror DEF Controls, Continue

LEMMA ContinueShutdownKeepsMirror ==
  ASSUME SessionInv, TypeOK', MirrorInv, NEW c \in Clients, ContinueShutdown(c)
  PROVE  MirrorInv'
<1>1. /\ TypeOK /\ ClientInv(c) /\ Answered(c) /\ HangsUp(c) /\ GoesOn(c, "absent")
      /\ Becomes(c, EmptyMirror)
  BY DEF SessionInv, ContinueShutdown
<1>2. serving[c].type = "none"
  BY <1>1, AnsweredClient
<1>3. /\ mirror'[c] = EmptyMirror /\ call'[c] = "absent" /\ request'[c] = "none"
      /\ answer'[c] = NoAnswer /\ serving' = serving /\ c \notin broker'.clients
      /\ inbox'[c] = <<>>
  BY <1>1, Touched, HungUp
<1>4. QED
  BY <1>2, <1>3, EmptyMirrorTyped, AwayKeepsMirror DEF Controls, Continue

LEMMA SeesCloseKeepsMirror ==
  ASSUME SessionInv, TypeOK', MirrorInv, NEW c \in Clients, SeesClose(c)
  PROVE  MirrorInv'
<1>1. /\ TypeOK /\ ClientInv(c) /\ mirror[c].connected /\ c \notin broker.clients /\ ~Answered(c)
      /\ UNCHANGED <<broker, request, serving, answer>> /\ inbox' = [inbox EXCEPT ![c] = <<>>]
  BY DEF SessionInv, SeesClose
<1>2. /\ Outlived(c) /\ request[c] = "none" /\ serving[c].type = "none" /\ answer[c] = NoAnswer
      /\ inbox'[c] = <<>>
  BY <1>1 DEF ClientInv, SocketInv, RequestInv, Asks, IsServed, Answered, TypeOK
<1>3. /\ call'[c] \in {"absent", "idle", "replay"}
      /\ unseen' = unseen \/ mirror'[c] = EmptyMirror
  BY <1>1, Touched DEF SeesClose
<1>4. Outlived(c)' \/ mirror'[c].queued = <<>>
  BY <1>2, <1>3, EmptyMirrorTyped DEF Outlived
<1>5. QED
  BY <1>1, <1>2, <1>3, <1>4, AwayKeepsMirror DEF Controls

\* attach() and start() connect, and ask for a snapshot.
LEMMA ConnectKeepsMirror ==
  ASSUME SessionInv, TypeOK', MirrorInv, NEW c \in Clients, Controls(c),
         Due(c)' = {NoAnswer}, mirror'[c].queued = <<>>, inbox'[c] = <<>>, answer'[c] = NoAnswer,
         request'[c] = "snapshot", serving'[c].type = "none", call'[c] \in {"attach", "check"},
         call'[c] = "attach" => mirror'[c].attaching /\ ~mirror'[c].running,
         call'[c] = "check" => c \in Starters
  PROVE  MirrorInv'
<1>1. OrderInv(c)'
  BY NothingInOrder DEF OrderInv
<1>2. KindInv(c)'
  BY DEF KindInv
<1>3. ViewInv(c)'
  <2>1. PICK r : r = mirror'[c]
    OBVIOUS
  <2>2. PICK b : b = broker'
    OBVIOUS
  <2>3. PICK at \in {"attach", "check"} : at = call'[c]
    OBVIOUS
  <2>4. at = "attach" => ~r.running
    BY <2>1, <2>3
  <2>5. /\ Tells(b, {NoAnswer}) /\ Known(r, {NoAnswer}, at, "snapshot")
        /\ Shown(b, r, {NoAnswer}, at, "snapshot")
    BY <2>4, ConnectShows
  <2>6. QED
    BY <2>1, <2>2, <2>3, <2>5 DEF ViewInv
<1>4. QED
  BY <1>1, <1>2, <1>3, ControlKeepsMirror

LEMMA AttachKeepsMirror ==
  ASSUME SessionInv, TypeOK', MirrorInv, NEW c \in Clients, Attach(c)
  PROVE  MirrorInv'
<1>1. TypeOK /\ ClientInv(c) /\ mirror[c] \in Mirrors
  BY DEF SessionInv, TypeOK
<1>2. /\ inbox' = inbox /\ answer' = answer /\ serving' = serving
      /\ call[c] = "idle" /\ ~mirror[c].running /\ ~mirror[c].connected
  BY DEF Attach
<1>3. /\ inbox[c] = <<>> /\ answer[c] = NoAnswer /\ serving[c].type = "none"
  BY <1>1, <1>2, IdleClient DEF ClientInv, SocketInv
<1>4. PICK m : m = [mirror[c] EXCEPT !.connected = TRUE, !.attaching = TRUE, !.queued = <<>>]
  OBVIOUS
<1>5. m.attaching /\ m.queued = <<>> /\ ~m.running
  BY <1>1, <1>2, <1>4 DEF Mirrors
<1>6. mirror'[c] = m /\ request'[c] = "snapshot" /\ call'[c] = "attach"
  BY <1>1, <1>4, Touched DEF Attach
<1>7. Due(c)' = {NoAnswer}
  BY <1>2, <1>3, <1>5, <1>6, EmptyBox DEF Due
<1>8. QED
  BY <1>2, <1>3, <1>5, <1>6, <1>7, ConnectKeepsMirror DEF Controls

\* A call is made or done, of a window that waits for none.
LEMMA AskKeepsMirror ==
  ASSUME SessionInv, TypeOK', MirrorInv, NEW c \in Clients, Controls(c),
         UNCHANGED <<broker, inbox, answer, unseen>>, call[c] \in {"idle", "replay"},
         request'[c] # "start", KindInv(c)',
         mirror'[c].applied = mirror[c].applied, mirror'[c].running = mirror[c].running,
         mirror'[c].screen = mirror[c].screen, mirror'[c].exit = mirror[c].exit,
         mirror'[c].queued = mirror[c].queued
  PROVE  MirrorInv'
<1>1. TypeOK /\ ClientInv(c) /\ OrderInv(c) /\ ViewInv(c)
  BY DEF SessionInv, MirrorInv
<1>2. OrderInv(c)'
  BY <1>1 DEF OrderInv, Outlived
<1>3. ViewInv(c)'
  <2>1. PICK r : r = mirror'[c]
    OBVIOUS
  <2>2. PICK asked : asked = request'[c]
    OBVIOUS
  <2>3. PICK next : next = call'[c]
    OBVIOUS
  <2>4. PICK due : due = Due(c)
    OBVIOUS
  <2>5. PICK at \in {"idle", "replay"} : at = call[c]
    OBVIOUS
  <2>6. PICK m : m = mirror[c]
    OBVIOUS
  <2>7. Due(c)' = due
    BY <2>4 DEF Due
  <2>8. request[c] = "none" /\ \A y \in due : y.kind # "reply" /\ y.kind # "refusal"
    BY <1>1, <2>4, IdleClient, NoReplyDue
  <2>9. ASSUME c \in broker.clients, ~Outlived(c)
        PROVE  /\ Tells(broker, due)
               /\ ~Missed(c) => Shown(broker, r, due, next, asked)
               /\ <<c, "run">> \notin unseen /\ Live => Known(r, due, next, asked)
    <3>1. /\ Tells(broker, due)
          /\ ~Missed(c) => Shown(broker, m, due, at, "none")
          /\ <<c, "run">> \notin unseen /\ Live => Known(m, due, at, "none")
      BY <1>1, <2>4, <2>5, <2>6, <2>8, <2>9 DEF ViewInv
    <3>2. /\ r.applied = m.applied /\ r.running = m.running /\ r.screen = m.screen
          /\ r.exit = m.exit /\ asked # "start" /\ at # "check"
      BY <2>1, <2>2, <2>6
    <3>3. /\ \A x \in due : x.kind # "reply" /\ (x \notin due => x.kind = "refusal")
          /\ due \subseteq due
      BY <2>8
    <3>4. /\ Shown(broker, m, due, at, "none") => Shown(broker, r, due, next, asked)
          /\ Known(m, due, at, "none") => Known(r, due, next, asked)
      BY <3>1, <3>2, <3>3, CallKeepsView
    <3>5. QED
      BY <3>1, <3>4
  <2>10. QED
    BY <2>1, <2>2, <2>3, <2>7, <2>9 DEF ViewInv, Outlived, Missed, Live
<1>4. QED
  BY <1>2, <1>3, ControlKeepsMirror

LEMMA FinishAttachKeepsMirror ==
  ASSUME SessionInv, TypeOK', MirrorInv, NEW c \in Clients, FinishAttach(c)
  PROVE  MirrorInv'
<1>1. TypeOK /\ ClientInv(c) /\ mirror[c] \in Mirrors
  BY DEF SessionInv, TypeOK
<1>2. UNCHANGED <<broker, request, serving, inbox, unseen, answer>> /\ call[c] = "replay"
  BY DEF FinishAttach, brokerVars
<1>3. PICK m : m = [mirror[c] EXCEPT !.attaching = FALSE]
  OBVIOUS
<1>4. /\ m.applied = mirror[c].applied /\ m.running = mirror[c].running
      /\ m.screen = mirror[c].screen /\ m.exit = mirror[c].exit /\ m.queued = mirror[c].queued
  BY <1>1, <1>3 DEF Mirrors
<1>5. mirror'[c] = m /\ call'[c] = "idle"
  BY <1>1, <1>3, Touched DEF FinishAttach
<1>6. request[c] = "none" /\ serving[c].type = "none"
  BY <1>1, <1>2, IdleClient
<1>7. KindInv(c)'
  BY <1>2, <1>5, <1>6 DEF KindInv
<1>8. QED
  BY <1>2, <1>4, <1>5, <1>6, <1>7, AskKeepsMirror DEF Controls

LEMMA StartKeepsMirror ==
  ASSUME SessionInv, TypeOK', MirrorInv, NEW c \in Clients, Start(c)
  PROVE  MirrorInv'
<1>1. TypeOK /\ ClientInv(c) /\ mirror[c] \in Mirrors
  BY DEF SessionInv, TypeOK
<1>2. /\ UNCHANGED <<serving, inbox, unseen, answer>> /\ call[c] = "idle" /\ c \in Starters
  BY DEF Start
<1>3. PICK m : m = [mirror[c] EXCEPT !.connected = TRUE]
  OBVIOUS
<1>4. /\ m.applied = mirror[c].applied /\ m.running = mirror[c].running
      /\ m.screen = mirror[c].screen /\ m.exit = mirror[c].exit /\ m.queued = mirror[c].queued
  BY <1>1, <1>3 DEF Mirrors
<1>5. mirror'[c] = m /\ call'[c] = "check" /\ request'[c] = "snapshot"
  BY <1>1, <1>3, Touched DEF Start
<1>6. serving[c].type = "none" /\ answer[c] = NoAnswer /\ mirror[c].queued = <<>>
  BY <1>1, <1>2, IdleClient
<1>7. CASE mirror[c].connected
  <2>1. broker' = broker
    BY <1>7 DEF Start
  <2>2. KindInv(c)'
    BY <1>2, <1>5, <1>6 DEF KindInv
  <2>3. QED
    BY <1>2, <1>4, <1>5, <2>1, <2>2, AskKeepsMirror DEF Controls
<1>8. CASE ~mirror[c].connected
  <2>1. inbox[c] = <<>>
    BY <1>1, <1>8 DEF ClientInv, SocketInv
  <2>2. Due(c)' = {NoAnswer}
    BY <1>2, <1>4, <1>5, <1>6, <2>1, EmptyBox DEF Due
  <2>3. QED
    BY <1>2, <1>4, <1>5, <1>6, <2>1, <2>2, ConnectKeepsMirror DEF Controls
<1>9. QED
  BY <1>7, <1>8

\* stop(), dispose() and shutdown(), of a controller the broker knows.
LEMMA AskingKeepsMirror ==
  ASSUME SessionInv, TypeOK', MirrorInv, NEW c \in Clients, Controls(c),
         NEW type \in {"stop", "dispose", "shutdown"}, c \in Starters \/ type = "shutdown",
         call[c] = "idle", Send(c, type), Goes(c, type),
         UNCHANGED <<broker, serving, inbox, unseen, mirror, answer>>
  PROVE  MirrorInv'
<1>1. TypeOK /\ ClientInv(c)
  BY DEF SessionInv
<1>2. call'[c] = type /\ request'[c] = type
  BY <1>1, Touched
<1>3. serving[c].type = "none"
  BY <1>1, IdleClient
<1>4. KindInv(c)'
  BY <1>2, <1>3 DEF KindInv
<1>5. QED
  BY <1>2, <1>4, AskKeepsMirror

LEMMA DisposeKeepsMirror ==
  ASSUME SessionInv, TypeOK', MirrorInv, NEW c \in Clients, Dispose(c)
  PROVE  MirrorInv'
<1>1. CASE mirror[c].connected
  BY <1>1, AskingKeepsMirror DEF Dispose, Controls
<1>2. CASE ~mirror[c].connected
  <2>1. TypeOK /\ ClientInv(c) /\ mirror[c] \in Mirrors
    BY DEF SessionInv, TypeOK
  <2>2. /\ UNCHANGED <<broker, request, serving, inbox, unseen, call, answer>>
        /\ call[c] = "idle" /\ Becomes(c, Cleared(mirror[c]))
    BY <1>2 DEF Dispose
  <2>3. /\ mirror[c].queued = <<>> /\ request[c] = "none" /\ serving[c].type = "none"
        /\ answer[c] = NoAnswer
    BY <2>1, <2>2, IdleClient
  <2>4. c \notin broker.clients /\ inbox[c] = <<>>
    BY <1>2, <2>1 DEF ClientInv, SocketInv
  <2>5. mirror'[c].queued = <<>>
    BY <2>1, <2>2, <2>3, ChangedFields, Touched
  <2>6. QED
    BY <2>2, <2>3, <2>4, <2>5, AwayKeepsMirror DEF Controls
<1>3. QED
  BY <1>1, <1>2

LEMMA StopKeepsMirror ==
  ASSUME SessionInv, TypeOK', MirrorInv, NEW c \in Clients, Stop(c) \/ Quit(c)
  PROVE  MirrorInv'
<1>1. CASE Stop(c)
  BY <1>1, AskingKeepsMirror DEF Stop, Controls
<1>2. CASE Quit(c)
  BY <1>2, AskingKeepsMirror DEF Quit, Controls
<1>3. QED
  BY <1>1, <1>2

-----------------------------------------------------------------------------
(* What the socket brings, and what the windows show                       *)

LEMMA ViewOfScreen ==
  ASSUME NEW m, NEW r, r.applied = m.applied, r.running = m.running, r.screen = m.screen,
         r.exit = m.exit
  PROVE  \A b, due, at, asked :
           /\ Shown(b, m, due, at, asked) => Shown(b, r, due, at, asked)
           /\ Known(m, due, at, asked) => Known(r, due, at, asked)
  BY DEF Shown, ReplyShows, Corrected, Known

\* An event a window has is applied: e, before more.
LEMMA AppliedKeepsView ==
  ASSUME TypeOK, NEW c \in Clients, ViewInv(c), NEW r \in Mirrors, r = mirror'[c], NEW e \in Events,
         NEW more, more = Due(c)', Due(c) = more \cup {e},
         UNCHANGED <<broker, request, unseen, call>>, Sees(r, mirror[c], e),
         ~Outlived(c) => \A f \in more : IsEvent(f) => e.seq < f.seq,
         ~Outlived(c) =>
           \A x \in more : x.kind = "reply" /\ x.state.seq < e.seq /\ e.kind = "output"
                           /\ call[c] \in {"attach", "check", "start"} =>
             \E f \in more : f.kind = "exit"
  PROVE  ViewInv(c)'
<1>1. /\ broker \in Brokers /\ mirror[c] \in Mirrors /\ Due(c) \in Dues /\ more \in Dues
  <2>1. broker \in Brokers /\ mirror[c] \in Mirrors /\ Due(c) \in Dues
    BY ClientTypes
  <2>2. QED
    BY <2>1 DEF Dues
<1>2. ASSUME c \in broker.clients, ~Outlived(c)
      PROVE  /\ Tells(broker, more)
             /\ ~Missed(c) => Shown(broker, r, more, call[c], request[c])
             /\ <<c, "run">> \notin unseen /\ Live => Known(r, more, call[c], request[c])
  <2>1. /\ Tells(broker, Due(c))
        /\ ~Missed(c) => Shown(broker, mirror[c], Due(c), call[c], request[c])
        /\ <<c, "run">> \notin unseen /\ Live => Known(mirror[c], Due(c), call[c], request[c])
    BY <1>2 DEF ViewInv
  <2>2. PICK at : at = call[c]
    OBVIOUS
  <2>3. PICK asked : asked = request[c]
    OBVIOUS
  <2>4. \A x \in more : x.kind = "reply" /\ x.state.seq < e.seq /\ e.kind = "output"
                        /\ at \in {"attach", "check", "start"} =>
          \E f \in more : f.kind = "exit"
    BY <1>2, <2>2
  <2>5. /\ Tells(broker, more)
        /\ Shown(broker, mirror[c], Due(c), at, asked) => Shown(broker, r, more, at, asked)
        /\ Known(mirror[c], Due(c), at, asked) => Known(r, more, at, asked)
    BY <1>1, <1>2, <2>1, <2>4, EventKeepsView
  <2>6. QED
    BY <2>1, <2>2, <2>3, <2>5
<1>3. QED
  BY <1>2 DEF ViewInv, Outlived, Missed, Live

LEMMA DrainAttachKeepsMirror ==
  ASSUME SessionInv, TypeOK', MirrorInv, NEW c \in Clients, DrainAttach(c)
  PROVE  MirrorInv'
<1>1. /\ TypeOK /\ ClientInv(c) /\ mirror[c] \in Mirrors /\ OrderInv(c) /\ ViewInv(c)
      /\ mirror[c].queued \in Seq(Events)
  BY ClientTypes DEF SessionInv, MirrorInv
<1>2. /\ UNCHANGED <<broker, request, serving, inbox, unseen, call, answer>>
      /\ call[c] = "replay" /\ mirror[c].queued # <<>> /\ Becomes(c, ApplyQueued(mirror[c]))
  BY DEF DrainAttach, brokerVars
<1>3. PICK held \in Seq(Events) : held = mirror[c].queued
  BY <1>1
<1>4. PICK r : r = ApplyQueued(mirror[c])
  OBVIOUS
<1>5. PICK e : e = Head(held)
  OBVIOUS
<1>6. PICK rest : rest = Tail(held)
  OBVIOUS
<1>7. PICK n \in Mirrors : /\ n = [mirror[c] EXCEPT !.queued = rest]
                           /\ r = ApplyEvent(n, e) /\ r \in Mirrors /\ r.queued = rest
  BY <1>1, <1>2, <1>3, <1>4, <1>5, <1>6, QueuedApplied
<1>8. e \in Events /\ Elements(held) = {e} \cup Elements(rest)
  BY <1>2, <1>3, <1>5, <1>6, ElementsOfTail
<1>9. mirror'[c] = r
  BY <1>1, <1>2, <1>4, Touched
<1>10. /\ answer[c] = NoAnswer /\ request[c] = "none" /\ serving[c].type = "none"
       /\ \A y \in Due(c) : y.kind # "reply"
  BY <1>1, <1>2, IdleClient, NoReplyDue
<1>11. ASSUME ~Outlived(c)
       PROVE  /\ InOrder(rest, inbox[c], answer[c])
              /\ \A f \in Elements(rest) : e.seq < f.seq
              /\ \A f \in Elements(inbox[c]) : IsEvent(f) => e.seq < f.seq
  <2>1. InOrder(held, inbox[c], answer[c])
    BY <1>1, <1>3, <1>11 DEF OrderInv
  <2>2. QED
    BY <1>2, <1>3, <1>5, <1>6, <2>1, OrderWhenDrained
<1>12. OrderInv(c)'
  BY <1>2, <1>7, <1>9, <1>11 DEF OrderInv, Outlived
<1>13. KindInv(c)'
  BY <1>2, <1>10 DEF KindInv
<1>14. ViewInv(c)'
  <2>1. PICK more : more = Due(c)'
    OBVIOUS
  <2>2. more = Elements(rest) \cup Elements(inbox[c]) \cup {NoAnswer}
    BY <1>2, <1>7, <1>9, <1>10, <2>1 DEF Due
  <2>3. Due(c) = more \cup {e}
    BY <1>3, <1>8, <1>10, <2>2 DEF Due
  <2>4. ~Outlived(c) => \A f \in more : IsEvent(f) => e.seq < f.seq
    BY <1>11, <2>2 DEF IsEvent, NoAnswer
  <2>5. \A x \in more : x.kind # "reply"
    BY <1>10, <2>3
  <2>6. Sees(r, mirror[c], e)
    <3>1. Sees(r, n, e)
      BY <1>7, <1>8, EventIsSeen
    <3>2. /\ n.applied = mirror[c].applied /\ n.running = mirror[c].running
          /\ n.screen = mirror[c].screen /\ n.exit = mirror[c].exit
      BY <1>1, <1>7 DEF Mirrors
    <3>3. QED
      BY <3>1, <3>2 DEF Sees
  <2>7. QED
    BY <1>1, <1>2, <1>7, <1>8, <1>9, <2>1, <2>3, <2>4, <2>5, <2>6, AppliedKeepsView
<1>15. QED
  BY <1>12, <1>13, <1>14, ControlKeepsMirror DEF Controls

LEMMA ReadEventKeepsMirror ==
  ASSUME SessionInv, TypeOK', MirrorInv, NEW c \in Clients, ReadEvent(c), StartNotOvertaken
  PROVE  MirrorInv'
<1>1. /\ TypeOK /\ ClientInv(c) /\ mirror[c] \in Mirrors
      /\ OrderInv(c) /\ KindInv(c) /\ ViewInv(c)
      /\ mirror[c].queued \in Seq(Events) /\ inbox[c] \in Seq(Messages)
      /\ mirror[c].attaching \/ mirror[c].queued = <<>>
      /\ answer[c] \in Answers \cup {NoAnswer}
  BY ClientTypes DEF SessionInv, MirrorInv
<1>2. /\ UNCHANGED <<broker, request, serving, unseen, call, answer>>
      /\ inbox[c] # <<>> /\ mirror[c].connected
      /\ inbox' = [inbox EXCEPT ![c] = Tail(@)]
  BY DEF ReadEvent
<1>3. PICK e : e = Head(inbox[c])
  OBVIOUS
<1>4. PICK rest : rest = Tail(inbox[c])
  OBVIOUS
<1>5. PICK box \in Seq(Messages) : box = inbox[c]
  BY <1>1
<1>6. PICK held \in Seq(Events) : held = mirror[c].queued
  BY <1>1
<1>7. /\ rest \in Seq(Messages) /\ e \in Events
      /\ Elements(inbox[c]) = {e} \cup Elements(rest)
  BY <1>1, <1>2, <1>3, <1>4, HeadIsRead, MessageShape DEF ReadEvent, ClientInv, RequestInv
<1>8. IsEvent(e) /\ Number(e) = e.seq /\ e.seq \in Nat
  BY <1>7, EventShape
<1>9. inbox'[c] = rest
  BY <1>1, <1>2, <1>4 DEF TypeOK
<1>10. PICK r : r = Receive(mirror[c], e)
  OBVIOUS
<1>11. /\ r \in Mirrors /\ SameSocket(r, mirror[c])
       /\ ~mirror[c].attaching => r = ApplyEvent(mirror[c], e) /\ r.queued = mirror[c].queued
       /\ mirror[c].attaching => r = [mirror[c] EXCEPT !.queued = Append(mirror[c].queued, e)]
  BY <1>1, <1>7, <1>10, EventReceived
<1>12. mirror'[c] = r
  BY <1>1, <1>3, <1>10, Touched DEF ReadEvent
<1>13. ASSUME ~Outlived(c)
       PROVE  /\ InOrder(held, rest, answer[c])
              /\ \A f \in Elements(rest) : /\ IsEvent(f) => e.seq < f.seq
                                           /\ f.kind = "reply" => e.seq <= Number(f)
              /\ \A f \in Elements(held) : f.seq < e.seq
  <2>1. PICK ans : ans = answer[c]
    OBVIOUS
  <2>2. InOrder(held, box, ans)
    BY <1>1, <1>5, <1>6, <1>13, <2>1 DEF OrderInv
  <2>3. /\ InOrder(held, rest, ans)
        /\ \A f \in Elements(rest) : /\ IsEvent(f) => Number(e) < f.seq
                                     /\ f.kind = "reply" => Number(e) <= Number(f)
    BY <1>2, <1>3, <1>4, <1>5, <2>2, OrderOfTail
  <2>4. \A f \in Elements(held) : f.seq < e.seq
    BY <1>5, <1>7, <1>8, <2>2 DEF InOrder
  <2>5. QED
    BY <1>8, <2>1, <2>3, <2>4
<1>14. PICK more : more = Due(c)'
  OBVIOUS
<1>15. more = Elements(r.queued) \cup Elements(rest) \cup {answer[c], NoAnswer}
  BY <1>2, <1>9, <1>12, <1>14 DEF Due
<1>16. KindInv(c)'
  <2>1. r.attaching = mirror[c].attaching /\ (mirror[c].attaching => r.running = mirror[c].running)
    BY <1>1, <1>11 DEF SameSocket, Mirrors
  <2>2. QED
    BY <1>1, <1>2, <1>12, <2>1 DEF KindInv
<1>17. CASE mirror[c].attaching
  <2>1. /\ r.applied = mirror[c].applied /\ r.running = mirror[c].running
        /\ r.screen = mirror[c].screen /\ r.exit = mirror[c].exit
        /\ r.queued = Append(held, e)
    BY <1>1, <1>6, <1>11, <1>17 DEF Mirrors
  <2>2. PICK queued : queued = Append(held, e)
    OBVIOUS
  <2>3. Elements(queued) = Elements(held) \cup {e}
    BY <1>7, <2>2, ElementsOfAppend
  <2>4. more = Due(c)
    BY <1>6, <1>7, <1>15, <2>1, <2>2, <2>3 DEF Due
  <2>5. OrderInv(c)'
    <3>1. SUFFICES ASSUME ~Outlived(c)
                   PROVE  InOrder(queued, rest, answer[c])
      BY <1>2, <1>9, <1>12, <2>1, <2>2 DEF OrderInv, Outlived
    <3>2. PICK ans : ans = answer[c]
      OBVIOUS
    <3>3. /\ InOrder(held, rest, ans)
          /\ \A f \in Elements(rest) : IsEvent(f) => e.seq < f.seq
          /\ \A f \in Elements(held) : f.seq < e.seq
      BY <1>13, <3>1, <3>2
    <3>4. InOrder(queued, rest, ans)
      BY <1>7, <2>2, <3>3, OrderWhenHeld
    <3>5. QED
      BY <3>2, <3>4
  <2>6. ViewInv(c)'
    <3>1. \A b, due, at, asked :
            /\ Shown(b, mirror[c], due, at, asked) => Shown(b, r, due, at, asked)
            /\ Known(mirror[c], due, at, asked) => Known(r, due, at, asked)
      BY <2>1, ViewOfScreen
    <3>2. QED
      BY <1>1, <1>2, <1>12, <1>14, <2>4, <3>1 DEF ViewInv, Outlived, Missed, Live
  <2>7. QED
    BY <1>16, <2>5, <2>6, ControlKeepsMirror DEF Controls
<1>18. CASE ~mirror[c].attaching
  <2>1. held = <<>> /\ r.queued = <<>> /\ r = ApplyEvent(mirror[c], e)
    BY <1>1, <1>6, <1>11, <1>18
  <2>2. OrderInv(c)'
    BY <1>2, <1>9, <1>12, <1>13, <2>1 DEF OrderInv, Outlived
  <2>3. more = Elements(rest) \cup {answer[c], NoAnswer}
    BY <1>15, <2>1, EmptyBox
  <2>4. Due(c) = more \cup {e}
    BY <1>6, <1>7, <2>1, <2>3, EmptyBox DEF Due
  <2>5. ~Outlived(c) => \A f \in more : IsEvent(f) => e.seq < f.seq
    <3>1. ~IsEvent(answer[c]) /\ ~IsEvent(NoAnswer)
      BY <1>1, AnswerShape DEF IsEvent, NoAnswer
    <3>2. QED
      BY <1>13, <2>3, <3>1
  <2>6. ASSUME ~Outlived(c), NEW x \in more, x.kind = "reply", x.state.seq < e.seq,
               e.kind = "output", call[c] \in {"attach", "check", "start"}
        PROVE  \E f \in more : f.kind = "exit"
    <3>1. x \notin Elements(rest)
      <4>1. SUFFICES ASSUME x \in Elements(rest)
                     PROVE  FALSE
        OBVIOUS
      <4>2. x \in Messages
        BY <1>7, <4>1, ElementsAreTyped
      <4>3. x.state.seq \in Nat /\ Number(x) = x.state.seq
        BY <2>6, <4>2, MessageShape, EventShape, AnswerShape
      <4>4. e.seq <= x.state.seq
        BY <1>13, <2>6, <4>1, <4>3
      <4>5. QED
        BY <1>8, <2>6, <4>3, <4>4
    <3>2. x = answer[c]
      BY <2>3, <2>6, <3>1 DEF NoAnswer
    <3>3. call[c] \in {"check", "start"}
      BY <1>1, <1>18, <2>6 DEF KindInv
    <3>4. ExitIsDue(c)
      BY <1>3, <2>6, <3>2, <3>3 DEF StartNotOvertaken
    <3>5. PICK i \in DOMAIN inbox[c] : inbox[c][i].kind = "exit"
      BY <3>4 DEF ExitIsDue
    <3>6. inbox[c][i] \in Elements(inbox[c])
      BY <1>1, <3>5 DEF Elements
    <3>7. inbox[c][i] \in Elements(rest)
      BY <1>7, <2>6, <3>5, <3>6
    <3>8. QED
      BY <2>3, <3>5, <3>7
  <2>7. Sees(r, mirror[c], e)
    BY <1>1, <1>7, <2>1, EventIsSeen
  <2>8. ViewInv(c)'
    BY <1>1, <1>2, <1>7, <1>11, <1>12, <1>14, <2>4, <2>5, <2>6, <2>7, AppliedKeepsView
  <2>9. QED
    BY <1>16, <2>2, <2>8, ControlKeepsMirror DEF Controls
<1>19. QED
  BY <1>17, <1>18

LEMMA ReadAnswerKeepsMirror ==
  ASSUME SessionInv, TypeOK', MirrorInv, NEW c \in Clients, ReadAnswer(c)
  PROVE  MirrorInv'
<1>1. /\ TypeOK /\ ClientInv(c) /\ inbox[c] \in Seq(Messages) /\ mirror[c].queued \in Seq(Events)
      /\ OrderInv(c) /\ KindInv(c) /\ ViewInv(c)
  BY ClientTypes DEF SessionInv, MirrorInv
<1>2. /\ UNCHANGED <<broker, request, serving, unseen, mirror, call>>
      /\ inbox[c] # <<>> /\ ~IsEvent(Head(inbox[c]))
      /\ inbox' = [inbox EXCEPT ![c] = Tail(@)]
      /\ answer' = [answer EXCEPT ![c] = Head(inbox[c])]
  BY DEF ReadAnswer
<1>3. PICK x : x = Head(inbox[c])
  OBVIOUS
<1>4. PICK rest : rest = Tail(inbox[c])
  OBVIOUS
<1>5. PICK box \in Seq(Messages) : box = inbox[c]
  BY <1>1
<1>6. PICK held \in Seq(Events) : held = mirror[c].queued
  BY <1>1
<1>7. /\ Elements(inbox[c]) = {x} \cup Elements(rest) /\ HasAnswer(inbox[c])
  BY <1>1, <1>2, <1>3, <1>4, HeadIsRead DEF ClientInv, RequestInv
<1>8. inbox'[c] = rest /\ answer'[c] = x
  BY <1>1, <1>2, <1>3, <1>4 DEF TypeOK
<1>9. answer[c] = NoAnswer
  BY <1>1, <1>7 DEF ClientInv, RequestInv, Answered
<1>10. OrderInv(c)'
  <2>1. SUFFICES ASSUME ~Outlived(c)
                 PROVE  InOrder(held, rest, x)
    BY <1>2, <1>6, <1>8 DEF OrderInv, Outlived
  <2>2. InOrder(held, box, NoAnswer)
    BY <1>1, <1>5, <1>6, <1>9, <2>1 DEF OrderInv
  <2>3. /\ InOrder(held, rest, NoAnswer)
        /\ \A f \in Elements(rest) : IsEvent(f) => Number(x) < f.seq
    BY <1>2, <1>3, <1>4, <1>5, <2>2, OrderOfTail
  <2>4. QED
    BY <2>3 DEF InOrder
<1>11. Due(c)' = Due(c)
  BY <1>2, <1>7, <1>8, <1>9 DEF Due
<1>12. KindInv(c)' /\ ViewInv(c)'
  BY <1>1, <1>2, <1>11 DEF KindInv, ViewInv, Outlived, Missed, Live
<1>13. QED
  BY <1>10, <1>12, ControlKeepsMirror DEF Controls

-----------------------------------------------------------------------------
(* The code after an await, and what the windows show                      *)

\* The answer a call has waited for is dealt with.
LEMMA GoingOn ==
  ASSUME SessionInv, MirrorInv, NEW c \in Clients, Answered(c), NEW r \in Mirrors,
         r.queued = mirror[c].queued, Becomes(c, r), NEW next, GoesOn(c, next),
         UNCHANGED <<broker, inbox, unseen>>
  PROVE  /\ mirror'[c] = r /\ call'[c] = next /\ serving'[c].type = "none"
         /\ OrderInv(c)'
         /\ Due(c)' \in Dues /\ Due(c) \in Dues /\ Due(c) = Due(c)' \cup {answer[c]}
         /\ \A x \in Due(c)' : x.kind # "reply" /\ x.kind # "refusal"
         /\ answer[c] \in Answers /\ mirror[c] \in Mirrors /\ request[c] = "none"
         /\ c \in broker.clients /\ ~Outlived(c) =>
              /\ Tells(broker, Due(c))
              /\ ~Missed(c) => Shown(broker, mirror[c], Due(c), call[c], "none")
              /\ <<c, "run">> \notin unseen /\ Live => Known(mirror[c], Due(c), call[c], "none")
<1>1. /\ TypeOK /\ ClientInv(c) /\ OrderInv(c) /\ ViewInv(c)
      /\ mirror[c] \in Mirrors /\ Due(c) \in Dues
      /\ mirror[c].queued \in Seq(Events)
  BY ClientTypes DEF SessionInv, MirrorInv
<1>2. /\ mirror'[c] = r /\ call'[c] = next /\ answer'[c] = NoAnswer /\ serving' = serving
  BY <1>1, Touched
<1>3. /\ answer[c] \in Answers /\ request[c] = "none" /\ serving[c].type = "none"
      /\ ~HasAnswer(inbox[c])
  BY <1>1, AnsweredClient
<1>4. OrderInv(c)'
  <2>1. SUFFICES ASSUME ~Outlived(c)
                 PROVE  InOrder(mirror[c].queued, inbox[c], NoAnswer)
    BY <1>2 DEF OrderInv, Outlived
  <2>2. InOrder(mirror[c].queued, inbox[c], answer[c])
    BY <1>1, <2>1 DEF OrderInv
  <2>3. QED
    BY <2>2 DEF InOrder
<1>5. Due(c)' = Elements(mirror[c].queued) \cup Elements(inbox[c]) \cup {NoAnswer}
  BY <1>2 DEF Due
<1>6. Due(c) = Due(c)' \cup {answer[c]}
  BY <1>5 DEF Due
<1>7. Due(c)' \in Dues
  BY <1>1, <1>6 DEF Dues
<1>8. \A x \in Due(c)' : x.kind # "reply" /\ x.kind # "refusal"
  <2>1. \A x \in Elements(mirror[c].queued) : IsEvent(x)
    BY <1>1, ElementsAreTyped, EventShape
  <2>2. \A x \in Elements(inbox[c]) : IsEvent(x)
    BY <1>3 DEF HasAnswer
  <2>3. QED
    BY <1>5, <2>1, <2>2 DEF NoAnswer, IsEvent
<1>9. c \in broker.clients /\ ~Outlived(c) =>
        /\ Tells(broker, Due(c))
        /\ ~Missed(c) => Shown(broker, mirror[c], Due(c), call[c], "none")
        /\ <<c, "run">> \notin unseen /\ Live => Known(mirror[c], Due(c), call[c], "none")
  BY <1>1, <1>3 DEF ViewInv
<1>10. QED
  BY <1>1, <1>2, <1>3, <1>4, <1>6, <1>7, <1>8, <1>9

\* attach(), start() and stop() apply the state of their answer.
LEMMA StateAppliedKeepsMirror ==
  ASSUME SessionInv, TypeOK', MirrorInv, NEW c \in Clients, Controls(c), Answered(c),
         answer[c].kind = "reply", call[c] \in {"attach", "check", "start", "stop"},
         NEW replay \in BOOLEAN, replay <=> call[c] # "start",
         NEW r, r = ApplyState(mirror[c], answer[c].state, replay), Becomes(c, r),
         NEW next \in {"replay", "idle"}, GoesOn(c, next),
         UNCHANGED <<broker, inbox, unseen, request>>
  PROVE  MirrorInv'
<1>1. answer[c] \in Answers /\ mirror[c] \in Mirrors
  BY AnsweredClient DEF SessionInv, TypeOK
<1>2. PICK a \in Answers : a = answer[c]
  BY <1>1
<1>3. PICK s \in States : s = a.state
  BY <1>2, AnswerShape
<1>4. r = ApplyState(mirror[c], s, replay)
  BY <1>2, <1>3
<1>5. r \in Mirrors /\ r.queued = mirror[c].queued
  BY <1>1, <1>4, StateApplied
<1>6. /\ mirror'[c] = r /\ call'[c] = next /\ serving'[c].type = "none"
      /\ OrderInv(c)' /\ request[c] = "none"
      /\ Due(c)' \in Dues /\ Due(c) \in Dues /\ Due(c) = Due(c)' \cup {answer[c]}
      /\ \A x \in Due(c)' : x.kind # "reply"
      /\ c \in broker.clients /\ ~Outlived(c) =>
           /\ Tells(broker, Due(c))
           /\ ~Missed(c) => Shown(broker, mirror[c], Due(c), call[c], "none")
           /\ <<c, "run">> \notin unseen /\ Live => Known(mirror[c], Due(c), call[c], "none")
  BY <1>5, GoingOn
<1>7. KindInv(c)'
  BY <1>6 DEF KindInv
<1>8. ViewInv(c)'
  <2>1. PICK more \in Dues : more = Due(c)'
    BY <1>6
  <2>2. PICK at \in {"attach", "check", "start", "stop"} : at = call[c]
    OBVIOUS
  <2>3. TakesOver(r, mirror[c], s, replay)
    BY <1>1, <1>4, StateTakesOver
  <2>4. TakesOver(r, mirror[c], a.state, at # "start")
    BY <1>3, <2>2, <2>3 DEF TakesOver
  <2>5. ASSUME c \in broker.clients, ~Outlived(c)
        PROVE  /\ Tells(broker, more)
               /\ ~Missed(c) => Shown(broker, r, more, next, "none")
               /\ <<c, "run">> \notin unseen /\ Live => Known(r, more, next, "none")
    <3>1. PICK m \in Mirrors : m = mirror[c]
      BY <1>1
    <3>2. PICK due \in Dues : due = Due(c)
      BY <1>6
    <3>3. /\ Tells(broker, due)
          /\ ~Missed(c) => Shown(broker, m, due, at, "none")
          /\ <<c, "run">> \notin unseen /\ Live => Known(m, due, at, "none")
      BY <1>6, <2>2, <2>5, <3>1, <3>2
    <3>4. due = more \cup {a}
      BY <1>2, <1>6, <2>1, <3>2
    <3>5. \A x \in more : x.kind # "reply"
      BY <1>6, <2>1
    <3>6. a.kind = "reply" /\ next # "check"
      BY <1>2
    <3>7. TakesOver(r, m, a.state, at # "start")
      BY <2>4, <3>1
    <3>8. r \in Mirrors
      BY <1>5
    <3>9. /\ Tells(broker, more)
          /\ Shown(broker, m, due, at, "none") => Shown(broker, r, more, next, "none")
          /\ Known(m, due, at, "none") => Known(r, more, next, "none")
      BY <3>3, <3>4, <3>5, <3>6, <3>7, <3>8, StateKeepsView
    <3>10. QED
      BY <3>3, <3>9
  <2>6. QED
    BY <1>6, <2>1, <2>5 DEF ViewInv, Outlived, Missed, Live
<1>9. QED
  BY <1>6, <1>7, <1>8, ControlKeepsMirror

LEMMA ContinueAttachKeepsMirror ==
  ASSUME SessionInv, TypeOK', MirrorInv, NEW c \in Clients, ContinueAttach(c)
  PROVE  MirrorInv'
<1>1. /\ TypeOK /\ ClientInv(c) /\ Answered(c) /\ call[c] = "attach" /\ GoesOn(c, "replay")
      /\ UNCHANGED <<broker, request, inbox, unseen>>
  BY DEF SessionInv, ContinueAttach
<1>2. answer[c].kind = "reply"
  BY <1>1, AnsweredClient, AnswerShape DEF ClientInv, SnapshotInv
<1>3. PICK r : r = ApplyState(mirror[c], answer[c].state, TRUE)
  OBVIOUS
<1>4. Becomes(c, r)
  BY <1>3 DEF ContinueAttach
<1>5. QED
  BY <1>1, <1>2, <1>3, <1>4, StateAppliedKeepsMirror DEF Controls, Continue

LEMMA ContinueRunKeepsMirror ==
  ASSUME SessionInv, TypeOK', MirrorInv, NEW c \in Clients, ContinueRun(c)
  PROVE  MirrorInv'
<1>1. /\ TypeOK /\ ClientInv(c) /\ Answered(c) /\ call[c] \in {"start", "stop"}
      /\ GoesOn(c, "idle") /\ UNCHANGED <<broker, request, inbox, unseen>>
      /\ mirror[c] \in Mirrors
  BY DEF SessionInv, TypeOK, ContinueRun
<1>2. CASE answer[c].kind = "reply"
  <2>1. PICK replay \in BOOLEAN : replay = (call[c] = "stop")
    OBVIOUS
  <2>2. PICK r : r = ApplyState(mirror[c], answer[c].state, replay)
    OBVIOUS
  <2>3. Becomes(c, r)
    BY <1>2, <2>1, <2>2 DEF ContinueRun
  <2>4. replay <=> call[c] # "start"
    BY <1>1, <2>1
  <2>5. QED
    BY <1>1, <1>2, <2>2, <2>3, <2>4, StateAppliedKeepsMirror DEF Controls, Continue
<1>3. CASE answer[c].kind # "reply"
  <2>1. Becomes(c, mirror[c])
    BY <1>3 DEF ContinueRun
  <2>2. /\ mirror'[c] = mirror[c] /\ call'[c] = "idle" /\ serving'[c].type = "none"
        /\ OrderInv(c)' /\ request[c] = "none" /\ answer[c] \in Answers
        /\ Due(c) = Due(c)' \cup {answer[c]}
        /\ \A x \in Due(c)' : x.kind # "reply"
        /\ c \in broker.clients /\ ~Outlived(c) =>
             /\ Tells(broker, Due(c))
             /\ ~Missed(c) => Shown(broker, mirror[c], Due(c), call[c], "none")
             /\ <<c, "run">> \notin unseen /\ Live => Known(mirror[c], Due(c), call[c], "none")
    BY <1>1, <2>1, GoingOn
  <2>3. KindInv(c)'
    BY <1>1, <2>2 DEF KindInv
  <2>4. ViewInv(c)'
    <3>1. PICK more : more = Due(c)'
      OBVIOUS
    <3>2. answer[c].kind = "refusal"
      BY <1>3, <2>2, AnswerShape
    <3>3. /\ more \subseteq Due(c)
          /\ \A x \in Due(c) : x.kind # "reply" /\ (x \notin more => x.kind = "refusal")
      BY <1>3, <2>2, <3>1, <3>2
    <3>4. PICK at \in {"start", "stop"} : at = call[c]
      BY <1>1
    <3>5. PICK m : m = mirror[c]
      OBVIOUS
    <3>6. ASSUME c \in broker.clients, ~Outlived(c)
          PROVE  /\ Tells(broker, more)
                 /\ ~Missed(c) => Shown(broker, m, more, "idle", "none")
                 /\ <<c, "run">> \notin unseen /\ Live => Known(m, more, "idle", "none")
      <4>1. /\ Tells(broker, Due(c))
            /\ ~Missed(c) => Shown(broker, m, Due(c), at, "none")
            /\ <<c, "run">> \notin unseen /\ Live => Known(m, Due(c), at, "none")
        BY <2>2, <3>4, <3>5, <3>6
      <4>2. /\ Tells(broker, more)
            /\ Shown(broker, m, Due(c), at, "none") => Shown(broker, m, more, "idle", "none")
            /\ Known(m, Due(c), at, "none") => Known(m, more, "idle", "none")
        BY <3>3, <4>1, CallKeepsView
      <4>3. QED
        BY <4>1, <4>2
    <3>7. QED
      BY <1>1, <2>2, <3>1, <3>5, <3>6 DEF ViewInv, Outlived, Missed, Live
  <2>5. QED
    BY <2>2, <2>3, <2>4, ControlKeepsMirror DEF Controls, Continue
<1>4. QED
  BY <1>2, <1>3

LEMMA ContinueCheckKeepsMirror ==
  ASSUME SessionInv, TypeOK', MirrorInv, NEW c \in Clients, ContinueCheck(c), StartNotOvertaken
  PROVE  MirrorInv'
<1>1. /\ TypeOK /\ ClientInv(c) /\ Answered(c) /\ call[c] = "check" /\ mirror[c] \in Mirrors
      /\ UNCHANGED <<broker, inbox, unseen>> /\ KindInv(c)
  BY DEF SessionInv, TypeOK, MirrorInv, ContinueCheck
<1>2. /\ answer[c] \in Answers /\ answer[c].kind = "reply" /\ mirror[c].queued = <<>>
  BY <1>1, AnsweredClient, AnswerShape DEF ClientInv, SnapshotInv
<1>3. PICK r : r = ApplyState(mirror[c], answer[c].state, TRUE)
  OBVIOUS
<1>4. IF r.running \/ HasSession(r)
        THEN GoesOn(c, "idle") /\ Becomes(c, r) /\ UNCHANGED request
        ELSE /\ GoesOn(c, "start") /\ Becomes(c, Fresh(r))
             /\ IF c \in broker.clients THEN Send(c, "start") ELSE UNCHANGED request
  BY <1>3 DEF ContinueCheck
<1>5. CASE r.running \/ HasSession(r)
  BY <1>1, <1>2, <1>3, <1>4, <1>5, StateAppliedKeepsMirror DEF Controls, Continue
<1>6. CASE ~(r.running \/ HasSession(r))
  <2>1. PICK a \in Answers : a = answer[c]
    BY <1>2
  <2>2. PICK s \in States : s = a.state
    BY <1>2, <2>1, AnswerShape
  <2>3. r = ApplyState(mirror[c], s, TRUE)
    BY <1>3, <2>1, <2>2
  <2>4. r \in Mirrors /\ r.queued = mirror[c].queued /\ TakesOver(r, mirror[c], a.state, TRUE)
    BY <1>1, <2>2, <2>3, StateApplied, StateTakesOver
  <2>5. PICK f \in Mirrors : f = Fresh(r)
    BY <2>4, MirrorChanges
  <2>6. /\ f.applied = r.applied /\ ~f.running /\ f.screen = <<>> /\ f.queued = mirror[c].queued
    <3>1. f.applied = r.applied /\ f.running = r.running /\ f.queued = r.queued
      BY <2>4, <2>5, ChangedFields
    <3>2. f.screen = <<>>
      BY <2>4, <2>5 DEF Fresh, Mirrors
    <3>3. QED
      BY <1>6, <2>4, <3>1, <3>2
  <2>7. GoesOn(c, "start") /\ Becomes(c, f)
    BY <1>4, <1>6, <2>5
  <2>8. /\ mirror'[c] = f /\ call'[c] = "start" /\ serving'[c].type = "none"
        /\ OrderInv(c)' /\ request[c] = "none"
        /\ Due(c)' \in Dues /\ Due(c) \in Dues /\ Due(c) = Due(c)' \cup {answer[c]}
        /\ \A x \in Due(c)' : x.kind # "reply"
        /\ c \in broker.clients /\ ~Outlived(c) =>
             /\ Tells(broker, Due(c))
             /\ ~Missed(c) => Shown(broker, mirror[c], Due(c), call[c], "none")
             /\ <<c, "run">> \notin unseen /\ Live => Known(mirror[c], Due(c), call[c], "none")
    BY <1>1, <2>6, <2>7, GoingOn
  <2>9. request'[c] \in {"none", "start"}
    BY <1>1, <1>4, <1>6, <2>8, Touched
  <2>10. KindInv(c)'
    BY <1>1, <2>8, <2>9 DEF KindInv
  <2>11. a.state.seq < mirror[c].applied => \A x \in Due(c)' : x.kind # "exit"
    <3>1. SUFFICES ASSUME a.state.seq < mirror[c].applied
                   PROVE  \A x \in Due(c)' : x.kind # "exit"
      OBVIOUS
    <3>2. ~ExitIsDue(c)
      BY <1>1, <1>2, <2>1, <3>1 DEF StartNotOvertaken, Continue
    <3>3. \A x \in Elements(inbox[c]) : x.kind # "exit"
      BY <1>1, <3>2 DEF ExitIsDue, Elements, TypeOK
    <3>4. answer'[c] = NoAnswer
      BY <1>1, <2>7, Touched
    <3>5. Due(c)' = Elements(inbox[c]) \cup {NoAnswer}
      BY <1>1, <1>2, <2>6, <2>8, <3>4, EmptyBox DEF Due
    <3>6. QED
      BY <3>3, <3>5 DEF NoAnswer
  <2>12. ViewInv(c)'
    <3>1. PICK more \in Dues : more = Due(c)'
      BY <2>8
    <3>2. PICK asked \in {"none", "start"} : asked = request'[c]
      BY <2>9
    <3>3. /\ Due(c) = more \cup {a} /\ a.kind = "reply" /\ ~r.running
          /\ \A x \in more : x.kind # "reply"
          /\ a.state.seq < mirror[c].applied => \A x \in more : x.kind # "exit"
      BY <1>2, <1>6, <2>1, <2>8, <2>11, <3>1
    <3>4. ASSUME c \in broker.clients, ~Outlived(c)
          PROVE  /\ Tells(broker, more)
                 /\ ~Missed(c) => Shown(broker, f, more, "start", asked)
                 /\ ~(<<c, "run">> \notin unseen /\ Live)
      <4>1. PICK m \in Mirrors : m = mirror[c]
        BY <1>1
      <4>2. PICK due \in Dues : due = Due(c)
        BY <2>8
      <4>3. /\ Tells(broker, due)
            /\ ~Missed(c) => Shown(broker, m, due, "check", "none")
            /\ <<c, "run">> \notin unseen /\ Live => Known(m, due, "check", "none")
        BY <1>1, <2>8, <3>4, <4>1, <4>2
      <4>4. due = more \cup {a} /\ a.kind = "reply" /\ ~r.running
        BY <3>3, <4>2
      <4>5. \A x \in more : x.kind # "reply"
        BY <3>3
      <4>6. a.state.seq < m.applied => \A x \in more : x.kind # "exit"
        BY <3>3, <4>1
      <4>7. TakesOver(r, m, a.state, TRUE)
        BY <2>4, <4>1
      <4>8. r \in Mirrors /\ f.applied = r.applied /\ ~f.running /\ f.screen = <<>>
        BY <2>4, <2>6
      <4>9. /\ r \in Mirrors /\ f \in Mirrors /\ m \in Mirrors /\ a \in Answers
            /\ due \in Dues /\ more \in Dues /\ asked \in {"none", "start"}
        BY <4>8
      <4>10. Tells(broker, due)
        BY <4>3
      <4>11. f.applied = r.applied
        BY <4>8
      <4>12. ~f.running
        BY <4>8
      <4>13. f.screen = <<>>
        BY <4>8
      <4>14. a.kind = "reply"
        BY <4>4
      <4>15. due = more \cup {a}
        BY <4>4
      <4>16. ~r.running
        BY <4>4
      <4>17. /\ Tells(broker, more)
             /\ ~Known(m, due, "check", "none")
             /\ Shown(broker, m, due, "check", "none") => Shown(broker, f, more, "start", asked)
        <5>1. Tells(broker, more)
          BY <4>5, <4>6, <4>7, <4>9, <4>10, <4>11, <4>12, <4>13, <4>14, <4>15, <4>16, StartIsSent
        <5>2. ASSUME Known(m, due, "check", "none")
              PROVE  FALSE
          <6>1. TakesOver(r, m, a.state, "check" # "start")
            BY <4>7
          <6>2. "start" # "check"
            OBVIOUS
          <6>3. r.running
            BY <4>5, <4>9, <4>10, <4>14, <4>15, <5>2, <6>1, <6>2, StateKeepsView
          <6>4. QED
            BY <4>16, <6>3
        <5>3. ASSUME Shown(broker, m, due, "check", "none")
              PROVE  Shown(broker, f, more, "start", asked)
          BY <5>3, <4>5, <4>6, <4>7, <4>9, <4>10, <4>11, <4>12, <4>13, <4>14, <4>15, <4>16, StartIsSent
        <5>4. QED
          BY <5>1, <5>2, <5>3
      <4>18. ~(<<c, "run">> \notin unseen /\ Live)
        BY <4>3, <4>17
      <4>19. ~Missed(c) => Shown(broker, f, more, "start", asked)
        BY <4>3, <4>17
      <4>20. QED
        BY <4>17, <4>18, <4>19
    <3>5. QED
      BY <1>1, <2>8, <3>1, <3>2, <3>4 DEF ViewInv, Outlived, Missed, Live
  <2>13. QED
    BY <1>1, <2>8, <2>10, <2>12, ControlKeepsMirror DEF Controls, Continue
<1>7. QED
  BY <1>5, <1>6

LEMMA InitialMirror ==
  ASSUME Init
  PROVE  MirrorInv
<1>1. broker.pty = 0 /\ broker.runs = 0 /\ broker.clients = {}
  BY DEF Init, Down
<1>2. TranscriptInv
  BY <1>1 DEF TranscriptInv, Live
<1>3. ASSUME NEW c \in Clients
      PROVE  OrderInv(c) /\ KindInv(c) /\ ViewInv(c)
  <2>1. /\ request[c] = "none" /\ serving[c].type = "none" /\ inbox[c] = <<>>
        /\ mirror[c] = EmptyMirror /\ call[c] = "absent" /\ answer[c] = NoAnswer
    BY DEF Init
  <2>2. OrderInv(c)
    BY <2>1, NothingInOrder, EmptyMirrorTyped DEF OrderInv
  <2>3. QED
    BY <1>1, <2>1, <2>2 DEF KindInv, ViewInv
<1>4. QED
  BY <1>2, <1>3 DEF MirrorInv

LEMMA NextKeepsMirror ==
  ASSUME SessionInv, MirrorInv, Next, StartNotOvertaken
  PROVE  MirrorInv'
<1>1. TypeOK'
  BY NextKeepsInv DEF SessionInv
<1>2. CASE Serving
  BY <1>1, <1>2, ServingKeepsMirror
<1>3. CASE IdleExit
  BY <1>1, <1>3, IdleExitKeepsMirror
<1>4. ASSUME NEW c \in Clients, Controls(c)
      PROVE  MirrorInv'
  <2>1. CASE Continue(c)
    BY <1>1, <2>1, ContinueAttachKeepsMirror, ContinueCheckKeepsMirror, ContinueRunKeepsMirror,
       ContinueDisposeKeepsMirror, ContinueShutdownKeepsMirror DEF Continue
  <2>2. CASE ReadEvent(c)
    BY <1>1, <2>2, ReadEventKeepsMirror
  <2>3. QED
    BY <1>1, <1>4, <2>1, <2>2, EnterKeepsMirror, AttachKeepsMirror, DrainAttachKeepsMirror,
       FinishAttachKeepsMirror, StartKeepsMirror, StopKeepsMirror, DisposeKeepsMirror,
       LeaveKeepsMirror, ReadAnswerKeepsMirror, SeesCloseKeepsMirror DEF Controls
<1>5. QED
  BY <1>2, <1>3, <1>4 DEF Next

LEMMA StutterKeepsMirror ==
  ASSUME SessionInv, MirrorInv, UNCHANGED vars
  PROVE  MirrorInv'
<1>1. TypeOK /\ TypeOK' /\ SameRun /\ TranscriptInv
  BY DEF SessionInv, TypeOK, MirrorInv, SameRun, vars
<1>2. /\ \A at, asked : Moved(broker, broker', at, asked)
      /\ Live' <=> Live
      /\ TranscriptInv'
  BY <1>1, NothingMoves
<1>3. ASSUME NEW c \in Clients
      PROVE  OrderInv(c)' /\ KindInv(c)' /\ ViewInv(c)'
  <2>1. OrderInv(c) /\ KindInv(c) /\ ViewInv(c) /\ Same(c) /\ unseen' = unseen
    BY DEF MirrorInv, Same, vars
  <2>2. QED
    BY <1>1, <1>2, <2>1, OthersKeepView
<1>4. QED
  BY <1>2, <1>3 DEF MirrorInv

\* What MirrorAgrees and ScreenAgrees rest on holds of every run, unless start() goes on
\* after an await with outputs it has read before: the numbers of handleData, the state of
\* applyState and the events of applyEvent and attach() give each window the broker's run.
THEOREM MirrorInvariant == TameSpec => [](SessionInv /\ MirrorInv)
<1>1. Init => SessionInv /\ MirrorInv
  BY InitialInv, InitialMirror
<1>2. SessionInv /\ MirrorInv /\ [Next /\ StartNotOvertaken]_vars => (SessionInv /\ MirrorInv)'
  BY NextKeepsInv, StutterKeepsInv, NextKeepsMirror, StutterKeepsMirror
<1>3. QED
  BY <1>1, <1>2, PTL DEF TameSpec

\* Nothing is due in a window that is connected, idle and has read everything.
LEMMA SettledShows ==
  ASSUME SessionInv, MirrorInv, NEW c \in Clients, Settled(c), ~Outlived(c)
  PROVE  /\ mirror[c].running => Live
         /\ <<c, "run">> \notin unseen /\ Live => mirror[c].running /\ mirror[c].exit # "none"
         /\ ~Missed(c) /\ mirror[c].running =>
              Good(broker, mirror[c].screen, {NoAnswer}, mirror[c].applied)
<1>1. /\ TypeOK /\ ClientInv(c) /\ ViewInv(c) /\ call[c] = "idle" /\ c \in broker.clients
      /\ inbox[c] = <<>>
  BY DEF SessionInv, MirrorInv, Settled
<1>2. answer[c] = NoAnswer /\ mirror[c].queued = <<>> /\ request[c] = "none"
  BY <1>1, IdleClient
<1>3. Due(c) = {NoAnswer}
  BY <1>1, <1>2, EmptyBox DEF Due
<1>4. \A n : ~ExitDue({NoAnswer}, n)
  BY DEF ExitDue, NoAnswer
<1>5. mirror[c].running => Live
  <2>1. Truthful(Live, mirror[c], {NoAnswer}, FALSE, FALSE)
    BY <1>1, <1>2, <1>3 DEF ClientInv, PhantomInv
  <2>2. QED
    BY <1>4, <2>1 DEF Truthful
<1>6. /\ ~Missed(c) => Shown(broker, mirror[c], {NoAnswer}, "idle", "none")
      /\ <<c, "run">> \notin unseen /\ Live => Known(mirror[c], {NoAnswer}, "idle", "none")
  BY <1>1, <1>2, <1>3 DEF ViewInv
<1>7. QED
  BY <1>4, <1>5, <1>6 DEF Shown, Known

\* A window that is connected, idle and has read everything shows a run exactly while the
\* broker's PTY lives, and then waitForExit() has a promise to wait for, unless another window
\* started the run while this one was connected, or this one outlived a broker.
THEOREM MirrorTheorem == TameSpec => []MirrorAgrees
<1>1. SessionInv /\ MirrorInv => MirrorAgrees
  <2>1. SUFFICES ASSUME SessionInv, MirrorInv, NEW c \in Clients, Settled(c),
                        {<<c, "run">>, <<c, "end">>} \cap unseen = {}
                 PROVE  /\ mirror[c].running = Live
                        /\ Live => mirror[c].exit # "none"
    BY DEF MirrorAgrees
  <2>2. <<c, "run">> \notin unseen /\ ~Outlived(c)
    BY <2>1 DEF Outlived
  <2>3. /\ mirror[c].running <=> Live
        /\ Live => mirror[c].exit # "none"
    BY <2>1, <2>2, SettledShows
  <2>4. mirror[c].running \in BOOLEAN
    BY <2>1 DEF SessionInv, TypeOK, Mirrors
  <2>5. QED
    BY <2>3, <2>4 DEF Live
<1>2. QED
  BY <1>1, MirrorInvariant, PTL

\* The screen of such a window is the broker's transcript: each output of the live run once
\* and in order, whatever part of it came in the snapshot, was held back during attach() or
\* came as an event, unless the window outlived a broker, or starts runs and missed one.
THEOREM ScreenTheorem == TameSpec => []ScreenAgrees
<1>1. SessionInv /\ MirrorInv => ScreenAgrees
  <2>1. SUFFICES ASSUME SessionInv, MirrorInv, NEW c \in Clients, Settled(c),
                        mirror[c].running, <<c, "end">> \notin unseen, ~Missed(c),
                        broker.terminal
                 PROVE  mirror[c].screen = broker.transcript
    BY DEF ScreenAgrees
  <2>2. Live /\ Good(broker, mirror[c].screen, {NoAnswer}, mirror[c].applied)
    BY <2>1, SettledShows DEF Outlived
  <2>3. \A i \in 1..Len(broker.transcript) : broker.transcript[i] = <<broker.pty, i>>
    BY <2>1, <2>2 DEF MirrorInv, TranscriptInv
  <2>4. PICK screen : screen = mirror[c].screen
    OBVIOUS
  <2>5. PICK transcript : transcript = broker.transcript
    OBVIOUS
  <2>6. screen \in Seq(Outputs) /\ transcript \in Seq(Outputs)
    <3>1. screen \in Seq(Outputs) \cup {NoScreen}
      BY <2>1, <2>4 DEF SessionInv, TypeOK, Mirrors
    <3>2. transcript \in Seq(Outputs)
      BY <2>1, <2>5 DEF SessionInv, TypeOK, Brokers
    <3>3. screen # NoScreen
      BY <2>1, <2>2, <2>4 DEF Good
    <3>4. QED
      BY <3>1, <3>2, <3>3
  <2>7. /\ Len(screen) <= Len(transcript)
        /\ \A i \in 1..Len(screen) : screen[i] = <<broker.pty, i>>
    BY <2>1, <2>2, <2>4, <2>5 DEF Good
  <2>8. \A j : j \notin (Len(screen) + 1)..Len(transcript)
    BY <2>1, <2>2, <2>4, <2>5 DEF Good, NoAnswer
  <2>9. Len(screen) = Len(transcript)
    <3>1. PICK n \in Nat : n = Len(screen)
      BY <2>6
    <3>2. PICK k \in Nat : k = Len(transcript)
      BY <2>6
    <3>3. k \notin (n + 1)..k
      BY <2>8, <3>1, <3>2
    <3>4. n <= k
      BY <2>7, <3>1, <3>2
    <3>5. QED
      BY <3>1, <3>2, <3>3, <3>4
  <2>10. screen = transcript
    <3>1. \A i \in 1..Len(screen) : screen[i] = transcript[i]
      BY <2>3, <2>5, <2>7, <2>9
    <3>2. QED
      BY <2>6, <2>9, <3>1, SeqEqual
  <2>11. QED
    BY <2>4, <2>5, <2>10
<1>2. QED
  BY <1>1, MirrorInvariant, PTL
=============================================================================
