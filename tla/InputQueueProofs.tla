-------------------------- MODULE InputQueueProofs --------------------------
(***************************************************************************)
(* Queued lines reach a PTY once, in the order they were typed, and a      *)
(* reload keeps them, for any lines and any number of runs.  The argument: *)
(* what is queued was typed in that order and later than whatever left the *)
(* queue before it, no line is both queued and written, and the newest     *)
(* copy on its way to the broker, or with it, is the queue.                *)
(***************************************************************************)
EXTENDS InputQueue, Integers, FiniteSetTheorems, SequenceTheorems, TLAPS

\* In the list of typed lines, l comes before m.
Before(list, l, m) == \E a, b \in 1..Len(list) : a < b /\ list[a] = l /\ list[b] = m
WasTyped(list, l) == \E a \in 1..Len(list) : list[a] = l

AllWereTyped ==
  /\ \A i \in 1..Len(queue) : WasTyped(typed, queue[i])
  /\ \A i \in 1..Len(written) : WasTyped(typed, written[i].line)

QueueIsOrdered ==
  \A i, j \in 1..Len(queue) : i < j => Before(typed, queue[i], queue[j]) /\ queue[i] # queue[j]

QueuedAreUnwritten ==
  \A i \in 1..Len(written), j \in 1..Len(queue) : written[i].line # queue[j]

\* Only a destructive line stays behind in the queue.
SentInTurn ==
  \A i \in 1..Len(written), j \in 1..Len(queue) :
    written[i].queued /\ queue[j] \notin Destructive => Before(typed, written[i].line, queue[j])

WrittenOnce ==
  \A i, j \in 1..Len(written) : written[i].line = written[j].line => i = j

WrittenInOrder ==
  \A i, j \in 1..Len(written) :
    written[i].queued /\ written[j].queued /\ i < j => Before(typed, written[i].line, written[j].line)

Ordered ==
  /\ AllWereTyped /\ QueueIsOrdered /\ QueuedAreUnwritten /\ SentInTurn
  /\ WrittenOnce /\ WrittenInOrder

HeldBack == \A i \in 1..Len(written) : written[i].queued => written[i].line \notin Destructive

\* The newest control state: the last that waits, or the one the broker holds.
Copy == IF syncs = <<>> THEN control ELSE syncs[Len(syncs)]
NoCopy == syncs = <<>> /\ control = NoControl

CopyInv ==
  /\ runs = 0 => ~connected
  /\ ~connected => NoCopy
  /\ connected => Copy.queue = queue \/ NoCopy

QueueInv == TypeOK /\ HeldBack /\ CopyInv /\ (~killed => Ordered)

-----------------------------------------------------------------------------
(* Sequences                                                               *)

\* What a concatenation holds, and where.
LEMMA ConcatenationHolds ==
  ASSUME NEW S, NEW s \in Seq(S), NEW r \in Seq(S)
  PROVE  /\ s \o r \in Seq(S) /\ Len(s \o r) = Len(s) + Len(r)
         /\ \A i \in 1..Len(s) : (s \o r)[i] = s[i]
         /\ \A i \in 1..Len(s \o r) :
              i \notin 1..Len(s) =>
                i - Len(s) \in 1..Len(r) /\ (s \o r)[i] = r[i - Len(s)]
<1>1. Len(s) \in Nat /\ Len(r) \in Nat
  OBVIOUS
<1>2. s \o r \in Seq(S) /\ Len(s \o r) = Len(s) + Len(r)
  OBVIOUS
<1>3. \A i \in 1..Len(s) : (s \o r)[i] = s[i]
  BY <1>1
<1>4. ASSUME NEW i \in 1..Len(s \o r), i \notin 1..Len(s)
      PROVE  i - Len(s) \in 1..Len(r) /\ (s \o r)[i] = r[i - Len(s)]
  BY <1>1, <1>2, <1>4
<1>5. QED
  BY <1>2, <1>3, <1>4

\* What an appended element leaves in place.
LEMMA AppendHolds ==
  ASSUME NEW S, NEW s \in Seq(S), NEW e \in S
  PROVE  /\ Append(s, e) \in Seq(S) /\ Len(Append(s, e)) = Len(s) + 1 /\ Len(s) \in Nat
         /\ \A i \in 1..Len(s) : Append(s, e)[i] = s[i]
         /\ Append(s, e)[Len(s) + 1] = e
         /\ \A i \in 1..Len(Append(s, e)) : i \in 1..Len(s) \/ i = Len(s) + 1
  OBVIOUS

-----------------------------------------------------------------------------
(* Types and the copy                                                      *)

WrittenLine == [line: Lines, to: 1..MaxRuns, queued: BOOLEAN]

\* What runner.write appends: a record of each line, or nothing without a live run.
LEMMA WrittenFits ==
  ASSUME TypeOK, NEW lines \in Seq(Lines), NEW queued \in BOOLEAN
  PROVE  /\ Written(lines, queued) \in Seq(WrittenLine)
         /\ run = 0 => Written(lines, queued) = written
         /\ run # 0 =>
              /\ Len(Written(lines, queued)) = Len(written) + Len(lines)
              /\ \A i \in 1..Len(written) : Written(lines, queued)[i] = written[i]
              /\ \A i \in 1..Len(Written(lines, queued)) :
                   i \notin 1..Len(written) =>
                     /\ i - Len(written) \in 1..Len(lines)
                     /\ Written(lines, queued)[i].line = lines[i - Len(written)]
                     /\ Written(lines, queued)[i].queued = queued
<1> DEFINE more == [i \in DOMAIN lines |-> [line |-> lines[i], to |-> run, queued |-> queued]]
<1>1. written \in Seq(WrittenLine) /\ run \in 0..MaxRuns
  BY DEF TypeOK, WrittenLine
<1>2. CASE run = 0
  BY <1>1, <1>2 DEF Written
<1>3. CASE run # 0
  <2>1. run \in 1..MaxRuns
    BY <1>1, <1>3, BoundsAssumption
  <2>2. \A i \in 1..Len(lines) : more[i] \in WrittenLine
    BY <2>1 DEF WrittenLine
  <2>3. \A i \in 1..Len(lines) : more[i].line = lines[i] /\ more[i].queued = queued
    OBVIOUS
  <2>4. Written(lines, queued) = written \o more
    BY <1>3 DEF Written
  <2>5. Len(lines) \in Nat /\ more = [i \in 1..Len(lines) |-> more[i]]
    OBVIOUS
  <2> HIDE DEF more
  <2>6. more \in Seq(WrittenLine) /\ Len(more) = Len(lines)
    BY <2>2, <2>5
  <2>7. /\ written \o more \in Seq(WrittenLine) /\ Len(written \o more) = Len(written) + Len(more)
        /\ \A i \in 1..Len(written) : (written \o more)[i] = written[i]
        /\ \A i \in 1..Len(written \o more) :
             i \notin 1..Len(written) =>
               i - Len(written) \in 1..Len(more) /\ (written \o more)[i] = more[i - Len(written)]
    BY <1>1, <2>6, ConcatenationHolds, Zenon
  <2>8. QED
    BY <1>3, <2>3, <2>4, <2>6, <2>7
<1>4. QED
  BY <1>2, <1>3

\* The place of an index is a number up to the number of indices, and a later index has a
\* later place.
LEMMA RankIsMonotone ==
  ASSUME NEW n \in Nat, NEW I \in SUBSET (1..n)
  PROVE  /\ IsFiniteSet(I) /\ Cardinality(I) \in Nat /\ Cardinality(I) <= n
         /\ \A i \in I : Rank(I, i) \in 1..Cardinality(I)
         /\ \A i, j \in I : i < j => Rank(I, i) < Rank(I, j)
<1> DEFINE UpTo(i) == {j \in I : j <= i}
<1>1. IsFiniteSet(1..n) /\ Cardinality(1..n) = n
  BY FS_Interval
<1>2. IsFiniteSet(I) /\ Cardinality(I) <= n
  BY <1>1, FS_Subset
<1>3. \A T \in SUBSET I : IsFiniteSet(T) /\ Cardinality(T) \in Nat /\ Cardinality(T) <= Cardinality(I)
  BY <1>2, FS_Subset, FS_CardinalityType
<1>4. ASSUME NEW i \in I PROVE Rank(I, i) \in 1..Cardinality(I)
  <2>1. UpTo(i) \in SUBSET I /\ i \in UpTo(i)
    OBVIOUS
  <2>2. Cardinality(UpTo(i)) # 0
    BY <1>3, <2>1, FS_EmptySet
  <2>3. Cardinality(I) \in Nat
    BY <1>3
  <2>4. QED
    BY <1>3, <2>1, <2>2, <2>3 DEF Rank
<1>5. ASSUME NEW i \in I, NEW j \in I, i < j PROVE Rank(I, i) < Rank(I, j)
  <2>1. UpTo(i) \in SUBSET UpTo(j) /\ j \in UpTo(j) /\ j \notin UpTo(i) /\ UpTo(j) \in SUBSET I
    <3>1. \A k \in I : k \in Nat
      OBVIOUS
    <3>2. \A k \in I : k <= i => k <= j
      BY <1>5, <3>1
    <3>3. ~(j <= i) /\ j <= j
      BY <1>5, <3>1
    <3>4. QED
      BY <3>2, <3>3
  <2>2. IsFiniteSet(UpTo(j)) /\ Cardinality(UpTo(j)) \in Nat /\ Cardinality(UpTo(i)) \in Nat
    BY <1>3, <2>1
  <2>3. Cardinality(UpTo(i)) <= Cardinality(UpTo(j)) /\ Cardinality(UpTo(i)) # Cardinality(UpTo(j))
    <3> HIDE DEF UpTo
    <3>1. QED
      BY <2>1, <2>2, FS_Subset
  <2>4. QED
    BY <2>2, <2>3 DEF Rank
<1>6. QED
  BY <1>2, <1>3, <1>4, <1>5

\* Every place is the place of an index.
LEMMA RankIsOnto ==
  ASSUME NEW n \in Nat, NEW I \in SUBSET (1..n), NEW k \in 1..Cardinality(I)
  PROVE  \E i \in I : Rank(I, i) = k
<1> DEFINE places == 1..Cardinality(I)
           rank == [i \in I |-> Rank(I, i)]
<1>1. IsFiniteSet(I) /\ Cardinality(I) \in Nat
  BY RankIsMonotone
<1>2. IsFiniteSet(places) /\ Cardinality(places) = Cardinality(I)
  BY <1>1, FS_Interval
<1>3. rank \in [I -> places]
  BY RankIsMonotone
<1>4. \A i, j \in I : rank[i] = rank[j] => i = j
  <2>1. ASSUME NEW i \in I, NEW j \in I, i # j PROVE rank[i] # rank[j]
    <3>1. i < j \/ j < i
      BY <2>1
    <3>2. rank[i] \in Nat /\ rank[j] \in Nat
      BY <1>1, <1>3
    <3>3. QED
      BY <3>1, <3>2, RankIsMonotone
  <2>2. QED
    BY <2>1
<1> HIDE DEF rank, places
<1>5. rank \in Injection(I, places)
  BY <1>3, <1>4 DEF Injection, IsInjective
<1>6. rank \in Surjection(I, places)
  <2>1. (Cardinality(I) = Cardinality(places)) <=> rank \in Surjection(I, places)
    BY <1>2, <1>5, FS_Injection
  <2>2. QED
    BY <1>2, <2>1
<1>7. QED
  BY <1>6 DEF Surjection, rank, places

\* A filter takes each of the chosen elements once, in their order, and nothing else: its
\* k-th element is the one at at[k], where at counts the indices upwards.
LEMMA SubsequenceIsFilter ==
  ASSUME NEW S, NEW s \in Seq(S), NEW I \in SUBSET (1..Len(s))
  PROVE  /\ Subsequence(s, I) \in Seq(S)
         /\ Len(Subsequence(s, I)) = Cardinality(I) /\ Cardinality(I) <= Len(s)
         /\ \E at \in [1..Cardinality(I) -> I] :
              /\ \A k \in 1..Cardinality(I) : Subsequence(s, I)[k] = s[at[k]]
              /\ \A k, l \in 1..Cardinality(I) : k < l => at[k] < at[l]
              /\ \A i \in I : \E k \in 1..Cardinality(I) : at[k] = i
<1> DEFINE t == Subsequence(s, I)
           at == [k \in 1..Cardinality(I) |-> CHOOSE i \in I : Rank(I, i) = k]
<1>1. /\ Cardinality(I) \in Nat /\ Cardinality(I) <= Len(s) /\ Len(s) \in Nat
      /\ \A i \in I : i \in Nat /\ i \in 1..Len(s) /\ Rank(I, i) \in 1..Cardinality(I)
      /\ \A i, j \in I : i < j => Rank(I, i) < Rank(I, j)
  <2>1. Len(s) \in Nat
    OBVIOUS
  <2>2. QED
    BY <2>1, RankIsMonotone
<1>2. \A k \in 1..Cardinality(I) : at[k] \in I /\ Rank(I, at[k]) = k
  <2>1. Len(s) \in Nat
    OBVIOUS
  <2>2. QED
    BY <2>1, RankIsOnto
<1>3. \A k \in 1..Cardinality(I) : t[k] = s[at[k]]
  BY DEF Subsequence
<1>4. at \in [1..Cardinality(I) -> I]
  BY <1>2
<1>5. t = [k \in 1..Cardinality(I) |-> t[k]]
  BY DEF Subsequence
<1> HIDE DEF at, t
<1>6. \A k \in 1..Cardinality(I) : t[k] \in S
  <2>1. ASSUME NEW i \in I PROVE s[i] \in S
    BY <1>1
  <2>2. QED
    BY <1>4, <1>3, <2>1
<1>7. t \in Seq(S) /\ Len(t) = Cardinality(I)
  BY <1>1, <1>6, <1>5
<1>8. ASSUME NEW k \in 1..Cardinality(I), NEW l \in 1..Cardinality(I), k < l
      PROVE  at[k] < at[l]
  <2>1. at[k] \in I /\ at[l] \in I /\ Rank(I, at[k]) = k /\ Rank(I, at[l]) = l
    BY <1>2
  <2>2. at[k] \in Nat /\ at[l] \in Nat
    BY <1>1, <2>1
  <2>3. ~(at[l] < at[k]) /\ at[k] # at[l]
    BY <1>1, <1>8, <2>1, <2>2
  <2>4. QED
    BY <2>2, <2>3
<1>9. ASSUME NEW i \in I PROVE \E k \in 1..Cardinality(I) : at[k] = i
  <2>1. Rank(I, i) \in 1..Cardinality(I)
    BY <1>1
  <2>2. at[Rank(I, i)] \in I /\ Rank(I, at[Rank(I, i)]) = Rank(I, i)
    BY <1>2, <2>1
  <2>3. ~(at[Rank(I, i)] < i) /\ ~(i < at[Rank(I, i)])
    <3>1. at[Rank(I, i)] < i => Rank(I, at[Rank(I, i)]) < Rank(I, i)
      BY <1>1, <2>2
    <3>2. i < at[Rank(I, i)] => Rank(I, i) < Rank(I, at[Rank(I, i)])
      BY <1>1, <2>2
    <3>3. QED
      BY <1>1, <2>2, <3>1, <3>2
  <2>4. at[Rank(I, i)] = i
    <3>1. at[Rank(I, i)] \in Nat /\ i \in Nat
      BY <1>1, <2>2
    <3>2. QED
      BY <2>3, <3>1
  <2>5. QED
    BY <2>1, <2>4
<1>10. QED
  BY <1>1, <1>3, <1>7, <1>8, <1>9, <1>4 DEF t

\* The lines a flush sends and those it leaves, both in their order.
LEMMA FlushSplits ==
  ASSUME NEW lines \in Seq(Lines)
  PROVE  /\ Sendable(lines) \in Seq(Lines) /\ Held(lines) \in Seq(Lines)
         /\ \E at \in [1..Len(Sendable(lines)) -> 1..Len(lines)] :
              \A k, l \in 1..Len(Sendable(lines)) :
                /\ Sendable(lines)[k] = lines[at[k]] /\ Sendable(lines)[k] \notin Destructive
                /\ k < l => at[k] < at[l]
         /\ \E at \in [1..Len(Held(lines)) -> 1..Len(lines)] :
              \A k, l \in 1..Len(Held(lines)) :
                /\ Held(lines)[k] = lines[at[k]] /\ Held(lines)[k] \in Destructive
                /\ k < l => at[k] < at[l]
<1>1. ASSUME NEW I \in SUBSET (1..Len(lines))
      PROVE  /\ Subsequence(lines, I) \in Seq(Lines)
             /\ \E at \in [1..Len(Subsequence(lines, I)) -> I] :
                  \A k, l \in 1..Len(Subsequence(lines, I)) :
                    Subsequence(lines, I)[k] = lines[at[k]] /\ (k < l => at[k] < at[l])
  <2> DEFINE s == Subsequence(lines, I)
  <2>1. s \in Seq(Lines) /\ Len(s) = Cardinality(I)
    BY SubsequenceIsFilter
  <2>2. PICK at \in [1..Cardinality(I) -> I] :
          /\ \A k \in 1..Cardinality(I) : s[k] = lines[at[k]]
          /\ \A k, l \in 1..Cardinality(I) : k < l => at[k] < at[l]
    BY SubsequenceIsFilter
  <2> HIDE DEF s
  <2>3. at \in [1..Len(s) -> I] /\ \A k, l \in 1..Len(s) : s[k] = lines[at[k]] /\ (k < l => at[k] < at[l])
    BY <2>1, <2>2
  <2>4. QED
    BY <2>1, <2>3 DEF s
<1> DEFINE Go == {i \in DOMAIN lines : lines[i] \notin Destructive}
           Stay == {i \in DOMAIN lines : lines[i] \in Destructive}
<1>2. /\ Go \in SUBSET (1..Len(lines)) /\ \A i \in Go : lines[i] \notin Destructive
      /\ Stay \in SUBSET (1..Len(lines)) /\ \A i \in Stay : lines[i] \in Destructive
  OBVIOUS
<1>3. Sendable(lines) = Subsequence(lines, Go) /\ Held(lines) = Subsequence(lines, Stay)
  BY DEF Sendable, Held
<1> HIDE DEF Go, Stay
<1>4. Sendable(lines) \in Seq(Lines) /\ Held(lines) \in Seq(Lines)
  BY <1>1, <1>2, <1>3
<1>5. PICK at \in [1..Len(Subsequence(lines, Go)) -> Go] :
        \A k, l \in 1..Len(Subsequence(lines, Go)) :
          Subsequence(lines, Go)[k] = lines[at[k]] /\ (k < l => at[k] < at[l])
  BY <1>1, <1>2, Zenon
<1>6. PICK of \in [1..Len(Subsequence(lines, Stay)) -> Stay] :
        \A k, l \in 1..Len(Subsequence(lines, Stay)) :
          Subsequence(lines, Stay)[k] = lines[of[k]] /\ (k < l => of[k] < of[l])
  BY <1>1, <1>2, Zenon
<1>7. at \in [1..Len(Sendable(lines)) -> 1..Len(lines)] /\ of \in [1..Len(Held(lines)) -> 1..Len(lines)]
  BY <1>2, <1>3
<1>8. \A k \in 1..Len(Sendable(lines)) : Sendable(lines)[k] \notin Destructive
  BY <1>2, <1>3, <1>5
<1>9. \A k \in 1..Len(Held(lines)) : Held(lines)[k] \in Destructive
  BY <1>2, <1>3, <1>6
<1>10. \A k, l \in 1..Len(Sendable(lines)) :
         /\ Sendable(lines)[k] = lines[at[k]] /\ Sendable(lines)[k] \notin Destructive
         /\ k < l => at[k] < at[l]
  BY <1>3, <1>5, <1>8
<1>11. \A k, l \in 1..Len(Held(lines)) :
         /\ Held(lines)[k] = lines[of[k]] /\ Held(lines)[k] \in Destructive
         /\ k < l => of[k] < of[l]
  BY <1>3, <1>6, <1>9
<1>12. QED
  BY <1>4, <1>7, <1>10, <1>11, Zenon

-----------------------------------------------------------------------------
(* Types and the copy, step by step                                        *)

Types ==
  /\ stage' \in Stages /\ queue' \in Seq(Lines) /\ written' \in Seq(WrittenLine)
  /\ syncs' \in Seq(Control) /\ Len(syncs') <= MaxSyncs

\* syncProjectControlState leaves a list of control states, whose last is the state synced
\* whenever there is a socket.
LEMMA SyncFits ==
  ASSUME TypeOK, NEW s \in Stages, NEW q \in Seq(Lines)
  PROVE  /\ Synced(s, q) \in Seq(Control)
         /\ ~connected => Synced(s, q) = syncs
         /\ connected => Synced(s, q) # <<>> /\ Synced(s, q)[Len(Synced(s, q))].queue = q
<1> DEFINE state == [stage |-> s, queue |-> q]
<1>1. state \in Control /\ syncs \in Seq(Control) /\ state.queue = q
  BY DEF Control, TypeOK
<1> HIDE DEF state
<1>2. Append(syncs, state) \in Seq(Control) /\ Append(syncs, state) # <<>>
      /\ Append(syncs, state)[Len(Append(syncs, state))] = state
  BY <1>1
<1>3. Synced(s, q) =
        IF ~connected THEN syncs
        ELSE IF syncs # <<>> /\ syncs[Len(syncs)] = state THEN syncs ELSE Append(syncs, state)
  BY DEF Synced, state
<1>4. QED
  BY <1>1, <1>2, <1>3

\* A step that syncs the queue it leaves keeps the copy true.
LEMMA SyncKeepsCopy ==
  ASSUME TypeOK, CopyInv, NEW s \in Stages, queue' \in Seq(Lines), syncs' = Synced(s, queue'),
         UNCHANGED <<runs, connected, control>>
  PROVE  CopyInv'
<1>1. /\ ~connected => syncs' = syncs
      /\ connected => syncs' # <<>> /\ syncs'[Len(syncs')].queue = queue'
  BY SyncFits
<1>2. QED
  BY <1>1 DEF CopyInv, Copy, NoCopy

\* A step that leaves the queue and its copies alone.
LEMMA QuietKeepsCopy ==
  ASSUME CopyInv, UNCHANGED <<queue, syncs, runs, connected, control>>
  PROVE  CopyInv'
BY DEF CopyInv, Copy, NoCopy

\* A flush leaves lines, and writes lines.
LEMMA FlushFits ==
  ASSUME TypeOK, Flush
  PROVE  queue' \in Seq(Lines) /\ written' \in Seq(WrittenLine)
<1>1. queue \in Seq(Lines) /\ written \in Seq(WrittenLine)
  BY DEF TypeOK, WrittenLine
<1>2. Sendable(queue) \in Seq(Lines) /\ Held(queue) \in Seq(Lines)
  BY <1>1, FlushSplits
<1>3. Written(Sendable(queue), TRUE) \in Seq(WrittenLine)
  BY <1>2, WrittenFits
<1>4. QED
  BY <1>1, <1>2, <1>3 DEF Flush

\* A change of stage.
LEMMA StageFits ==
  ASSUME TypeOK, CopyInv, NEW s \in Stages, SetStage(s), UNCHANGED <<runs, connected, control>>
  PROVE  Types /\ CopyInv'
<1>1. queue \in Seq(Lines) /\ written \in Seq(WrittenLine)
  BY DEF TypeOK, WrittenLine
<1>2. queue' \in Seq(Lines) /\ written' \in Seq(WrittenLine)
  <2>1. CASE s = "waiting_prompt"
    BY <2>1, FlushFits DEF SetStage
  <2>2. CASE s # "waiting_prompt"
    <3>1. written' = written /\ queue' \in {<<>>, queue}
      BY <2>2 DEF SetStage
    <3>2. <<>> \in Seq(Lines)
      BY EmptySeq
    <3>3. QED
      BY <1>1, <3>1, <3>2, Zenon
  <2>3. QED
    BY <2>1, <2>2
<1>3. stage' = s /\ syncs' = Synced(s, queue') /\ Len(syncs') <= MaxSyncs
  BY DEF SetStage, Sync, SyncBoundHolds
<1>4. syncs' \in Seq(Control)
  BY <1>2, <1>3, SyncFits
<1>5. CopyInv'
  BY <1>2, <1>3, SyncKeepsCopy
<1>6. QED
  BY <1>2, <1>3, <1>4, <1>5 DEF Types

\* A line the operator types.
LEMMA InputFits ==
  ASSUME TypeOK, CopyInv, NEW l \in Lines, NEW executing \in BOOLEAN, Input(l, executing),
         UNCHANGED <<stage, runs, connected, control>>
  PROVE  Types /\ CopyInv'
<1>1. queue \in Seq(Lines) /\ written \in Seq(WrittenLine) /\ stage \in Stages
      /\ syncs \in Seq(Control) /\ Len(syncs) <= MaxSyncs
  BY DEF TypeOK, WrittenLine
<1>2. CASE executing
  <2>1. queue' \in Seq(Lines) /\ written' = written /\ syncs' = Synced(stage, queue')
    BY <1>1, <1>2 DEF Input
  <2>2. syncs' \in Seq(Control) /\ Len(syncs') <= MaxSyncs
    BY <1>1, <1>2, <2>1, SyncFits DEF Input, SyncBoundHolds
  <2>3. CopyInv'
    BY <1>1, <2>1, SyncKeepsCopy
  <2>4. QED
    BY <1>1, <2>1, <2>2, <2>3 DEF Types
<1>3. CASE ~executing
  <2>1. written' = Written(<<l>>, FALSE) /\ UNCHANGED <<queue, syncs>>
    BY <1>3 DEF Input
  <2>2. <<l>> \in Seq(Lines)
    OBVIOUS
  <2>3. written' \in Seq(WrittenLine)
    BY <2>1, <2>2, WrittenFits
  <2>4. CopyInv'
    BY <2>1, QuietKeepsCopy
  <2>5. QED
    BY <1>1, <2>1, <2>3, <2>4 DEF Types
<1>4. QED
  BY <1>2, <1>3

\* Every step keeps the types of the queue and its copies, and the copy true.
LEMMA CopyStep ==
  ASSUME TypeOK, CopyInv, [Next]_vars
  PROVE  TypeOK' /\ CopyInv'
<1>1. /\ stage \in Stages /\ queue \in Seq(Lines) /\ written \in Seq(WrittenLine)
      /\ syncs \in Seq(Control) /\ Len(syncs) <= MaxSyncs /\ control \in Control
      /\ run \in 0..MaxRuns /\ runs \in 0..MaxRuns /\ MaxRuns \in Nat
      /\ connected \in BOOLEAN /\ call \in Calls /\ killed \in BOOLEAN /\ typed \in Seq(Lines)
  BY BoundsAssumption DEF TypeOK, WrittenLine
<1>2. Types /\ control' \in Control /\ run' \in 0..MaxRuns /\ runs' \in 0..MaxRuns
      /\ connected' \in BOOLEAN /\ call' \in Calls /\ killed' \in BOOLEAN /\ typed' \in Seq(Lines)
      => TypeOK'
  BY DEF Types, TypeOK, WrittenLine
<1>3. CASE UNCHANGED vars
  BY <1>1, <1>2, <1>3, QuietKeepsCopy DEF vars, Types
<1>4. ASSUME NEW l \in Lines, Talk(l) \/ Send(l)
      PROVE  TypeOK' /\ CopyInv'
  <2>1. PICK executing \in BOOLEAN : Input(l, executing)
    BY <1>4 DEF Talk, Send
  <2>2. UNCHANGED <<stage, run, runs, call, connected, control, killed>> /\ typed' = Append(typed, l)
    BY <1>4 DEF Talk, Send
  <2>3. Types /\ CopyInv'
    BY <2>1, <2>2, InputFits
  <2>4. QED
    BY <1>1, <1>2, <2>2, <2>3
<1>5. CASE FlushQueuedInputs
  <2>1. queue' \in Seq(Lines) /\ written' \in Seq(WrittenLine)
    BY <1>5, FlushFits DEF FlushQueuedInputs
  <2>2. /\ UNCHANGED <<stage, run, runs, call, connected, control, typed, killed>>
        /\ syncs' = Synced(stage, queue') /\ Len(syncs') <= MaxSyncs
    BY <1>5 DEF FlushQueuedInputs, Sync, SyncBoundHolds
  <2>3. syncs' \in Seq(Control) /\ CopyInv'
    BY <1>1, <2>1, <2>2, SyncFits, SyncKeepsCopy
  <2>4. QED
    BY <1>1, <1>2, <2>1, <2>2, <2>3 DEF Types
<1>6. CASE BrokerTakesSync
  <2>1. /\ UNCHANGED <<stage, run, runs, call, queue, connected, typed, written, killed>>
        /\ syncs # <<>> /\ connected /\ control' = Head(syncs) /\ syncs' = Tail(syncs)
    BY <1>6 DEF BrokerTakesSync
  <2>2. /\ control' \in Control /\ syncs' \in Seq(Control) /\ Len(syncs') = Len(syncs) - 1
        /\ Len(syncs) \in Nat /\ Len(syncs) >= 1
        /\ \A i \in 1..Len(syncs') : syncs'[i] = syncs[i + 1]
        /\ control' = syncs[1]
    BY <1>1, <2>1, HeadTailProperties
  <2>3. Copy' = Copy
    <3>1. CASE Len(syncs) = 1
      BY <2>1, <2>2, <3>1 DEF Copy
    <3>2. CASE Len(syncs) > 1
      <4>1. syncs' # <<>> /\ Len(syncs') \in 1..Len(syncs')
        BY <2>2, <3>2
      <4>2. syncs'[Len(syncs')] = syncs[Len(syncs)]
        BY <2>2, <4>1
      <4>3. QED
        BY <2>1, <4>1, <4>2 DEF Copy
    <3>3. QED
      BY <2>2, <3>1, <3>2
  <2>4. CopyInv'
    BY <2>1, <2>3 DEF CopyInv, NoCopy
  <2>5. Types
    BY <1>1, <2>1, <2>2, BoundsAssumption DEF Types
  <2>6. QED
    BY <1>1, <1>2, <2>1, <2>2, <2>4, <2>5
<1>7. CASE Launch
  <2>1. Types /\ control' \in Control
    BY <1>1, <1>7, BoundsAssumption DEF Launch, Types, Stages, Control, NoControl
  <2>2. CopyInv'
    BY <1>7 DEF Launch, CopyInv, NoCopy
  <2>3. QED
    BY <1>1, <1>2, <1>7, <2>1, <2>2 DEF Launch, Calls
<1>8. CASE Spawned
  <2>1. Types /\ runs' \in 0..MaxRuns /\ run' \in 0..MaxRuns /\ runs' # 0
    BY <1>1, <1>8 DEF Spawned, Types
  <2>2. CopyInv'
    BY <1>8, <2>1 DEF Spawned, CopyInv, Copy, NoCopy
  <2>3. QED
    BY <1>1, <1>2, <1>8, <2>1, <2>2 DEF Spawned
<1>9. CASE NextStage \/ ExecSettles \/ StopBegins \/ StopEnds
  <2>1. PICK s \in Stages : SetStage(s)
    BY <1>9 DEF NextStage, ExecSettles, StopBegins, StopEnds, Stages, TerminalStages
  <2>2. UNCHANGED <<run, runs, connected, control, typed, killed>> /\ call' \in Calls
    BY <1>1, <1>9 DEF NextStage, ExecSettles, StopBegins, StopEnds, Elsewhere, Calls
  <2>3. Types /\ CopyInv'
    BY <2>1, <2>2, StageFits
  <2>4. QED
    BY <1>1, <1>2, <2>2, <2>3
<1>10. CASE Exits
  <2>1. run' = 0 /\ UNCHANGED <<runs, connected, control, typed, killed>> /\ call' \in Calls
    BY <1>1, <1>10 DEF Exits, Elsewhere, Calls
  <2>2. CASE UNCHANGED <<stage, queue, syncs, written>>
    BY <1>1, <1>2, <2>1, <2>2, QuietKeepsCopy DEF Types
  <2>3. CASE SetStage("completed")
    <3>1. Types /\ CopyInv'
      BY <2>1, <2>3, StageFits DEF Stages, TerminalStages
    <3>2. QED
      BY <1>1, <1>2, <2>1, <3>1
  <2>4. QED
    BY <1>10, <2>2, <2>3 DEF Exits
<1>11. CASE Reload \/ Killed
  <2>1. /\ stage' = control.stage /\ queue' = control.queue /\ syncs' = <<>>
        /\ connected' = (runs > 0) /\ call' = "none"
        /\ UNCHANGED <<run, runs, control, typed, written>>
    BY <1>11 DEF Reload, Killed, Restored
  <2>2. killed' \in BOOLEAN
    BY <1>1, <1>11 DEF Reload, Killed
  <2>3. connected' \in BOOLEAN /\ (connected' <=> runs > 0)
    <3>1. connected' \in BOOLEAN
      BY <2>1
    <3>2. connected' = (runs > 0)
      BY <2>1
    <3>3. ASSUME runs > 0 PROVE connected'
      BY <3>2, <3>3, Zenon
    <3>4. ASSUME ~(runs > 0) PROVE ~connected'
      BY <3>2, <3>4, Zenon
    <3>5. QED
      BY <3>1, <3>3, <3>4, Zenon
  <2>4. Types
    BY <1>1, <2>1, BoundsAssumption DEF Types, Control
  <2>5. Copy'.queue = queue'
    BY <2>1 DEF Copy
  <2>6. ~connected' => runs = 0
    BY <1>1, <2>3
  <2>7. runs = 0 => ~connected'
    BY <1>1, <2>3
  <2>8. ~connected' => NoCopy'
    BY <2>1, <2>6 DEF CopyInv, NoCopy
  <2>9. CopyInv'
    BY <2>1, <2>5, <2>7, <2>8 DEF CopyInv
  <2>10. QED
    BY <1>1, <1>2, <2>1, <2>2, <2>3, <2>4, <2>9 DEF Calls
<1>12. ASSUME NEW l \in Lines, SendGo(l)
       PROVE  TypeOK' /\ CopyInv'
  <2>1. /\ UNCHANGED <<run, runs, queue, connected, control, killed>> /\ typed' = Append(typed, l)
        /\ stage' = "running" /\ call' \in Calls /\ written' = Written(<<l>>, FALSE)
        /\ syncs' = Synced(stage', queue') /\ Len(syncs') <= MaxSyncs
    BY <1>1, <1>12 DEF SendGo, Sync, SyncBoundHolds, Calls
  <2>2. stage' \in Stages /\ <<l>> \in Seq(Lines) /\ queue' \in Seq(Lines)
    BY <1>1, <2>1 DEF Stages
  <2>3. written' \in Seq(WrittenLine) /\ syncs' \in Seq(Control) /\ CopyInv'
    BY <2>1, <2>2, WrittenFits, SyncFits, SyncKeepsCopy
  <2>4. QED
    BY <1>1, <1>2, <2>1, <2>2, <2>3 DEF Types
<1>13. QED
  BY <1>3, <1>4, <1>5, <1>6, <1>7, <1>8, <1>9, <1>10, <1>11, <1>12 DEF Next
-----------------------------------------------------------------------------
(* What a step does to the lines: it leaves them, or drops the queue; it   *)
(* flushes; or it takes one that was never typed before.                   *)

Leaves == typed' = typed /\ written' = written /\ (queue' = queue \/ queue' = <<>>)

Flushes ==
  /\ typed' = typed /\ run # 0
  /\ queue' = Held(queue) /\ written' = Written(Sendable(queue), TRUE)

\* What pasting one line makes of written.
Pasted(l) == Written(<<l>>, FALSE)

Takes(l) ==
  /\ NotTyped(l) /\ typed' = Append(typed, l)
  /\ \/ queue' = Append(queue, l) /\ written' = written
     \/ queue' = queue /\ written' = Pasted(l)

\* A change of stage leaves the lines, drops the queue or flushes it.
LEMMA StageShape ==
  ASSUME NEW s, SetStage(s), typed' = typed
  PROVE  Leaves \/ Flushes
BY DEF SetStage, Flush, Leaves, Flushes

\* Only a killed Pi restores another queue than the one it had, and drops it otherwise.
LEMMA StepShape ==
  ASSUME TypeOK, CopyInv, [Next]_vars
  PROVE  \/ Leaves \/ Flushes \/ \E l \in Lines : Takes(l)
         \/ killed' /\ typed' = typed /\ written' = written
<1>1. CASE UNCHANGED vars \/ BrokerTakesSync \/ Launch \/ Spawned
  BY <1>1 DEF vars, BrokerTakesSync, Launch, Spawned, Leaves
<1>2. ASSUME NEW l \in Lines, Talk(l) \/ Send(l) \/ SendGo(l)
      PROVE  Takes(l)
  BY <1>2 DEF Talk, Send, SendGo, Input, Takes, Pasted
<1>3. CASE FlushQueuedInputs
  BY <1>3 DEF FlushQueuedInputs, Flush, Flushes
<1>4. CASE NextStage \/ ExecSettles \/ StopBegins \/ StopEnds
  <2>1. \E s \in Stages : SetStage(s)
    BY <1>4 DEF NextStage, ExecSettles, StopBegins, StopEnds, Stages, TerminalStages
  <2>2. typed' = typed
    BY <1>4 DEF NextStage, ExecSettles, StopBegins, StopEnds, Elsewhere
  <2>3. QED
    BY <2>1, <2>2, StageShape
<1>5. CASE Exits
  BY <1>5, StageShape DEF Exits, Elsewhere, Leaves
<1>6. CASE Reload
  <2>1. queue' = control.queue /\ syncs = <<>> /\ typed' = typed /\ written' = written
    BY <1>6 DEF Reload, Restored, Detaches
  <2>2. queue' = queue \/ queue' = <<>>
    BY <2>1 DEF CopyInv, Copy, NoCopy, NoControl
  <2>3. QED
    BY <2>1, <2>2 DEF Leaves
<1>7. CASE Killed
  BY <1>7 DEF Killed
<1>8. QED
  BY <1>1, <1>2, <1>3, <1>4, <1>5, <1>6, <1>7 DEF Next

-----------------------------------------------------------------------------
(* Order, step by step                                                     *)

\* What the steps that keep the order may rely on.
LineLists ==
  /\ typed \in Seq(Lines) /\ queue \in Seq(Lines) /\ written \in Seq(WrittenLine)
  /\ Len(typed) \in Nat /\ Len(queue) \in Nat /\ Len(written) \in Nat

\* Leaving the lines, or dropping the queue, keeps their order.
LEMMA LeavesKeepsOrder ==
  ASSUME LineLists, Ordered, HeldBack, Leaves
  PROVE  Ordered' /\ HeldBack'
<1>1. \A i \in 1..Len(queue') : i \in 1..Len(queue) /\ queue'[i] = queue[i]
  BY DEF Leaves
<1>2. \A l, m : Before(typed', l, m) <=> Before(typed, l, m)
  BY DEF Leaves, Before
<1>3. \A l : WasTyped(typed', l) <=> WasTyped(typed, l)
  BY DEF Leaves, WasTyped
<1>4. HeldBack' /\ WrittenOnce'
  BY DEF Leaves, HeldBack, Ordered, WrittenOnce
<1>5. AllWereTyped'
  BY <1>1, <1>3 DEF Leaves, Ordered, AllWereTyped
<1>6. QueueIsOrdered' /\ QueuedAreUnwritten' /\ SentInTurn' /\ WrittenInOrder'
  BY <1>1, <1>2 DEF Leaves, Ordered, QueueIsOrdered, QueuedAreUnwritten, SentInTurn, WrittenInOrder
<1>7. QED
  BY <1>4, <1>5, <1>6 DEF Ordered
\* Where a flushed line comes from, and what a flush leaves.
LEMMA FlushOrigins ==
  ASSUME TypeOK, LineLists, Flushes
  PROVE  /\ Len(written') \in Nat
         /\ \A i \in 1..Len(written) : i \in 1..Len(written') /\ written'[i] = written[i]
         /\ \A i \in 1..Len(written') : i \notin 1..Len(written) =>
              \E a \in 1..Len(queue) :
                /\ written'[i].line = queue[a] /\ written'[i].queued
                /\ queue[a] \notin Destructive
         /\ \A i, j \in 1..Len(written') :
              i < j /\ i \notin 1..Len(written) =>
                /\ j \notin 1..Len(written)
                /\ \E a, b \in 1..Len(queue) :
                     a < b /\ written'[i].line = queue[a] /\ written'[j].line = queue[b]
         /\ \A i \in 1..Len(queue') :
              \E a \in 1..Len(queue) : queue'[i] = queue[a] /\ queue[a] \in Destructive
         /\ \A i, j \in 1..Len(queue') : i < j =>
              \E a, b \in 1..Len(queue) : a < b /\ queue'[i] = queue[a] /\ queue'[j] = queue[b]
<1> DEFINE n == Len(written)
           s == Sendable(queue)
           h == Held(queue)
<1>1. PICK at \in [1..Len(s) -> 1..Len(queue)] :
        \A k, l \in 1..Len(s) :
          /\ s[k] = queue[at[k]] /\ s[k] \notin Destructive
          /\ k < l => at[k] < at[l]
  BY FlushSplits DEF LineLists
<1>2. PICK of \in [1..Len(h) -> 1..Len(queue)] :
        \A k, l \in 1..Len(h) :
          /\ h[k] = queue[of[k]] /\ h[k] \in Destructive
          /\ k < l => of[k] < of[l]
  BY FlushSplits DEF LineLists
<1>3. s \in Seq(Lines) /\ Len(s) \in Nat /\ n \in Nat
  BY FlushSplits DEF LineLists
<1> HIDE DEF s, h
<1>4. /\ written' \in Seq(WrittenLine) /\ Len(written') = n + Len(s)
      /\ \A i \in 1..n : written'[i] = written[i]
      /\ \A i \in 1..Len(written') : i \notin 1..n =>
           i - n \in 1..Len(s) /\ written'[i].line = s[i - n] /\ written'[i].queued
  BY <1>3, WrittenFits DEF Flushes, s
<1>5. \A i \in 1..n : i \in 1..Len(written') /\ written'[i] = written[i]
  BY <1>3, <1>4
<1>6. ASSUME NEW i \in 1..Len(written'), i \notin 1..n
      PROVE  /\ i - n \in 1..Len(s) /\ at[i - n] \in 1..Len(queue)
             /\ written'[i].line = queue[at[i - n]] /\ written'[i].queued
             /\ queue[at[i - n]] \notin Destructive
  BY <1>1, <1>4, <1>6
<1>7. ASSUME NEW i \in 1..Len(written'), NEW j \in 1..Len(written'), i < j, i \notin 1..n
      PROVE  j \notin 1..n /\ at[i - n] < at[j - n]
  <2>1. j \notin 1..n
    BY <1>3, <1>7
  <2>2. i - n \in 1..Len(s) /\ j - n \in 1..Len(s) /\ i - n < j - n
    BY <1>3, <1>6, <1>7, <2>1
  <2>3. QED
    BY <1>1, <2>1, <2>2
<1>8. queue' = h
  BY DEF Flushes, h
<1>9. \A i \in 1..Len(queue') :
        \E a \in 1..Len(queue) : queue'[i] = queue[a] /\ queue[a] \in Destructive
  BY <1>2, <1>8
<1>10. \A i, j \in 1..Len(queue') : i < j =>
         \E a, b \in 1..Len(queue) : a < b /\ queue'[i] = queue[a] /\ queue'[j] = queue[b]
  BY <1>2, <1>8
<1>11. \A i \in 1..Len(written') : i \notin 1..n =>
         \E a \in 1..Len(queue) :
           written'[i].line = queue[a] /\ written'[i].queued /\ queue[a] \notin Destructive
  BY <1>6
<1>12. \A i, j \in 1..Len(written') : i < j /\ i \notin 1..n =>
         /\ j \notin 1..n
         /\ \E a, b \in 1..Len(queue) :
              a < b /\ written'[i].line = queue[a] /\ written'[j].line = queue[b]
  BY <1>6, <1>7
<1>13. Len(written') \in Nat
  BY <1>3, <1>4
<1>14. QED
  BY <1>5, <1>9, <1>10, <1>11, <1>12, <1>13

\* A flush sends no destructive line, whatever happened before.
LEMMA FlushHoldsBack ==
  ASSUME TypeOK, LineLists, HeldBack, Flushes
  PROVE  HeldBack'
<1>1. ASSUME NEW i \in 1..Len(written'), written'[i].queued
      PROVE  written'[i].line \notin Destructive
  <2>1. CASE i \in 1..Len(written)
    BY <1>1, <2>1, FlushOrigins DEF HeldBack
  <2>2. CASE i \notin 1..Len(written)
    BY <2>2, FlushOrigins
  <2>3. QED
    BY <2>1, <2>2
<1>2. QED
  BY <1>1 DEF HeldBack

\* A flush sends the lines of the queue once and in their order, after those sent before.
LEMMA FlushKeepsOrder ==
  ASSUME TypeOK, LineLists, Ordered, Flushes
  PROVE  Ordered'
<1>1. \A l, m : Before(typed', l, m) <=> Before(typed, l, m)
  BY DEF Flushes, Before
<1>2. \A l : WasTyped(typed', l) <=> WasTyped(typed, l)
  BY DEF Flushes, WasTyped
<1> USE DEF Ordered
<1>3. AllWereTyped'
  <2>1. \A i \in 1..Len(queue') : WasTyped(typed, queue'[i])
    BY FlushOrigins DEF AllWereTyped
  <2>2. \A i \in 1..Len(written') : WasTyped(typed, written'[i].line)
    BY FlushOrigins DEF AllWereTyped
  <2>3. QED
    BY <1>2, <2>1, <2>2 DEF AllWereTyped
<1>4. QueueIsOrdered'
  BY <1>1, FlushOrigins DEF QueueIsOrdered
<1>5. ASSUME NEW i \in 1..Len(written'), NEW j \in 1..Len(queue')
      PROVE  written'[i].line # queue'[j]
  <2>1. PICK b \in 1..Len(queue) : queue'[j] = queue[b] /\ queue[b] \in Destructive
    BY FlushOrigins
  <2>2. CASE i \in 1..Len(written)
    BY <2>1, <2>2, FlushOrigins DEF QueuedAreUnwritten
  <2>3. CASE i \notin 1..Len(written)
    <3>1. PICK a \in 1..Len(queue) : written'[i].line = queue[a] /\ queue[a] \notin Destructive
      BY <2>3, FlushOrigins
    <3>2. QED
      BY <2>1, <3>1
  <2>4. QED
    BY <2>2, <2>3
<1>6. \A j \in 1..Len(queue') : queue'[j] \in Destructive
  BY FlushOrigins
<1>7. ASSUME NEW i \in 1..Len(written'), NEW j \in 1..Len(written'), i < j
      PROVE  /\ written'[i].line # written'[j].line
             /\ written'[i].queued /\ written'[j].queued => Before(typed, written'[i].line, written'[j].line)
  <2>1. CASE i \notin 1..Len(written)
    BY <1>7, <2>1, FlushOrigins DEF QueueIsOrdered
  <2>2. CASE i \in 1..Len(written) /\ j \notin 1..Len(written)
    <3>1. PICK a \in 1..Len(queue) : written'[j].line = queue[a] /\ queue[a] \notin Destructive
      BY <2>2, FlushOrigins
    <3>2. written'[i] = written[i]
      BY <2>2, FlushOrigins
    <3>3. QED
      BY <2>2, <3>1, <3>2 DEF QueuedAreUnwritten, SentInTurn
  <2>3. CASE i \in 1..Len(written) /\ j \in 1..Len(written)
    <3>1. written'[i] = written[i] /\ written'[j] = written[j] /\ i # j
      BY <1>7, <2>3, FlushOrigins
    <3>2. QED
      BY <1>7, <2>3, <3>1 DEF WrittenOnce, WrittenInOrder
  <2>4. QED
    BY <2>1, <2>2, <2>3
<1>8. WrittenOnce'
  <2>1. ASSUME NEW i \in 1..Len(written'), NEW j \in 1..Len(written'), i # j
        PROVE  written'[i].line # written'[j].line
    <3>1. i < j \/ j < i
      BY <2>1, FlushOrigins
    <3>2. QED
      BY <1>7, <3>1
  <2>2. QED
    BY <2>1 DEF WrittenOnce
<1>9. WrittenInOrder'
  BY <1>1, <1>7 DEF WrittenInOrder
<1>10. QueuedAreUnwritten' /\ SentInTurn'
  BY <1>5, <1>6 DEF QueuedAreUnwritten, SentInTurn
<1>11. QED
  BY <1>3, <1>4, <1>8, <1>9, <1>10
\* A new line comes after every line typed before.
LEMMA NewLineIsLast ==
  ASSUME LineLists, NEW l \in Lines, NotTyped(l), typed' = Append(typed, l)
  PROVE  /\ \A x, y : Before(typed, x, y) => Before(typed', x, y)
         /\ WasTyped(typed', l)
         /\ \A x : WasTyped(typed, x) => x # l /\ WasTyped(typed', x) /\ Before(typed', x, l)
<1>1. /\ Len(typed) \in Nat /\ Len(typed') = Len(typed) + 1
      /\ \A a \in 1..Len(typed) : typed'[a] = typed[a]
      /\ typed'[Len(typed) + 1] = l
  BY AppendHolds DEF LineLists
<1>2. 1..Len(typed) \subseteq 1..Len(typed') /\ Len(typed) + 1 \in 1..Len(typed')
  BY <1>1
<1>3. ASSUME NEW x, NEW y, Before(typed, x, y) PROVE Before(typed', x, y)
  BY <1>1, <1>2, <1>3 DEF Before
<1>4. WasTyped(typed', l)
  BY <1>1, <1>2 DEF WasTyped
<1>5. ASSUME NEW x, WasTyped(typed, x) PROVE x # l /\ WasTyped(typed', x) /\ Before(typed', x, l)
  <2>1. PICK a \in 1..Len(typed) : typed[a] = x
    BY <1>5 DEF WasTyped
  <2>2. x # l
    BY <2>1 DEF NotTyped, LineLists
  <2>3. typed'[a] = x /\ a \in 1..Len(typed') /\ a < Len(typed) + 1
    BY <1>1, <1>2, <2>1
  <2>4. QED
    BY <1>1, <1>2, <2>2, <2>3 DEF WasTyped, Before
<1>6. QED
  BY <1>3, <1>4, <1>5

\* A new line goes behind the queue.
LEMMA QueueingKeepsOrder ==
  ASSUME LineLists, Ordered, NEW l \in Lines, Takes(l), queue' = Append(queue, l), written' = written
  PROVE  Ordered'
<1>1. /\ Len(queue) \in Nat /\ Len(queue') = Len(queue) + 1
      /\ \A j \in 1..Len(queue) : queue'[j] = queue[j]
      /\ queue'[Len(queue) + 1] = l
      /\ \A j \in 1..Len(queue') : j \in 1..Len(queue) \/ j = Len(queue) + 1
  BY AppendHolds DEF LineLists
<1>2. /\ \A x, y : Before(typed, x, y) => Before(typed', x, y)
      /\ WasTyped(typed', l)
      /\ \A x : WasTyped(typed, x) => x # l /\ WasTyped(typed', x) /\ Before(typed', x, l)
  BY NewLineIsLast DEF Takes
<1>3. /\ \A j \in 1..Len(queue) : WasTyped(typed, queue[j])
      /\ \A i \in 1..Len(written) : WasTyped(typed, written[i].line)
  BY DEF Ordered, AllWereTyped
<1>4. AllWereTyped'
  BY <1>1, <1>2, <1>3 DEF AllWereTyped
<1>5. ASSUME NEW i \in 1..Len(queue'), NEW j \in 1..Len(queue'), i < j
      PROVE  Before(typed', queue'[i], queue'[j]) /\ queue'[i] # queue'[j]
  <2>1. i \in 1..Len(queue) /\ queue'[i] = queue[i]
    BY <1>1, <1>5
  <2>2. CASE j \in 1..Len(queue)
    <3>1. Before(typed, queue[i], queue[j]) /\ queue[i] # queue[j] /\ queue'[j] = queue[j]
      BY <1>1, <1>5, <2>1, <2>2 DEF Ordered, QueueIsOrdered
    <3>2. QED
      BY <1>2, <2>1, <3>1
  <2>3. CASE j = Len(queue) + 1
    BY <1>1, <1>2, <1>3, <2>1, <2>3
  <2>4. QED
    BY <1>1, <2>2, <2>3
<1>6. QueueIsOrdered'
  BY <1>5 DEF QueueIsOrdered
<1>7. ASSUME NEW i \in 1..Len(written), NEW j \in 1..Len(queue')
      PROVE  /\ written[i].line # queue'[j]
             /\ written[i].queued /\ queue'[j] \notin Destructive => Before(typed', written[i].line, queue'[j])
  <2>1. CASE j \in 1..Len(queue)
    <3>1. queue'[j] = queue[j]
      BY <1>1, <2>1
    <3>2. written[i].line # queue[j]
      BY <2>1 DEF Ordered, QueuedAreUnwritten
    <3>3. written[i].queued /\ queue[j] \notin Destructive => Before(typed, written[i].line, queue[j])
      BY <2>1 DEF Ordered, SentInTurn
    <3>4. QED
      BY <1>2, <3>1, <3>2, <3>3
  <2>2. CASE j = Len(queue) + 1
    BY <1>1, <1>2, <1>3, <2>2
  <2>3. QED
    BY <1>1, <2>1, <2>2
<1>8. QueuedAreUnwritten' /\ SentInTurn'
  BY <1>7 DEF QueuedAreUnwritten, SentInTurn
<1>9. WrittenOnce'
  BY DEF Ordered, WrittenOnce
<1>10. WrittenInOrder'
  BY <1>2 DEF Ordered, WrittenInOrder
<1>11. QED
  BY <1>4, <1>6, <1>8, <1>9, <1>10 DEF Ordered

\* A line that is pasted at once becomes the last record, or none without a live run.
LEMMA PastingAppends ==
  ASSUME TypeOK, NEW l \in Lines, written' = Pasted(l)
  PROVE  \A i \in 1..Len(written') :
           \/ i \in 1..Len(written) /\ written'[i] = written[i]
           \/ i = Len(written) + 1 /\ written'[i].line = l /\ written'[i].queued = FALSE
<1> DEFINE record == [line |-> l, to |-> run, queued |-> FALSE]
<1>1. written \in Seq(WrittenLine) /\ run \in 0..MaxRuns
  BY DEF TypeOK, WrittenLine
<1>2. CASE run = 0
  BY <1>2 DEF Pasted, Written
<1>3. CASE run # 0
  <2>1. record \in WrittenLine /\ record.line = l /\ record.queued = FALSE
    BY <1>1, <1>3, BoundsAssumption DEF WrittenLine
  <2>2. [i \in DOMAIN <<l>> |-> [line |-> <<l>>[i], to |-> run, queued |-> FALSE]] = <<record>>
    <3>1. DOMAIN <<l>> = 1..1 /\ <<l>>[1] = l
      OBVIOUS
    <3>2. \A i \in 1..1 : i = 1
      OBVIOUS
    <3>3. [i \in DOMAIN <<l>> |-> [line |-> <<l>>[i], to |-> run, queued |-> FALSE]]
          = [i \in 1..1 |-> record]
      BY <3>1, <3>2, Zenon
    <3> HIDE DEF record
    <3>4. <<record>> = [i \in 1..1 |-> record]
      OBVIOUS
    <3>5. QED
      BY <3>3, <3>4, Zenon
  <2>3. written' = written \o <<record>>
    BY <1>3, <2>2 DEF Pasted, Written
  <2> HIDE DEF record
  <2>4. Append(written, record) = written \o <<record>>
    BY <1>1, <2>1
  <2>5. written' = Append(written, record)
    BY <2>3, <2>4
  <2>6. /\ Len(written') = Len(written) + 1
        /\ \A k \in 1..Len(written) : written'[k] = written[k]
        /\ written'[Len(written) + 1] = record
        /\ \A i \in 1..Len(written') : i \in 1..Len(written) \/ i = Len(written) + 1
    BY <1>1, <2>1, <2>5, AppendHolds
  <2>7. QED
    BY <2>1, <2>6, Zenon
<1>4. QED
  BY <1>2, <1>3

\* A pasted line was not held back.
LEMMA PastingHoldsBack ==
  ASSUME TypeOK, HeldBack, NEW l \in Lines, written' = Pasted(l)
  PROVE  HeldBack'
BY PastingAppends DEF HeldBack

\* A new line that is pasted at once is the last that was written, if anything executes.
LEMMA PastingKeepsOrder ==
  ASSUME TypeOK, LineLists, Ordered, NEW l \in Lines, Takes(l), queue' = queue,
         written' = Pasted(l)
  PROVE  Ordered'
<1>1. /\ \A x, y : Before(typed, x, y) => Before(typed', x, y)
      /\ WasTyped(typed', l)
      /\ \A x : WasTyped(typed, x) => x # l /\ WasTyped(typed', x) /\ Before(typed', x, l)
  BY NewLineIsLast DEF Takes
<1>2. /\ \A j \in 1..Len(queue) : WasTyped(typed, queue[j])
      /\ \A i \in 1..Len(written) : WasTyped(typed, written[i].line)
  BY DEF Ordered, AllWereTyped
<1>3. \A i \in 1..Len(written') :
        \/ i \in 1..Len(written) /\ written'[i] = written[i]
        \/ i = Len(written) + 1 /\ written'[i].line = l /\ written'[i].queued = FALSE
  BY PastingAppends
<1>4. AllWereTyped'
  BY <1>1, <1>2, <1>3 DEF AllWereTyped
<1>5. QueueIsOrdered'
  BY <1>1 DEF Ordered, QueueIsOrdered
<1>6. ASSUME NEW i \in 1..Len(written'), NEW j \in 1..Len(queue)
      PROVE  written'[i].line # queue[j]
  <2>1. CASE i \in 1..Len(written) /\ written'[i] = written[i]
    BY <2>1 DEF Ordered, QueuedAreUnwritten
  <2>2. CASE written'[i].line = l
    BY <1>1, <1>2, <2>2
  <2>3. QED
    BY <1>3, <2>1, <2>2
<1>7. QueuedAreUnwritten'
  BY <1>6 DEF QueuedAreUnwritten
<1>8. SentInTurn'
  BY <1>1, <1>3 DEF Ordered, SentInTurn
<1>9. ASSUME NEW i \in 1..Len(written'), NEW j \in 1..Len(written'),
              written'[i].line = written'[j].line
       PROVE  i = j
  <2>1. CASE i \in 1..Len(written) /\ j \in 1..Len(written)
    <3>1. i # Len(written) + 1 /\ j # Len(written) + 1
      BY <2>1 DEF LineLists
    <3>2. written'[i] = written[i] /\ written'[j] = written[j]
      BY <1>3, <3>1
    <3>3. QED
      BY <1>9, <2>1, <3>2 DEF Ordered, WrittenOnce
  <2>2. CASE i \in 1..Len(written) /\ j \notin 1..Len(written)
    <3>1. written'[i] = written[i] /\ written'[j].line = l
      BY <1>3, <2>2 DEF LineLists
    <3>2. QED
      BY <1>1, <1>2, <1>9, <2>2, <3>1
  <2>3. CASE i \notin 1..Len(written) /\ j \in 1..Len(written)
    <3>1. written'[j] = written[j] /\ written'[i].line = l
      BY <1>3, <2>3 DEF LineLists
    <3>2. QED
      BY <1>1, <1>2, <1>9, <2>3, <3>1
  <2>4. CASE i \notin 1..Len(written) /\ j \notin 1..Len(written)
    BY <1>3, <2>4
  <2>5. QED
    BY <2>1, <2>2, <2>3, <2>4
<1>10. WrittenOnce'
  BY <1>9 DEF WrittenOnce
<1>11. WrittenInOrder'
  BY <1>1, <1>3 DEF Ordered, WrittenInOrder
<1>12. QED
  BY <1>4, <1>5, <1>7, <1>8, <1>10, <1>11 DEF Ordered
-----------------------------------------------------------------------------
(* The theorems                                                            *)

\* The invariant holds at first.
LEMMA QueueInit == Init => QueueInv
<1> SUFFICES ASSUME Init PROVE QueueInv
  OBVIOUS
<1>1. TypeOK
  <2>1. \A S : <<>> \in Seq(S) /\ Len(<<>>) = 0
    BY EmptySeq
  <2>2. NoControl \in Control /\ "idle" \in Stages
    BY <2>1 DEF NoControl, Control, Stages
  <2>3. /\ stage = "idle" /\ run = 0 /\ runs = 0 /\ call = "none" /\ queue = <<>>
        /\ connected = FALSE /\ syncs = <<>> /\ control = NoControl /\ typed = <<>>
        /\ written = <<>> /\ killed = FALSE
    BY DEF Init
  <2>4. 0 \in 0..MaxRuns /\ 0 <= MaxSyncs
    BY BoundsAssumption
  <2>5. FALSE \in BOOLEAN
    OBVIOUS
  <2>6. QED
    BY <2>1, <2>2, <2>3, <2>4, <2>5, Zenon DEF TypeOK, Calls
<1>2. CopyInv
  BY DEF Init, CopyInv, NoCopy
<1>3. queue = <<>> /\ written = <<>>
  BY DEF Init
<1>4. HeldBack /\ Ordered
  BY <1>3 DEF HeldBack, Ordered, AllWereTyped, QueueIsOrdered, QueuedAreUnwritten, SentInTurn,
              WrittenOnce, WrittenInOrder
<1>5. QED
  BY <1>1, <1>2, <1>4 DEF QueueInv

\* Every step keeps it.
LEMMA QueueStep ==
  ASSUME QueueInv, [Next]_vars
  PROVE  QueueInv'
<1>1. TypeOK /\ CopyInv /\ HeldBack /\ (~killed => Ordered)
  BY DEF QueueInv
<1>2. TypeOK' /\ CopyInv'
  BY <1>1, CopyStep
<1>3. LineLists
  BY <1>1, LenProperties DEF TypeOK, LineLists, WrittenLine
<1>4. killed => killed'
  BY DEF vars, Next, Talk, Send, SendGo, FlushQueuedInputs, BrokerTakesSync, Launch, Spawned, NextStage,
         ExecSettles, StopBegins, StopEnds, Exits, Elsewhere, Reload, Killed
<1>5. HeldBack' /\ (Ordered => Ordered' \/ killed')
  <2>1. CASE Leaves
    <3>1. HeldBack'
      BY <1>1, <2>1 DEF HeldBack, Leaves
    <3>2. QED
      BY <1>1, <1>3, <2>1, <3>1, LeavesKeepsOrder
  <2>2. CASE Flushes
    BY <1>1, <1>3, <2>2, FlushHoldsBack, FlushKeepsOrder
  <2>3. ASSUME NEW l \in Lines, Takes(l)
        PROVE  HeldBack' /\ (Ordered => Ordered')
    <3>1. CASE queue' = Append(queue, l) /\ written' = written
      <4>1. HeldBack'
        BY <1>1, <3>1 DEF HeldBack
      <4>2. QED
        BY <1>3, <2>3, <3>1, <4>1, QueueingKeepsOrder
    <3>2. CASE queue' = queue /\ written' = Pasted(l)
      BY <1>1, <1>3, <2>3, <3>2, PastingHoldsBack, PastingKeepsOrder
    <3>3. QED
      BY <2>3, <3>1, <3>2 DEF Takes
  <2>4. CASE killed' /\ typed' = typed /\ written' = written
    BY <1>1, <2>4 DEF HeldBack
  <2>5. QED
    BY <1>1, <2>1, <2>2, <2>3, <2>4, StepShape
<1>6. QED
  BY <1>1, <1>2, <1>4, <1>5 DEF QueueInv

\* Every variable of the input queue keeps its type, for any lines and any number of runs.
THEOREM QueueTypes == Spec => []TypeOK
<1>1. QueueInv => TypeOK
  BY DEF QueueInv
<1>2. QED
  BY <1>1, QueueInit, QueueStep, PTL DEF Spec
\* No line reaches a PTY twice while Pi is not killed, whatever flushes, exits and reloads come
\* between, for any lines and any number of runs.
THEOREM LinesOnceTheorem == Spec => []LinesOnce
<1>1. ASSUME QueueInv PROVE LinesOnce
  <2>1. DOMAIN written = 1..Len(written)
    BY <1>1 DEF QueueInv, TypeOK
  <2>2. QED
    BY <1>1, <2>1 DEF QueueInv, Ordered, WrittenOnce, LinesOnce
<1>2. QED
  BY <1>1, QueueInit, QueueStep, PTL DEF Spec

\* The lines that were queued reach a PTY in the order they were typed while Pi is not killed, for
\* any lines and any number of runs.
THEOREM QueuedInOrderTheorem == Spec => []QueuedInOrder
<1>1. ASSUME QueueInv PROVE QueuedInOrder
  <2>1. DOMAIN written = 1..Len(written) /\ DOMAIN typed = 1..Len(typed)
    BY <1>1 DEF QueueInv, TypeOK
  <2>2. QED
    BY <1>1, <2>1 DEF QueueInv, Ordered, WrittenInOrder, Before, QueuedInOrder
<1>2. QED
  BY <1>1, QueueInit, QueueStep, PTL DEF Spec

\* A reload finds the queue it left in the broker, unless the broker holds no control state of
\* the session yet.
THEOREM ReloadTheorem == Spec => ReloadKeepsLines
<1>1. ASSUME QueueInv, Reload PROVE queue' = queue \/ control = NoControl
  BY <1>1 DEF QueueInv, CopyInv, Copy, NoCopy, Reload, Detaches, Restored
<1>2. QueueInv /\ [Next]_vars => [Reload => queue' = queue \/ control = NoControl]_vars
  BY <1>1
<1>3. QED
  BY <1>2, QueueInit, QueueStep, PTL DEF Spec, ReloadKeepsLines

\* A flush keeps every destructive line that was queued.
LEMMA HeldIsComplete ==
  ASSUME NEW lines \in Seq(Lines), NEW i \in 1..Len(lines), lines[i] \in Destructive
  PROVE  \E j \in 1..Len(Held(lines)) : Held(lines)[j] = lines[i]
<1> DEFINE Stay == {j \in DOMAIN lines : lines[j] \in Destructive}
<1>1. Stay \in SUBSET (1..Len(lines)) /\ i \in Stay
  OBVIOUS
<1>2. Held(lines) = Subsequence(lines, Stay)
  BY DEF Held
<1> HIDE DEF Stay
<1>3. Len(Subsequence(lines, Stay)) = Cardinality(Stay)
  BY <1>1, SubsequenceIsFilter
<1>4. PICK at \in [1..Cardinality(Stay) -> Stay] :
        /\ \A k \in 1..Cardinality(Stay) : Subsequence(lines, Stay)[k] = lines[at[k]]
        /\ \A j \in Stay : \E k \in 1..Cardinality(Stay) : at[k] = j
  BY <1>1, SubsequenceIsFilter
<1>5. QED
  BY <1>1, <1>2, <1>3, <1>4

\* What a step makes of the queue: it keeps it, appends to it or flushes it, unless the session
\* has an outcome or the window is another.
LEMMA QueueShape ==
  ASSUME [Next]_vars
  PROVE  \/ queue' = queue \/ queue' = Held(queue) \/ \E l \in Lines : queue' = Append(queue, l)
         \/ stage' \in TerminalStages \/ Reload \/ Killed
<1>1. CASE UNCHANGED vars \/ BrokerTakesSync \/ Launch \/ Spawned
  BY <1>1 DEF vars, BrokerTakesSync, Launch, Spawned
<1>2. ASSUME NEW l \in Lines, Talk(l) \/ Send(l) \/ SendGo(l)
      PROVE  queue' = queue \/ queue' = Append(queue, l)
  BY <1>2 DEF Talk, Send, SendGo, Input
<1>3. CASE FlushQueuedInputs
  BY <1>3 DEF FlushQueuedInputs, Flush
<1>4. ASSUME NEW s, SetStage(s)
      PROVE  queue' = queue \/ queue' = Held(queue) \/ stage' \in TerminalStages
  BY <1>4 DEF SetStage, Flush
<1>5. CASE NextStage \/ ExecSettles \/ StopBegins \/ StopEnds \/ Exits
  <2>1. (\E s \in Stages : SetStage(s)) \/ queue' = queue
    BY <1>5 DEF NextStage, ExecSettles, StopBegins, StopEnds, Exits, Stages, TerminalStages
  <2>2. QED
    BY <1>4, <2>1
<1>6. QED
  BY <1>1, <1>2, <1>3, <1>5 DEF Next

\* A destructive line that is queued stays queued, and unsent, through every flush, for any lines
\* and any number of runs.
THEOREM HeldLinesStayTheorem == Spec => HeldLinesStay
<1> DEFINE Stays ==
      /\ \A i \in DOMAIN queue : queue[i] \in Destructive =>
           \/ \E j \in DOMAIN queue' : queue'[j] = queue[i]
           \/ stage' \in TerminalStages \/ Reload \/ Killed
      /\ \A i \in DOMAIN written' :
           written'[i].queued /\ written'[i].line \in Destructive => i \in DOMAIN written
<1>1. ASSUME QueueInv, [Next]_vars PROVE Stays
  <2>1. QueueInv'
    BY <1>1, QueueStep
  <2>2. /\ queue \in Seq(Lines) /\ DOMAIN queue = 1..Len(queue) /\ Len(queue) \in Nat
        /\ queue' \in Seq(Lines) /\ DOMAIN queue' = 1..Len(queue')
        /\ DOMAIN written' = 1..Len(written')
    BY <1>1, <2>1 DEF QueueInv, TypeOK
  <2>3. \A i \in DOMAIN written' : written'[i].queued => written'[i].line \notin Destructive
    BY <2>1, <2>2 DEF QueueInv, HeldBack
  <2>4. ASSUME NEW i \in DOMAIN queue, queue[i] \in Destructive,
               ~(stage' \in TerminalStages \/ Reload \/ Killed)
        PROVE  \E j \in DOMAIN queue' : queue'[j] = queue[i]
    <3>1. CASE queue' = queue
      BY <3>1
    <3>2. CASE queue' = Held(queue)
      BY <2>2, <2>4, <3>2, HeldIsComplete
    <3>3. ASSUME NEW l \in Lines, queue' = Append(queue, l)
          PROVE  i \in DOMAIN queue' /\ queue'[i] = queue[i]
      BY <2>2, <3>3
    <3>4. QED
      BY <1>1, <2>4, <3>1, <3>2, <3>3, QueueShape
  <2>5. QED
    BY <2>3, <2>4
<1>2. QueueInv /\ [Next]_vars => [Stays]_vars
  BY <1>1
<1>3. QED
  BY <1>2, QueueInit, QueueStep, PTL DEF Spec, HeldLinesStay
=============================================================================
