------------------------- MODULE QueueContinuation -------------------------
(***************************************************************************)
(* The pure policy of lib/takt-queue-continuation.ts: given what is known  *)
(* of a finished `takt run`, decide whether the bridge chains another one. *)
(***************************************************************************)
EXTENDS Naturals

\* TaktExitResult as far as a decision tells exits apart: no exit known, exit
\* code 0, any other code.
ExitCodes == {"none", "ok", "fail"}

\* The bridge's memory of one queue session of a project: queueRunActive,
\* queueContinuationArmed, queueContinuationInFlight, queueContinuationCount.
QueueSession(Counts) ==
  [active: BOOLEAN, armed: BOOLEAN, inFlight: BOOLEAN, count: Counts]

\* What clearQueueContinuation leaves, and what a new ManagedProject starts with.
ClearedQueue == [active |-> FALSE, armed |-> FALSE, inFlight |-> FALSE, count |-> 0]

\* MUTANT: one follow-up run more than the cap.
BudgetLeftAtCap(count, cap) == cap > 0 /\ count <= cap

\* The last two guards of decideQueueContinuation.
BudgetLeft(count, cap) == cap > 0 /\ count < cap

\* decideQueueContinuation: the first guard that fails names the reason.
DecideQueueContinuation(queue, running, exit, stage, pending, cap) ==
  IF ~queue.active          THEN "not-a-queue-run"
  ELSE IF queue.inFlight    THEN "continuation-in-flight"
  ELSE IF running           THEN "runner-still-running"
  ELSE IF exit # "ok"       THEN "previous-run-did-not-succeed"
  ELSE IF stage # "completed" THEN "stage-not-completed"
  ELSE IF pending = 0       THEN "no-pending-tasks"
  ELSE IF ~BudgetLeft(queue.count, cap) THEN "continuation-limit-reached"
  ELSE "pending-tasks-remain"

\* The reasons after which the bridge drops queueRunActive.
EndingReasons ==
  { "previous-run-did-not-succeed", "stage-not-completed",
    "no-pending-tasks", "continuation-limit-reached" }

\* MUTANT: a failed run only disarms the continuation.
AfterDecisionFailedKeeps(queue, reason) ==
  CASE reason = "pending-tasks-remain" -> [queue EXCEPT !.armed = TRUE]
    [] reason = "no-pending-tasks"     -> ClearedQueue
    [] reason \in EndingReasons \ {"no-pending-tasks"} -> [queue EXCEPT !.armed = FALSE]
    [] OTHER -> queue

\* armQueueContinuation's switch: the queue session after a decision. Draining
\* forgets the budget as well; the other ends keep the spent count.
AfterDecision(queue, reason) ==
  CASE reason = "pending-tasks-remain" -> [queue EXCEPT !.armed = TRUE]
    [] reason = "no-pending-tasks"     -> ClearedQueue
    [] reason \in EndingReasons \ {"no-pending-tasks"} ->
         [queue EXCEPT !.active = FALSE, !.armed = FALSE]
    [] OTHER -> queue
=============================================================================
