------------------------------ MODULE RunPolicy ------------------------------
(***************************************************************************)
(* The control loop of one agent: Agent.RunWithPolicyOptions and the       *)
(* runPolicyState it drives (run_policy.go), with the completion gate of   *)
(* full-send runs (completion_gate.go).  Only the control state is here:   *)
(* counters, retry budgets, the command budget and the one-shot context    *)
(* length backstop.  AgentRun adds the transcript to every action.         *)
(*                                                                         *)
(* One run executes in one goroutine, so a step is the code between two    *)
(* calls that leave the program: the model, the executor, the compactor    *)
(* and the human behind the policy.  Cancel is the context, which another  *)
(* goroutine may cancel between any two of them.                           *)
(***************************************************************************)
EXTENDS Integers

CONSTANTS
  MaxSteps,     \* Agent.MaxSteps: commands a run may execute, 0 for no limit
  MaxBatch,     \* bound: commands in one act turn
  MaxReplies    \* bound: human answers that let one run go on

ASSUME MaxStepsAssumption   == MaxSteps \in Nat
ASSUME MaxBatchAssumption   == MaxBatch \in Nat
ASSUME MaxRepliesAssumption == MaxReplies \in Nat

VARIABLES
  pc,                \* where the run goroutine is
  mode,              \* the policy: FullSendPolicy or the approval driver
  cancelled,         \* ctx.Err() # nil
  attempt,           \* "retry" after the backstop compacted for this query
  commandsUsed, modelTurns, protocolErrors, completionRejects,
  challengesUsed,    \* completionGate.challengesUsed
  guidancePressure,  \* last budget pressure that guidance was given for
  backstop,          \* contextLengthBackstop # nil
  batch, skipped,    \* limitActTurn: commands kept and commands cut off
  executed,          \* commands of the current batch already run
  replies,           \* human answers of this run
  outcome            \* how the last run ended

budgetVars == <<commandsUsed, completionRejects, challengesUsed>>
batchVars  == <<batch, skipped, executed>>
policyVars == <<pc, mode, cancelled, attempt, commandsUsed, modelTurns,
                protocolErrors, completionRejects, challengesUsed,
                guidancePressure, backstop, batch, skipped, executed, replies,
                outcome>>

Modes     == {"full_send", "approval"}
Pressures == {"normal", "low", "critical"}
Locations == {"idle", "loop", "query", "compact", "clarify", "decide",
              "execute", "finish", "final", "finalCompact"}

(***************************************************************************)
(* A done turn, reduced to what the gate reads: the summary admits to      *)
(* unfinished work; its status is not_verified; a claim has no matching    *)
(* check; its checks are thin.                                             *)
(***************************************************************************)
DoneTurns == [incomplete: BOOLEAN, notVerified: BOOLEAN,
              unsupported: BOOLEAN, thinChecks: BOOLEAN]

-----------------------------------------------------------------------------
(* Command budget *)

AtLeastZero(n) == IF n > 0 THEN n ELSE 0

commandBudgetPressure(used) ==
  LET remaining == AtLeastZero(MaxSteps - used)
  IN  IF MaxSteps = 0 THEN "normal"
      ELSE IF remaining <= 1 THEN "critical"
      ELSE IF remaining <= (MaxSteps + 3) \div 4 THEN "low" ELSE "normal"

resourcePressureGuidanceDue(used) ==
  commandBudgetPressure(used) \notin {"normal", guidancePressure}

NoteGuidance(used) ==
  guidancePressure' = IF resourcePressureGuidanceDue(used)
                      THEN commandBudgetPressure(used) ELSE guidancePressure

\* Faulty variant: lets one command too many through.
limitActTurnOffByOne(n) ==
  IF MaxSteps > 0 /\ n > MaxSteps - commandsUsed + 1
  THEN MaxSteps - commandsUsed ELSE n

\* Faulty variant: cuts, or stretches, every batch to what is left.
limitActTurnAlways(n) ==
  IF MaxSteps > 0 THEN MaxSteps - commandsUsed ELSE n

limitActTurn(n) ==
  IF MaxSteps > 0 /\ n > MaxSteps - commandsUsed
  THEN MaxSteps - commandsUsed ELSE n

-----------------------------------------------------------------------------
(* Completion gate *)

completionRejectReasons(d) ==
  \/ d.incomplete
  \/ d.notVerified /\ (MaxSteps = 0 \/ commandsUsed < MaxSteps)

completionChallengeReasons(d) ==
  d.unsupported \/ (commandsUsed = 0 /\ d.thinChecks)

decide(d) ==
  IF mode # "full_send" THEN "accept"
  ELSE IF completionRejectReasons(d) THEN "reject"
  ELSE IF completionChallengeReasons(d) /\ challengesUsed = 0 THEN "challenge"
  ELSE "accept"

-----------------------------------------------------------------------------
(* Starting, cancelling and ending a run *)

Init ==
  /\ pc = "idle" /\ mode = "full_send" /\ cancelled = FALSE
  /\ attempt = "first" /\ commandsUsed = 0 /\ modelTurns = 0
  /\ protocolErrors = 0 /\ completionRejects = 0 /\ challengesUsed = 0
  /\ guidancePressure = "normal" /\ backstop = FALSE
  /\ batch = 0 /\ skipped = 0 /\ executed = 0 /\ replies = 0
  /\ outcome = "none"

\* RunWithPolicyOptions: a fresh runPolicyState and a fresh context.
StartRun(m) ==
  /\ pc = "idle"
  /\ pc' = "loop" /\ mode' = m /\ cancelled' = FALSE /\ attempt' = "first"
  /\ commandsUsed' = 0 /\ modelTurns' = 0 /\ protocolErrors' = 0
  /\ completionRejects' = 0 /\ challengesUsed' = 0
  /\ guidancePressure' = "normal" /\ backstop' = TRUE
  /\ batch' = 0 /\ skipped' = 0 /\ executed' = 0 /\ replies' = 0
  /\ outcome' = "none"

Cancel ==
  /\ pc # "idle" /\ ~cancelled
  /\ cancelled' = TRUE
  /\ UNCHANGED <<pc, mode, attempt, modelTurns, protocolErrors, budgetVars,
                 guidancePressure, backstop, batchVars, replies, outcome>>

EndRun(o) == pc' = "idle" /\ outcome' = o

Continue(where) == pc' = where /\ UNCHANGED outcome

-----------------------------------------------------------------------------
(* One iteration: runStepAttempt up to the call of the model *)

BeginAttempt(a) ==
  /\ attempt' = a
  /\ NoteGuidance(commandsUsed)
  /\ Continue("query")
  /\ UNCHANGED <<mode, cancelled, modelTurns, protocolErrors, budgetVars,
                 batchVars, replies>>

LoopCancelled ==
  /\ pc = "loop" /\ cancelled
  /\ EndRun("error")
  /\ UNCHANGED <<mode, cancelled, attempt, modelTurns, protocolErrors,
                 budgetVars, guidancePressure, backstop, batchVars, replies>>

Attempt ==
  /\ pc = "loop" /\ ~cancelled
  /\ BeginAttempt("first")
  /\ UNCHANGED backstop

(* The model answers, or fails to: every return counts a model turn *)

Answered(where) == pc = where /\ modelTurns' = modelTurns + 1

ValidTurn ==
  /\ Answered("query")
  /\ protocolErrors' = 0
  /\ UNCHANGED <<mode, cancelled, attempt, guidancePressure, backstop, replies>>

\* Step returns an error: transport, missing or uncanonical turn, or a context
\* length error when the backstop is spent or was used for this very attempt.
QueryFails ==
  /\ Answered("query")
  /\ EndRun("error")
  /\ UNCHANGED <<mode, cancelled, attempt, protocolErrors, budgetVars,
                 guidancePressure, backstop, batchVars, replies>>

\* ErrContextLengthExceeded with the backstop still armed: disarm it, compact.
QueryTooLong ==
  /\ Answered("query") /\ attempt = "first" /\ backstop
  /\ backstop' = FALSE
  /\ Continue("compact")
  /\ UNCHANGED <<mode, cancelled, attempt, protocolErrors, budgetVars,
                 guidancePressure, batchVars, replies>>

BackstopRetries ==
  /\ pc = "compact" /\ ~cancelled
  /\ BeginAttempt("retry")
  /\ UNCHANGED backstop

\* Compaction failed, or it succeeded and the context was cancelled meanwhile.
BackstopFails ==
  /\ pc = "compact"
  /\ EndRun("error")
  /\ UNCHANGED <<mode, cancelled, attempt, modelTurns, protocolErrors,
                 budgetVars, guidancePressure, backstop, batchVars, replies>>

HandleProtocolFailure ==
  /\ Answered("query")
  /\ protocolErrors' = protocolErrors + 1
  /\ IF protocolErrors + 1 >= 3 THEN EndRun("error") ELSE Continue("loop")
  /\ UNCHANGED <<mode, cancelled, attempt, budgetVars, guidancePressure,
                 backstop, batchVars, replies>>

-----------------------------------------------------------------------------
(* Done turns and the completion gate *)

DoneAccepted(d) ==
  /\ ValidTurn /\ decide(d) = "accept"
  /\ EndRun("done")
  /\ UNCHANGED <<budgetVars, batchVars>>

\* Faulty variant: the guidance is appended, the rejection is not counted.
DoneRejectedUncounted(d) ==
  /\ ValidTurn /\ decide(d) = "reject"
  /\ Continue("loop")
  /\ UNCHANGED <<budgetVars, batchVars>>

DoneRejected(d) ==
  /\ ValidTurn /\ decide(d) = "reject"
  /\ completionRejects' = completionRejects + 1
  /\ IF completionRejects + 1 >= 3 THEN EndRun("error") ELSE Continue("loop")
  /\ UNCHANGED <<commandsUsed, challengesUsed, batchVars>>

DoneChallenged(d) ==
  /\ ValidTurn /\ decide(d) = "challenge"
  /\ challengesUsed' = challengesUsed + 1
  /\ completionRejects' = 0
  /\ Continue("loop")
  /\ UNCHANGED <<commandsUsed, batchVars>>

-----------------------------------------------------------------------------
(* Clarify turns *)

\* FullSendPolicy.Clarify returns ErrClarificationNeeded.
ClarifyTurn ==
  /\ ValidTurn
  /\ IF mode = "full_send" THEN EndRun("error") ELSE Continue("clarify")
  /\ UNCHANGED <<budgetVars, batchVars>>

ClarifyAnswered ==
  /\ pc = "clarify" /\ replies < MaxReplies
  /\ replies' = replies + 1
  /\ completionRejects' = 0
  /\ Continue("loop")
  /\ UNCHANGED <<mode, cancelled, attempt, modelTurns, protocolErrors,
                 commandsUsed, challengesUsed, guidancePressure, backstop,
                 batchVars>>

\* Faulty variant: waits for a clarification without watching the context.
PolicyFailsInDecide ==
  /\ pc = "decide" /\ mode = "approval" /\ cancelled
  /\ EndRun("error")
  /\ UNCHANGED <<mode, cancelled, attempt, modelTurns, protocolErrors,
                 budgetVars, guidancePressure, backstop, batchVars, replies>>

\* The driver gives up waiting for the human only when the context is done.
PolicyFails ==
  /\ pc \in {"clarify", "decide"} /\ mode = "approval" /\ cancelled
  /\ EndRun("error")
  /\ UNCHANGED <<mode, cancelled, attempt, modelTurns, protocolErrors,
                 budgetVars, guidancePressure, backstop, batchVars, replies>>

-----------------------------------------------------------------------------
(* Act turns *)

ActTurn(n) ==
  /\ ValidTurn
  /\ batch' = limitActTurn(n) /\ skipped' = n - limitActTurn(n)
  /\ executed' = 0
  /\ Continue("decide")
  /\ UNCHANGED budgetVars

ActApproved ==
  /\ pc = "decide"
  /\ Continue("execute")
  /\ UNCHANGED <<mode, cancelled, attempt, modelTurns, protocolErrors,
                 budgetVars, guidancePressure, backstop, batchVars, replies>>

ActRejected ==
  /\ pc = "decide" /\ mode = "approval" /\ replies < MaxReplies
  /\ replies' = replies + 1
  /\ Continue("loop")
  /\ UNCHANGED <<mode, cancelled, attempt, modelTurns, protocolErrors,
                 budgetVars, guidancePressure, backstop, batchVars>>

\* Faulty variant: a batch is over only when its last command succeeds.
ExecuteCommandWaits(ok) ==
  /\ pc = "execute" /\ (cancelled => ~ok) /\ executed < batch
  /\ executed' = executed + 1
  /\ Continue(IF ok /\ executed + 1 = batch THEN "finish" ELSE "execute")
  /\ UNCHANGED <<mode, cancelled, attempt, modelTurns, protocolErrors,
                 budgetVars, guidancePressure, backstop, batch, skipped,
                 replies>>

\* A failed command ends the batch.  Once the context is cancelled a command
\* can no longer start, so it fails.
ExecuteCommand(ok) ==
  /\ pc = "execute" /\ (cancelled => ~ok)
  /\ executed' = executed + 1
  /\ Continue(IF ok /\ executed + 1 < batch THEN "execute" ELSE "finish")
  /\ UNCHANGED <<mode, cancelled, attempt, modelTurns, protocolErrors,
                 budgetVars, guidancePressure, backstop, batch, skipped,
                 replies>>

BudgetSpent == MaxSteps > 0 /\ commandsUsed + executed >= MaxSteps

\* ExecuteTurnWithSkipped returned: account for it, and ask for the final
\* summary when the budget is spent.
FinishAct ==
  /\ pc = "finish"
  /\ completionRejects' = 0
  /\ commandsUsed' = commandsUsed + executed
  /\ executed' = 0 /\ batch' = 0 /\ skipped' = 0
  /\ IF BudgetSpent
     THEN Continue("final") /\ attempt' = "first"
          /\ NoteGuidance(commandsUsed + executed)
     ELSE Continue("loop") /\ UNCHANGED <<attempt, guidancePressure>>
  /\ UNCHANGED <<mode, cancelled, modelTurns, protocolErrors, challengesUsed,
                 backstop, replies>>

-----------------------------------------------------------------------------
(* The final summary: requestStepLimitSummary and retryStepLimitSummary *)

FinalDone ==
  /\ Answered("final")
  /\ EndRun("done")
  /\ UNCHANGED <<mode, cancelled, attempt, protocolErrors, budgetVars,
                 guidancePressure, backstop, batchVars, replies>>

FinalFails ==
  /\ Answered("final")
  /\ EndRun("error")
  /\ UNCHANGED <<mode, cancelled, attempt, protocolErrors, budgetVars,
                 guidancePressure, backstop, batchVars, replies>>

FinalTooLong ==
  /\ Answered("final") /\ attempt = "first" /\ backstop
  /\ backstop' = FALSE
  /\ Continue("finalCompact")
  /\ UNCHANGED <<mode, cancelled, attempt, protocolErrors, budgetVars,
                 guidancePressure, batchVars, replies>>

\* No look at the context before this retry, unlike BackstopRetries.
FinalRetries ==
  /\ pc = "finalCompact"
  /\ attempt' = "retry"
  /\ Continue("final")
  /\ UNCHANGED <<mode, cancelled, modelTurns, protocolErrors, budgetVars,
                 guidancePressure, backstop, batchVars, replies>>

FinalCompactFails ==
  /\ pc = "finalCompact"
  /\ EndRun("error")
  /\ UNCHANGED <<mode, cancelled, attempt, modelTurns, protocolErrors,
                 budgetVars, guidancePressure, backstop, batchVars, replies>>

-----------------------------------------------------------------------------

ModelStep ==
  \/ QueryFails \/ QueryTooLong \/ HandleProtocolFailure \/ ClarifyTurn
  \/ \E d \in DoneTurns : DoneAccepted(d) \/ DoneRejected(d) \/ DoneChallenged(d)
  \/ \E n \in 1 .. MaxBatch : ActTurn(n)
  \/ FinalDone \/ FinalFails \/ FinalTooLong

HostStep ==
  \/ LoopCancelled \/ Attempt \/ BackstopRetries \/ BackstopFails
  \/ \E ok \in BOOLEAN : ExecuteCommand(ok)
  \/ FinishAct \/ FinalRetries \/ FinalCompactFails \/ PolicyFails
  \/ mode = "full_send" /\ ActApproved

HumanStep ==
  \/ mode = "approval" /\ ActApproved
  \/ ActRejected \/ ClarifyAnswered
  \/ Cancel
  \/ \E m \in Modes : StartRun(m)

Next == ModelStep \/ HostStep \/ HumanStep

\* The HTTP clients give up after 240 s and every context is honoured, so a
\* model call returns; commands are assumed to end.  A human owes no answer.
Fairness == WF_policyVars(ModelStep \/ HostStep)

Spec     == Init /\ [][Next]_policyVars
FairSpec == Spec /\ Fairness

-----------------------------------------------------------------------------
(* Properties *)

\* The run state has the types of runPolicyState's fields.
TypeOK ==
  /\ pc \in Locations /\ mode \in Modes /\ cancelled \in BOOLEAN
  /\ attempt \in {"first", "retry"}
  /\ commandsUsed \in Nat /\ modelTurns \in Nat /\ protocolErrors \in Nat
  /\ completionRejects \in Nat /\ challengesUsed \in Nat
  /\ guidancePressure \in Pressures /\ backstop \in BOOLEAN
  /\ batch \in Nat /\ skipped \in Nat /\ executed \in Nat /\ replies \in Nat
  /\ outcome \in {"none", "done", "error"}

\* The command budget (handleAct, limitActTurn) holds in the middle of a batch
\* as well as between turns: no interleaving of truncated, failed and rejected
\* batches executes more than MaxSteps commands, the model is asked for a turn
\* only while a command may still run, and a batch is never cut down to
\* nothing (executeTurn would fail the run with ErrMissingCommand).
BudgetRespected ==
  /\ MaxSteps > 0 => commandsUsed + batch <= MaxSteps
  /\ executed <= batch
  /\ MaxSteps > 0 /\ pc \in {"loop", "query", "compact"} => commandsUsed < MaxSteps
  /\ pc \in {"decide", "execute"} => executed < batch
  /\ pc \in {"final", "finalCompact"} => commandsUsed = MaxSteps

\* The retry budgets of the loop: whenever the loop goes on, fewer than three
\* protocol failures in a row and fewer than three rejected completions since
\* the last executed act, challenge or clarification; one challenge per run.
RetryBudgets ==
  /\ pc # "idle" => protocolErrors < 3 /\ completionRejects < 3
  /\ challengesUsed <= 1

\* However the retry budgets combine (each resets another), a run with a
\* command budget queries the model at most nine times per command and human
\* answer, plus eleven: two protocol failures before each of two rejected
\* completions and before the act turn, the same around the one challenge, the
\* one backstop retry and the final summary.
TurnBound ==
  MaxSteps > 0 => modelTurns <= 9 * (MaxSteps + replies) + 11

\* A full-send run ends by itself.
FullSendEnds == (pc # "idle" /\ mode = "full_send") ~> (pc = "idle")

\* A cancelled run ends, also one that waits for an answer nobody will give.
CancelledRunEnds == cancelled ~> (pc = "idle")
=============================================================================
