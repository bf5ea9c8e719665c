--------------------------- MODULE RunPolicyProofs ---------------------------
(***************************************************************************)
(* Invariance proofs for RunPolicy, for every MaxSteps, MaxBatch and       *)
(* MaxReplies.  The argument for TurnBound is a potential: every answer of *)
(* the model is paid for by a retry budget it uses up, and every budget    *)
(* that is refilled is paid for by a command, a challenge or a human       *)
(* answer, of which a run has only so many.  The last part counts the      *)
(* steps of a run in the same way: this is why runs end.                   *)
(***************************************************************************)
EXTENDS RunPolicy, TLAPS

USE MaxStepsAssumption, MaxBatchAssumption, MaxRepliesAssumption

-----------------------------------------------------------------------------
(* The inductive invariant *)

Looping == {"loop", "query", "compact"}
Acting  == {"decide", "execute", "finish"}
Summing == {"final", "finalCompact"}

\* What BudgetRespected rests on: at least one command of a batch may run, and
\* one has run when the batch is finished.
BudgetInv ==
  /\ BudgetRespected
  /\ pc \in Acting => batch >= 1
  /\ pc = "clarify" /\ MaxSteps > 0 => commandsUsed < MaxSteps
  /\ pc = "finish" => executed >= 1

\* What RetryBudgets rests on: protocolErrors is zero while a valid turn is
\* being handled, and an executed act starts the rejections over.
RetryInv ==
  /\ RetryBudgets
  /\ pc \in Acting \cup Summing \cup {"clarify"} => protocolErrors = 0
  /\ pc \in Summing => completionRejects = 0

\* The credit of a run: the answers of the model its counters have paid for.
BackstopCost == IF backstop THEN 0 ELSE 1

Credit ==
  protocolErrors + 3 * completionRejects
    + 9 * (commandsUsed + challengesUsed + replies) + BackstopCost

\* A valid turn that is still being handled is owed three answers: its own and
\* the two protocol failures before it.
CreditInv ==
  /\ pc \in Looping \cup Summing => modelTurns <= Credit
  /\ pc \in Acting \cup {"clarify"} => modelTurns <= Credit + 3

IInv == TypeOK /\ BudgetInv /\ RetryInv /\ CreditInv /\ TurnBound

-----------------------------------------------------------------------------
(* Facts about the command budget *)

\* commandBudgetPressure returns a pressure level, so noting guidance keeps
\* guidancePressure one.
LEMMA PressureType ==
  ASSUME NEW used \in Nat
  PROVE  commandBudgetPressure(used) \in Pressures
BY DEF commandBudgetPressure, Pressures

\* resourcePressureGuidanceDue leaves a pressure level in guidancePressure.
LEMMA NoteGuidanceType ==
  ASSUME TypeOK, NEW used \in Nat, NoteGuidance(used)
  PROVE  guidancePressure' \in Pressures
BY PressureType DEF NoteGuidance, TypeOK

\* limitActTurn never cuts a batch down to nothing while a command may run, and
\* what it keeps fits the budget.
LEMMA LimitedBatch ==
  ASSUME NEW n \in Nat, n >= 1, commandsUsed \in Nat,
         MaxSteps > 0 => commandsUsed < MaxSteps
  PROVE  /\ limitActTurn(n) \in Nat /\ limitActTurn(n) >= 1
         /\ limitActTurn(n) <= n
         /\ MaxSteps > 0 => commandsUsed + limitActTurn(n) <= MaxSteps
BY DEF limitActTurn

-----------------------------------------------------------------------------
(* The step lemma *)

\* A fresh runPolicyState satisfies the invariant.
LEMMA InitEstablishesIInv == Init => IInv
<1> SUFFICES ASSUME Init PROVE IInv
  OBVIOUS
<1>1. BackstopCost = 1 /\ cancelled \in BOOLEAN /\ backstop \in BOOLEAN
  BY Zenon DEF Init, BackstopCost
<1> QED
  BY <1>1 DEF Init, IInv, TypeOK, BudgetInv, BudgetRespected, RetryInv,
    RetryBudgets, CreditInv, Credit, TurnBound, Locations, Modes, Pressures,
    Looping, Acting, Summing

\* Every step of the loop, of its policy and of the command it executes keeps
\* the invariant: one case per action, each with the part it can disturb.
LEMMA IInvPreserved == IInv /\ [Next]_policyVars => IInv'
<1> SUFFICES ASSUME IInv, [Next]_policyVars PROVE IInv'
  OBVIOUS
<1> USE DEF IInv, TypeOK, BudgetInv, BudgetRespected, RetryInv, RetryBudgets,
            CreditInv, Credit, BackstopCost, TurnBound, Locations, Modes, Pressures, Looping,
            Acting, Summing, budgetVars, batchVars, EndRun, Continue
<1>1. CASE QueryFails
  BY <1>1 DEF QueryFails, Answered
<1>2. CASE QueryTooLong
  <2>1. BackstopCost = 0 /\ BackstopCost' = 1
    BY <1>2, Zenon DEF QueryTooLong
  <2>2. backstop' \in BOOLEAN
    BY <1>2 DEF QueryTooLong
  <2> QED
    <3> HIDE DEF BackstopCost
    <3> QED
      BY <1>2, <2>1, <2>2 DEF QueryTooLong, Answered
<1>3. CASE HandleProtocolFailure
  BY <1>3 DEF HandleProtocolFailure, Answered
<1>4. CASE ClarifyTurn
  BY <1>4 DEF ClarifyTurn, ValidTurn, Answered
<1>5. ASSUME NEW d \in DoneTurns, DoneAccepted(d) PROVE IInv'
  BY <1>5 DEF DoneAccepted, ValidTurn, Answered
<1>6. ASSUME NEW d \in DoneTurns, DoneRejected(d) PROVE IInv'
  BY <1>6 DEF DoneRejected, ValidTurn, Answered
<1>7. ASSUME NEW d \in DoneTurns, DoneChallenged(d) PROVE IInv'
  <2>1. challengesUsed = 0
    BY <1>7 DEF DoneChallenged, decide
  <2> QED
    BY <1>7, <2>1 DEF DoneChallenged, ValidTurn, Answered
<1>8. ASSUME NEW n \in 1 .. MaxBatch, ActTurn(n) PROVE IInv'
  <2>1. pc = "query" /\ n \in Nat /\ n >= 1
    BY <1>8 DEF ActTurn, ValidTurn, Answered
  <2>2. /\ limitActTurn(n) \in Nat /\ limitActTurn(n) >= 1
        /\ n - limitActTurn(n) \in Nat
        /\ MaxSteps > 0 => commandsUsed + limitActTurn(n) <= MaxSteps
    BY <2>1, LimitedBatch
  <2> QED
    BY <1>8, <2>1, <2>2 DEF ActTurn, ValidTurn, Answered
<1>9. CASE FinalDone
  BY <1>9 DEF FinalDone, Answered
<1>10. CASE FinalFails
  BY <1>10 DEF FinalFails, Answered
<1>11. CASE FinalTooLong
  <2>1. BackstopCost = 0 /\ BackstopCost' = 1
    BY <1>11, Zenon DEF FinalTooLong
  <2>2. backstop' \in BOOLEAN
    BY <1>11 DEF FinalTooLong
  <2> QED
    <3> HIDE DEF BackstopCost
    <3> QED
      BY <1>11, <2>1, <2>2 DEF FinalTooLong, Answered
<1>12. CASE LoopCancelled
  BY <1>12 DEF LoopCancelled
<1>13. CASE Attempt
  <2>1. guidancePressure' \in Pressures
    BY <1>13, NoteGuidanceType DEF Attempt, BeginAttempt
  <2> QED
    BY <1>13, <2>1 DEF Attempt, BeginAttempt
<1>14. CASE BackstopRetries
  <2>1. guidancePressure' \in Pressures
    BY <1>14, NoteGuidanceType DEF BackstopRetries, BeginAttempt
  <2> QED
    BY <1>14, <2>1 DEF BackstopRetries, BeginAttempt
<1>15. CASE BackstopFails
  BY <1>15 DEF BackstopFails
<1>16. ASSUME NEW ok \in BOOLEAN, ExecuteCommand(ok) PROVE IInv'
  BY <1>16 DEF ExecuteCommand
<1>17. CASE FinishAct
  <2>1. CASE BudgetSpent
    <3>1. guidancePressure' \in Pressures
      BY <1>17, <2>1, NoteGuidanceType DEF FinishAct
    <3>2. commandsUsed + executed = MaxSteps /\ MaxSteps > 0
      BY <1>17, <2>1 DEF FinishAct, BudgetSpent
    <3> QED
      BY <1>17, <2>1, <3>1, <3>2 DEF FinishAct
  <2>2. CASE ~BudgetSpent
    BY <1>17, <2>2 DEF FinishAct, BudgetSpent
  <2> QED
    BY <2>1, <2>2
<1>18. CASE FinalRetries
  BY <1>18 DEF FinalRetries
<1>19. CASE FinalCompactFails
  BY <1>19 DEF FinalCompactFails
<1>20. CASE PolicyFails
  BY <1>20 DEF PolicyFails
<1>21. CASE ActApproved
  BY <1>21 DEF ActApproved
<1>22. CASE ActRejected
  BY <1>22 DEF ActRejected
<1>23. CASE ClarifyAnswered
  BY <1>23 DEF ClarifyAnswered
<1>24. CASE Cancel
  BY <1>24 DEF Cancel
<1>25. ASSUME NEW m \in Modes, StartRun(m) PROVE IInv'
  <2>1. BackstopCost' = 0 /\ cancelled' \in BOOLEAN /\ backstop' \in BOOLEAN
    BY <1>25, Zenon DEF StartRun
  <2> QED
    <3> HIDE DEF BackstopCost
    <3> QED
      BY <1>25, <2>1 DEF StartRun
<1>26. CASE UNCHANGED policyVars
  BY <1>26 DEF policyVars
<1> QED
  BY <1>1, <1>2, <1>3, <1>4, <1>5, <1>6, <1>7, <1>8, <1>9, <1>10, <1>11,
     <1>12, <1>13, <1>14, <1>15, <1>16, <1>17, <1>18, <1>19, <1>20, <1>21,
     <1>22, <1>23, <1>24, <1>25, <1>26 DEF Next, ModelStep, HostStep, HumanStep

\* So it holds in every state of every run.
LEMMA IInvAlways == Spec => []IInv
<1>1. QED
  BY InitEstablishesIInv, IInvPreserved, PTL DEF Spec

-----------------------------------------------------------------------------
(* The theorems *)

\* The run state of runPolicyState keeps its types under every model answer,
\* human decision, command outcome and cancellation.
THEOREM TypeCorrect == Spec => []TypeOK
<1>1. IInv => TypeOK
  BY DEF IInv
<1> QED
  BY <1>1, IInvAlways, PTL

\* No run executes more than MaxSteps commands, and the model is asked for a
\* turn only while one more command may run (handleAct, limitActTurn).
THEOREM BudgetSafe == Spec => []BudgetRespected
<1>1. IInv => BudgetRespected
  BY DEF IInv, BudgetInv
<1> QED
  BY <1>1, IInvAlways, PTL

\* The loop never goes on after three protocol failures in a row or three
\* rejected completions, and challenges at most one completion per run.
THEOREM RetriesSafe == Spec => []RetryBudgets
<1>1. IInv => RetryBudgets
  BY DEF IInv, RetryInv
<1> QED
  BY <1>1, IInvAlways, PTL

\* For every command budget, a run asks the model at most nine times per
\* command and human answer, plus eleven times.
THEOREM TurnsBounded == Spec => []TurnBound
<1>1. IInv => TurnBound
  BY DEF IInv
<1> QED
  BY <1>1, IInvAlways, PTL

-----------------------------------------------------------------------------
(* Why runs end.  TLC checks FullSendEnds and CancelledRunEnds; proved here,*)
(* for every budget, is what their fairness rests on: a bound on the steps  *)
(* of a run that are left, which every step takes something from.           *)

\* What the counters of a run amount to so far.  A valid turn that is being
\* handled has its three answers added, as in CreditInv, and a batch that has
\* begun has its commands in the place of the rejections it makes good.
Spent ==
  10 * (commandsUsed + executed + challengesUsed) + BackstopCost
    + (IF pc \in Acting /\ executed > 0 THEN 0 ELSE 3 * completionRejects)
    + (IF pc \in {"decide", "execute", "clarify"} /\ executed = 0
       THEN 3 ELSE protocolErrors)

\* How far a turn has to go until something is spent again.
Stage ==
  IF pc \in {"query", "final"} THEN 1
  ELSE IF pc \in {"loop", "compact", "finalCompact"} THEN 2
  ELSE IF pc \in {"finish", "clarify"} THEN 3
  ELSE IF pc = "execute" THEN 4 ELSE 5

Purse == 10 * MaxSteps + 19

RunLeft == IF pc = "idle" THEN 0 ELSE 6 * (Purse - Spent) + Stage

RunLength == 6 * Purse + 5

\* Only a batch that has begun has executed commands: what bounds a run does
\* not hang on an earlier batch, which a rejection leaves in place.
FreshInv == pc \in {"execute", "finish", "idle"} \/ executed = 0

\* It holds by itself: a turn resets executed, or leaves it where it is zero.
LEMMA FreshAlways == FreshInv /\ [Next]_policyVars => FreshInv'
<1> SUFFICES ASSUME FreshInv, [Next]_policyVars PROVE FreshInv'
  OBVIOUS
<1> USE DEF FreshInv, batchVars, EndRun, Continue, Answered, ValidTurn, BeginAttempt
<1>1. CASE ModelStep
  BY <1>1 DEF ModelStep, QueryFails, QueryTooLong, HandleProtocolFailure, ClarifyTurn,
    DoneAccepted, DoneRejected, DoneChallenged, ActTurn, FinalDone, FinalFails,
    FinalTooLong
<1>2. CASE HostStep
  BY <1>2 DEF HostStep, LoopCancelled, Attempt, BackstopRetries, BackstopFails,
    ExecuteCommand, FinishAct, FinalRetries, FinalCompactFails, PolicyFails, ActApproved
<1>3. CASE HumanStep
  BY <1>3 DEF HumanStep, ActApproved, ActRejected, ClarifyAnswered, Cancel, StartRun
<1>4. CASE UNCHANGED policyVars
  BY <1>4 DEF policyVars
<1> QED
  BY <1>1, <1>2, <1>3, <1>4 DEF Next

\* Counters and places bound what was spent, at every place of a turn.
LEMMA SpentBounded ==
  IInv /\ MaxSteps > 0 /\ pc # "idle" => Spent \in 0 .. Purse /\ Stage \in 1 .. 5
<1> SUFFICES ASSUME IInv, MaxSteps > 0, pc # "idle"
             PROVE  Spent \in 0 .. Purse /\ Stage \in 1 .. 5
  OBVIOUS
<1>1. BackstopCost \in {0, 1}
  BY DEF BackstopCost
<1>2. Stage \in 1 .. 5
  BY DEF Stage
<1>3. /\ commandsUsed \in Nat /\ executed \in Nat /\ batch \in Nat
      /\ protocolErrors \in 0 .. 2
      /\ completionRejects \in 0 .. 2 /\ challengesUsed \in 0 .. 1
  BY DEF IInv, TypeOK, RetryInv, RetryBudgets
<1>4. commandsUsed + executed <= MaxSteps
  BY <1>3 DEF IInv, BudgetInv, BudgetRespected
<1>5. pc \in {"decide", "execute", "clarify"} /\ executed = 0
         => commandsUsed + executed + 1 <= MaxSteps
  BY <1>3 DEF IInv, BudgetInv, BudgetRespected, Acting
<1> QED
  BY <1>1, <1>2, <1>3, <1>4, <1>5 DEF Spent, Purse

\* So a run that has not ended has something left, and never more than that.
LEMMA LeftBounded ==
  IInv /\ MaxSteps > 0
     => /\ RunLeft \in 0 .. 6 * Purse + 5
        /\ pc # "idle" => RunLeft >= 1
<1>1. Purse \in Nat
  BY DEF Purse
<1> QED
  BY <1>1, SpentBounded DEF RunLeft

\* More spent, or as much at a later stage of the turn, leaves less.
LEMMA LexicographicLess ==
  ASSUME NEW p \in Nat, NEW s \in Int, NEW t \in Int, NEW i \in 1 .. 5,
         NEW j \in 1 .. 5, t > s \/ (t = s /\ j < i)
  PROVE  6 * (p - t) + j < 6 * (p - s) + i
OBVIOUS

\* What it takes to shorten a run that goes on.
LEMMA Shortened ==
  ASSUME IInv, IInv', MaxSteps > 0, pc # "idle", pc' # "idle",
         Spent' > Spent \/ (Spent' = Spent /\ Stage' < Stage)
  PROVE  RunLeft' < RunLeft
<1>1. Spent \in 0 .. Purse /\ Stage \in 1 .. 5
  BY SpentBounded
<1>2. (IInv /\ MaxSteps > 0 /\ pc # "idle"
          => Spent \in 0 .. Purse /\ Stage \in 1 .. 5)'
  BY SpentBounded, PTL
<1>3. Purse' = Purse /\ Purse \in Nat
  BY DEF Purse
<1>4. Spent' \in Int /\ Stage' \in 1 .. 5
  BY <1>2, <1>3
<1>5. /\ RunLeft = 6 * (Purse - Spent) + Stage
      /\ RunLeft' = 6 * (Purse - Spent') + Stage'
  BY <1>3 DEF RunLeft
<1>6. /\ Purse \in Nat /\ Spent \in Int /\ Spent' \in Int
      /\ Stage \in 1 .. 5 /\ Stage' \in 1 .. 5
  BY <1>1, <1>3, <1>4
<1>7. 6 * (Purse - Spent') + Stage' < 6 * (Purse - Spent) + Stage
  BY <1>6, LexicographicLess
<1> QED
  BY <1>5, <1>7

\* Every step of a run, but for the end of its context and for a human's reply,
\* which may come in between, leaves less of it.
LEMMA StepShortens ==
  ASSUME IInv, FreshInv, Next, MaxSteps > 0, pc # "idle", ~Cancel, UNCHANGED replies
  PROVE  RunLeft' < RunLeft
<1>1. IInv'
  BY IInvPreserved
<1>2. CASE pc' = "idle"
  BY <1>2, LeftBounded DEF RunLeft
<1> SUFFICES ASSUME pc' # "idle"
             PROVE  Spent' > Spent \/ (Spent' = Spent /\ Stage' < Stage)
  BY <1>1, <1>2, Shortened
<1>3. BackstopCost \in {0, 1} /\ BackstopCost' \in {0, 1}
  BY DEF BackstopCost
<1>4. UNCHANGED backstop => BackstopCost' = BackstopCost
  BY DEF BackstopCost
<1>5. backstop /\ ~backstop' => BackstopCost' = BackstopCost + 1
  BY DEF BackstopCost
<1>6. /\ commandsUsed \in Nat /\ executed \in Nat /\ protocolErrors \in 0 .. 2
      /\ completionRejects \in 0 .. 2 /\ challengesUsed \in 0 .. 1
      /\ replies \in Nat
  BY DEF IInv, TypeOK, RetryInv, RetryBudgets
<1>7. /\ pc = "finish" => executed >= 1
      /\ pc \in Acting \cup {"clarify"} => protocolErrors = 0
  BY DEF IInv, BudgetInv, RetryInv
<1> USE DEF Spent, Stage, FreshInv, Acting, EndRun, Continue, Answered, ValidTurn,
            budgetVars, batchVars
<1> HIDE DEF BackstopCost
<1>8. CASE QueryFails \/ FinalDone \/ FinalFails \/ LoopCancelled \/ BackstopFails
             \/ FinalCompactFails \/ PolicyFails \/ \E d \in DoneTurns : DoneAccepted(d)
  BY <1>8 DEF QueryFails, FinalDone, FinalFails, LoopCancelled, BackstopFails,
    FinalCompactFails, PolicyFails, DoneAccepted
<1>9. CASE QueryTooLong
  BY <1>3, <1>5, <1>6, <1>9 DEF QueryTooLong
<1>10. CASE HandleProtocolFailure
  BY <1>3, <1>4, <1>6, <1>10 DEF HandleProtocolFailure
<1>11. CASE ClarifyTurn
  BY <1>3, <1>4, <1>6, <1>11 DEF ClarifyTurn
<1>12. ASSUME NEW d \in DoneTurns, DoneRejected(d)
       PROVE  Spent' > Spent \/ (Spent' = Spent /\ Stage' < Stage)
  BY <1>3, <1>4, <1>6, <1>12 DEF DoneRejected
<1>13. ASSUME NEW d \in DoneTurns, DoneChallenged(d)
       PROVE  Spent' > Spent \/ (Spent' = Spent /\ Stage' < Stage)
  BY <1>3, <1>4, <1>6, <1>13 DEF DoneChallenged
<1>14. ASSUME NEW n \in 1 .. MaxBatch, ActTurn(n)
       PROVE  Spent' > Spent \/ (Spent' = Spent /\ Stage' < Stage)
  BY <1>3, <1>4, <1>6, <1>14 DEF ActTurn
<1>15. CASE FinalTooLong
  BY <1>3, <1>5, <1>6, <1>15 DEF FinalTooLong
<1>16. CASE Attempt
  BY <1>3, <1>4, <1>6, <1>16 DEF Attempt, BeginAttempt
<1>17. CASE BackstopRetries
  BY <1>3, <1>4, <1>6, <1>17 DEF BackstopRetries, BeginAttempt
<1>18. ASSUME NEW ok \in BOOLEAN, ExecuteCommand(ok)
       PROVE  Spent' > Spent \/ (Spent' = Spent /\ Stage' < Stage)
  BY <1>3, <1>4, <1>6, <1>7, <1>18 DEF ExecuteCommand
<1>19. CASE FinishAct
  BY <1>3, <1>4, <1>6, <1>7, <1>19 DEF FinishAct
<1>20. CASE FinalRetries
  BY <1>3, <1>4, <1>6, <1>20 DEF FinalRetries
<1>21. CASE ActApproved
  BY <1>3, <1>4, <1>6, <1>21 DEF ActApproved
<1>22. CASE ActRejected \/ ClarifyAnswered
  BY <1>6, <1>22 DEF ActRejected, ClarifyAnswered
<1>23. ASSUME NEW m \in Modes, StartRun(m) PROVE FALSE
  BY <1>23 DEF StartRun
<1> QED
  BY <1>8, <1>9, <1>10, <1>11, <1>12, <1>13, <1>14, <1>15, <1>16, <1>17, <1>18, <1>19,
     <1>20, <1>21, <1>22, <1>23 DEF Next, ModelStep, HostStep, HumanStep

\* The end of the context leaves as much.
LEMMA CancelKeeps == Cancel => RunLeft' = RunLeft
BY DEF Cancel, RunLeft, Spent, Stage, Purse, BackstopCost, budgetVars, batchVars

\* So a run with a command budget takes at most RunLength steps from its start,
\* or from a reply of the human, to the next reply or its end, however the model
\* answers and whatever fails (RunWithPolicyOptions, handleDone, handleAct,
\* handleProtocolFailure): every step but a reply leaves less, and the end of
\* the context leaves as much.
\* FullSendEnds needs no more than that the steps are taken.
THEOREM RunsShorten ==
  MaxSteps > 0 /\ Spec
    => /\ [](RunLeft \in 0 .. RunLength /\ (RunLeft = 0 => pc = "idle"))
       /\ [][pc # "idle" /\ UNCHANGED replies
               => RunLeft' < RunLeft \/ (Cancel /\ RunLeft' = RunLeft)]_policyVars
<1> DEFINE Bounded == RunLeft \in 0 .. RunLength /\ (RunLeft = 0 => pc = "idle")
           Shorter == RunLeft' < RunLeft \/ (Cancel /\ RunLeft' = RunLeft)
<1> SUFFICES ASSUME MaxSteps > 0
             PROVE  Spec => /\ []Bounded
                            /\ [][pc # "idle" /\ UNCHANGED replies => Shorter]_policyVars
  OBVIOUS
<1>1. Init => FreshInv
  BY DEF Init, FreshInv
<1>2. IInv => Bounded
  <2>1. RunLength \in Nat
    BY DEF RunLength, Purse
  <2> QED
    BY <2>1, LeftBounded DEF RunLength
<1>3. IInv /\ FreshInv /\ [Next]_policyVars
        => [pc # "idle" /\ UNCHANGED replies => Shorter]_policyVars
  BY StepShortens, CancelKeeps
<1> QED
  BY <1>1, <1>2, <1>3, IInvAlways, FreshAlways, PTL DEF Spec

\* The steps a run still takes once its context is done.
CancelledLeft ==
  IF pc = "idle" THEN 0
  ELSE IF pc \in {"loop", "compact"} THEN 1
  ELSE IF pc = "final" THEN IF attempt = "retry" THEN 1 ELSE 3
  ELSE IF pc \in {"clarify", "finalCompact"} THEN 2
  ELSE IF pc = "finish" THEN 4
  ELSE IF pc = "execute" THEN 5
  ELSE IF pc = "decide" THEN 6 ELSE 7

\* With or without a budget, a run whose context is done takes at most seven
\* more steps, whatever the model, the compactor and the human do: the one
\* retry that does not look at the context (retryStepLimitSummary) is among
\* them.  CancelledRunEnds needs no more than that the steps are taken.
THEOREM CancelledRunsShorten ==
  Spec => [][cancelled /\ pc # "idle"
               => /\ CancelledLeft \in 1 .. 7 /\ CancelledLeft' \in 0 .. 6
                  /\ CancelledLeft' < CancelledLeft]_policyVars
<1> DEFINE Shorter == /\ CancelledLeft \in 1 .. 7 /\ CancelledLeft' \in 0 .. 6
                      /\ CancelledLeft' < CancelledLeft
<1>1. ASSUME TypeOK, Next, cancelled, pc # "idle" PROVE Shorter
  <2> USE <1>1 DEF CancelledLeft, EndRun, Continue, Answered, ValidTurn, BeginAttempt
  <2>1. CASE QueryFails
    BY <2>1 DEF QueryFails
  <2>2. CASE QueryTooLong
    BY <2>2 DEF QueryTooLong
  <2>3. CASE HandleProtocolFailure
    BY <2>3 DEF HandleProtocolFailure
  <2>4. CASE ClarifyTurn
    BY <2>4 DEF ClarifyTurn
  <2>5. CASE FinalDone
    BY <2>5 DEF FinalDone
  <2>6. CASE FinalFails
    BY <2>6 DEF FinalFails
  <2>7. CASE FinalTooLong
    BY <2>7 DEF FinalTooLong
  <2>8. CASE LoopCancelled
    BY <2>8 DEF LoopCancelled
  <2>9. CASE Attempt
    BY <2>9 DEF Attempt
  <2>10. CASE BackstopRetries
    BY <2>10 DEF BackstopRetries
  <2>11. CASE BackstopFails
    BY <2>11 DEF BackstopFails
  <2>12. CASE FinishAct
    BY <2>12 DEF FinishAct
  <2>13. CASE FinalRetries
    BY <2>13 DEF FinalRetries
  <2>14. CASE FinalCompactFails
    BY <2>14 DEF FinalCompactFails
  <2>15. CASE PolicyFails
    BY <2>15 DEF PolicyFails
  <2>16. CASE ActApproved
    BY <2>16 DEF ActApproved
  <2>17. CASE ActRejected
    BY <2>17 DEF ActRejected
  <2>18. CASE ClarifyAnswered
    BY <2>18 DEF ClarifyAnswered
  <2>19. CASE Cancel
    BY <2>19 DEF Cancel
  <2>20. ASSUME NEW d \in DoneTurns, DoneAccepted(d) PROVE Shorter
    BY <2>20 DEF DoneAccepted
  <2>21. ASSUME NEW d \in DoneTurns, DoneRejected(d) PROVE Shorter
    BY <2>21 DEF DoneRejected
  <2>22. ASSUME NEW d \in DoneTurns, DoneChallenged(d) PROVE Shorter
    BY <2>22 DEF DoneChallenged
  <2>23. ASSUME NEW n \in 1 .. MaxBatch, ActTurn(n) PROVE Shorter
    BY <2>23 DEF ActTurn
  <2>24. ASSUME NEW ok \in BOOLEAN, ExecuteCommand(ok) PROVE Shorter
    BY <2>24 DEF ExecuteCommand
  <2>25. ASSUME NEW m \in Modes, StartRun(m) PROVE Shorter
    BY <2>25 DEF StartRun
  <2> QED
    BY <2>1, <2>2, <2>3, <2>4, <2>5, <2>6, <2>7, <2>8, <2>9, <2>10,
       <2>11, <2>12, <2>13, <2>14, <2>15, <2>16, <2>17, <2>18, <2>19, <2>20,
       <2>21, <2>22, <2>23, <2>24, <2>25
       DEF Next, ModelStep, HostStep, HumanStep
<1>2. TypeOK /\ [Next]_policyVars => [cancelled /\ pc # "idle" => Shorter]_policyVars
  BY <1>1
<1> QED
  BY <1>2, TypeCorrect, PTL DEF Spec
=============================================================================
