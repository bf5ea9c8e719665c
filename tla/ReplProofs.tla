----------------------------- MODULE ReplProofs -----------------------------
(***************************************************************************)
(* Proofs about clnkr's loop, for every number of runs, prompts and        *)
(* interrupts and every capacity of the event channel.  It never lets two  *)
(* runs use the agent: the flag of the driver is held by the one run that  *)
(* uses it; a second run is turned away by it and gives back nothing; and  *)
(* the loop only leaves a run behind whose context it has cancelled.  And  *)
(* while it is not disturbed it leaves none behind: a request is the last  *)
(* event until it is answered, so the loop asks for an answer only when    *)
(* the run waits for it, and never fails to hand it over.                  *)
(***************************************************************************)
EXTENDS Repl, FiniteSetTheorems, TLAPS

-----------------------------------------------------------------------------
(* The inductive invariant *)

RunTypes ==
  /\ runs \in [Runs -> Goroutines] /\ running \in BOOLEAN
  /\ reply \in Replies /\ mode \in RunModes /\ ctxDone \in BOOLEAN
  /\ run \in Runs \cup {NoRun}

\* The run that uses the agent holds the driver's flag.
FlagInv ==
  /\ \A r \in Runs : UsesAgent(r) => running
  /\ \A r, s \in Runs : UsesAgent(r) /\ UsesAgent(s) => r = s

\* Only the run that the loop waits for may be active and not cancelled.
LeftInv ==
  /\ \A r \in Runs \ {run} : Active(r) => runs[r].cancelled
  /\ mainPc = "prompt" => run = NoRun

IInv == RunTypes /\ FlagInv /\ LeftInv
-----------------------------------------------------------------------------
(* One run *)

\* Where an emit leads: a refused run stays one, and no other becomes one.
LEMMA EmitTo ==
  ASSUME NEW e \in Emitting
  PROVE  /\ SentTo[e] \in RunPcs \ {"none", "start", "emitBusy"}
         /\ DroppedTo[e] \in RunPcs \ {"none", "start", "emitBusy"}
         /\ SentTo[e] = "returnBusy" <=> e = "emitBusy"
         /\ DroppedTo[e] = "returnBusy" <=> e = "emitBusy"
         /\ e \in RunPcs \ {"none", "start", "returnBusy"}
<1>1. e \in {"emitRequest", "emitRefusal", "emitCompacted", "emitDone",
             "emitCompaction", "emitError", "emitBusy"}
  BY DEF Emitting, EventOf
<1> QED BY <1>1 DEF SentTo, DroppedTo, RunPcs, Emitting, EventOf

\* A goroutine that goes to another place is else as it was.
LEMMA Moves ==
  ASSUME RunTypes, NEW r \in Runs, NEW to \in RunPcs,
         runs' = [runs EXCEPT ![r].pc = to]
  PROVE  /\ runs' \in [Runs -> Goroutines]
         /\ \A s \in Runs \ {r} : runs'[s] = runs[s]
         /\ runs'[r].pc = to /\ runs'[r].cancelled = runs[r].cancelled
BY DEF RunTypes, Goroutines

\* An emit takes a run from one place past its start to another.
EmitMoves(r) ==
  /\ runs' \in [Runs -> Goroutines] /\ runs'[r].cancelled = runs[r].cancelled
  /\ \A s \in Runs \ {r} : runs'[s] = runs[s]
  /\ runs'[r].pc \notin {"none", "start", "emitBusy"}
  /\ runs'[r].pc = "returnBusy" <=> runs[r].pc = "emitBusy"
  /\ runs[r].pc \notin {"none", "start", "returnBusy"}

\* So it does whether the event is sent or dropped.
LEMMA EmitMovesRun ==
  ASSUME RunTypes, NEW r \in Runs, runs[r].pc \in Emitting,
         \/ runs' = [runs EXCEPT ![r].pc = SentTo[runs[r].pc]]
         \/ runs' = [runs EXCEPT ![r].pc = DroppedTo[runs[r].pc]]
  PROVE  EmitMoves(r)
<1>1. PICK e \in Emitting : e = runs[r].pc
  OBVIOUS
<1>2. /\ SentTo[e] \in RunPcs \ {"none", "start", "emitBusy"}
      /\ DroppedTo[e] \in RunPcs \ {"none", "start", "emitBusy"}
      /\ SentTo[e] = "returnBusy" <=> e = "emitBusy"
      /\ DroppedTo[e] = "returnBusy" <=> e = "emitBusy"
      /\ e \in RunPcs \ {"none", "start", "returnBusy"}
  BY EmitTo, Zenon
<1>3. PICK to \in {SentTo[e], DroppedTo[e]} : runs' = [runs EXCEPT ![r].pc = to]
  BY <1>1
<1>4. /\ to \in RunPcs \ {"none", "start", "emitBusy"}
      /\ to = "returnBusy" <=> e = "emitBusy"
  BY <1>2, <1>3
<1>5. /\ runs' \in [Runs -> Goroutines] /\ runs'[r].pc = to
      /\ runs'[r].cancelled = runs[r].cancelled
      /\ \A s \in Runs \ {r} : runs'[s] = runs[s]
  BY <1>3, <1>4, Moves
<1> QED BY <1>1, <1>2, <1>4, <1>5 DEF EmitMoves

\* A step of a run goroutine takes it from a place to another, where it uses
\* the agent only if it did or found the flag free, and changes no other run.
LEMMA RunStepMoves ==
  ASSUME RunTypes, NEW r \in Runs, RunStep(r)
  PROVE  /\ runs' \in [Runs -> Goroutines] /\ running' \in BOOLEAN /\ reply' \in Replies
         /\ \A s \in Runs \ {r} : runs'[s] = runs[s]
         /\ Active(r)
         /\ runs'[r].pc # "none" => runs'[r].cancelled = runs[r].cancelled
         /\ \/ UsesAgent(r) /\ running' = running
            \/ runs[r].pc = "start" /\ ~running /\ running'
            \/ /\ ~UsesAgent(r) /\ running' = running
               /\ runs'[r].pc \in {"none", "emitBusy", "returnBusy"}
            \/ UsesAgent(r) /\ runs'[r].pc = "none" /\ ~running'
<1> USE DEF RunGoes, Active, UsesAgent, RunPcs, Emitting, EventOf, requestVars
<1> running \in BOOLEAN /\ reply \in Replies
  BY DEF RunTypes
<1>1. CASE RunStarts(r)
  <2>1. CASE running BY <1>1, <2>1, Moves DEF RunStarts
  <2>2. CASE ~running BY <1>1, <2>2, Moves DEF RunStarts
  <2> QED BY <2>1, <2>2
<1>2. CASE WorkBegins(r) BY <1>2, Moves DEF WorkBegins
<1>3. CASE WorkEnds(r) BY <1>3, Moves DEF WorkEnds
<1>4. CASE WorkCompacts(r)
  <2>1. /\ runs' \in [Runs -> Goroutines] /\ runs'[r].cancelled = runs[r].cancelled
        /\ \A s \in Runs \ {r} : runs'[s] = runs[s]
    BY <1>4 DEF WorkCompacts, RunTypes, Goroutines
  <2> QED BY <1>4, <2>1 DEF WorkCompacts
<1>5. CASE WorkAsks(r) BY <1>5, Moves DEF WorkAsks
<1>6. CASE RequestReply(r) BY <1>6, Moves DEF RequestReply
<1>7. CASE ReplyReceived(r)
  <2>1. [answer |-> "loop", blank |-> "request", slashCompact |-> "emitRefusal"][reply]
          \in {"loop", "request", "emitRefusal"}
    BY DEF Replies
  <2>2. reply' \in Replies /\ running' = running /\ runs[r].pc = "received"
    BY <1>7 DEF ReplyReceived, Replies
  <2> QED BY <1>7, <2>1, <2>2, Moves DEF ReplyReceived
<1>8. CASE AwaitCancelled(r)
  BY <1>8, Moves DEF AwaitCancelled
<1>9. CASE Emit(r)
  <2>1. /\ runs[r].pc \in Emitting /\ running' = running /\ reply' = reply
        /\ runs' = [runs EXCEPT ![r].pc = SentTo[runs[r].pc]]
    BY <1>9 DEF Emit
  <2>2. EmitMoves(r)
    BY <2>1, EmitMovesRun
  <2> QED BY <2>1, <2>2 DEF EmitMoves
<1>10. CASE EmitDropped(r)
  <2>1. /\ runs[r].pc \in Emitting /\ running' = running /\ reply' = reply
        /\ runs' = [runs EXCEPT ![r].pc = DroppedTo[runs[r].pc]]
    BY <1>10 DEF EmitDropped
  <2>2. EmitMoves(r)
    BY <2>1, EmitMovesRun
  <2> QED BY <2>1, <2>2 DEF EmitMoves
<1>11. CASE RunReturns(r)
  <2>1. /\ runs' \in [Runs -> Goroutines] /\ runs'[r].pc = "none"
        /\ \A s \in Runs \ {r} : runs'[s] = runs[s]
    BY <1>11 DEF RunReturns, RunTypes, NoGoroutine, Goroutines, RunModes
  <2> QED BY <1>11, <2>1 DEF RunReturns
<1> QED
  BY <1>1, <1>2, <1>3, <1>4, <1>5, <1>6, <1>7, <1>8, <1>9, <1>10, <1>11 DEF RunStep
-----------------------------------------------------------------------------
(* Invariance *)

\* At the first prompt there is no run.
LEMMA InitInv == Init => IInv
<1>1. NoGoroutine \in Goroutines /\ NoGoroutine.pc = "none"
  BY DEF NoGoroutine, Goroutines, RunPcs, RunModes
<1> QED
  BY <1>1 DEF Init, DriverInit, IInv, RunTypes, FlagInv, LeftInv, UsesAgent, Active, Replies,
     RunModes

\* A run keeps the invariant: it comes to the agent only where the flag was
\* free, so only where no run used it, and frees it only when it leaves.
LEMMA RunInv ==
  ASSUME IInv, NEW r \in Runs, RunGoroutine(r)
  PROVE  IInv'
<1>1. /\ RunStep(r) /\ UNCHANGED <<mainPc, run, mode, ctxDone>>
  BY DEF RunGoroutine, MainWaits, settingVars
<1>2. /\ runs' \in [Runs -> Goroutines] /\ running' \in BOOLEAN /\ reply' \in Replies
      /\ \A s \in Runs \ {r} : runs'[s] = runs[s]
      /\ Active(r)
      /\ runs'[r].pc # "none" => runs'[r].cancelled = runs[r].cancelled
  BY <1>1, RunStepMoves DEF IInv
<1>3. \/ UsesAgent(r) /\ running' = running
      \/ runs[r].pc = "start" /\ ~running /\ running'
      \/ /\ ~UsesAgent(r) /\ running' = running
         /\ runs'[r].pc \in {"none", "emitBusy", "returnBusy"}
      \/ UsesAgent(r) /\ runs'[r].pc = "none" /\ ~running'
  BY <1>1, RunStepMoves DEF IInv
<1>4. RunTypes'
  BY <1>1, <1>2 DEF IInv, RunTypes
<1>5. FlagInv'
  BY <1>2, <1>3 DEF IInv, FlagInv, UsesAgent
<1>6. LeftInv'
  BY <1>1, <1>2 DEF IInv, LeftInv, Active
<1> QED BY <1>4, <1>5, <1>6 DEF IInv

\* Cancelling the run the loop waits for leaves each run where it is.
LEMMA CancelMoves ==
  ASSUME RunTypes, runs' = Cancelled({run})
  PROVE  /\ runs' \in [Runs -> Goroutines]
         /\ \A r \in Runs : /\ runs'[r].pc = runs[r].pc
                            /\ runs[r].cancelled => runs'[r].cancelled
                            /\ r = run /\ Active(r) => runs'[r].cancelled
BY DEF RunTypes, Cancelled, Goroutines

\* runDriverPrompt returns with its run told to stop.
LEMMA PromptReturnsInv ==
  ASSUME IInv, NEW err, PromptReturns(err), UNCHANGED <<running, mode>>, reply' \in Replies
  PROVE  IInv'
<1>1. runs' = Cancelled({run}) /\ run' = NoRun /\ ctxDone' = FALSE
  BY DEF PromptReturns
<1>2. RunTypes'
  BY <1>1, CancelMoves DEF IInv, RunTypes
<1>3. FlagInv'
  BY <1>1, CancelMoves DEF IInv, FlagInv, UsesAgent
<1>4. LeftInv'
  BY <1>1, CancelMoves DEF IInv, LeftInv, Active
<1> QED BY <1>2, <1>3, <1>4 DEF IInv

\* So does a prompt whose handler failed, at once or after the channel is empty.
LEMMA HandlingFailsInv ==
  ASSUME IInv, NEW err, HandlingFails(err), UNCHANGED <<running, mode>>, reply' \in Replies
  PROVE  IInv'
<1>1. CASE Draining
  BY <1>1 DEF HandlingFails, IInv, RunTypes, FlagInv, LeftInv, UsesAgent, Active
<1>2. CASE ~Draining
  BY <1>2, PromptReturnsInv DEF HandlingFails
<1> QED BY <1>1, <1>2

\* A step that leaves the runs, the flag and the loop's run alone.
LEMMA NothingMoves ==
  ASSUME IInv, UNCHANGED <<runs, running, run, mode>>, reply' \in Replies,
         ctxDone' \in BOOLEAN, mainPc' = "prompt" => mainPc = "prompt"
  PROVE  IInv'
BY DEF IInv, RunTypes, FlagInv, LeftInv, UsesAgent, Active

\* What the user does keeps the invariant: a prompt is typed when nothing is
\* waited for, and its run takes a number that is free.
LEMMA UserInv ==
  ASSUME IInv, User
  PROVE  IInv'
<1> ctxDone \in BOOLEAN /\ reply \in Replies
  BY DEF IInv, RunTypes
<1>1. ASSUME NEW m \in {mode, "compact"}, PromptTyped(m) PROVE IInv'
  <2> DEFINE g == [NoGoroutine EXCEPT !.pc = "start", !.mode = m, !.cancelled = ctxDone,
                                      !.canCompact = (m # "compact")]
  <2>1. /\ run' \in Runs /\ ~Active(run') /\ run = NoRun /\ mainPc' = "select"
        /\ runs' = [runs EXCEPT ![run'] = g] /\ UNCHANGED <<running, reply, mode, ctxDone>>
    BY <1>1 DEF PromptTyped, StartDriverRun, Some, FreshRuns, IdleRuns, IInv, LeftInv,
       requestVars, settingVars
  <2>2. g.pc = "start" /\ g \in Goroutines
    BY <1>1 DEF IInv, RunTypes, NoGoroutine, Goroutines, RunPcs, RunModes
  <2> HIDE DEF g
  <2>3. RunTypes'
    BY <2>1, <2>2 DEF IInv, RunTypes
  <2>4. FlagInv'
    BY <2>1, <2>2 DEF IInv, RunTypes, FlagInv, UsesAgent
  <2>5. NoRun \notin Runs
    BY MaxRunsAssumption DEF NoRun, Runs
  <2>6. LeftInv'
    BY <2>1, <2>5 DEF IInv, RunTypes, LeftInv, Active
  <2> QED BY <2>3, <2>4, <2>6 DEF IInv
<1>2. ASSUME NEW text \in Replies \ {"blank"}, ReplyTyped(text) PROVE IInv'
  BY <1>2, NothingMoves DEF ReplyTyped, TakeHold, settingVars
<1>3. CASE ReplyTypedTooLate
  BY <1>3, HandlingFailsInv DEF ReplyTypedTooLate, settingVars, requestVars
<1>4. CASE Interrupt
  <2>1. /\ runs' = Cancelled({run}) /\ ctxDone' = TRUE
        /\ UNCHANGED <<running, run, mode, mainPc, reply>>
    BY <1>4 DEF Interrupt, settingVars, requestVars
  <2>2. RunTypes'
    BY <2>1, CancelMoves DEF IInv, RunTypes
  <2>3. FlagInv'
    BY <2>1, CancelMoves DEF IInv, FlagInv, UsesAgent
  <2>4. LeftInv'
    BY <2>1, CancelMoves DEF IInv, LeftInv, Active
  <2> QED BY <2>2, <2>3, <2>4 DEF IInv
<1>5. CASE StdinEnds
  BY <1>5, NothingMoves DEF StdinEnds, driverVars, requestVars, settingVars
<1> QED BY <1>1, <1>2, <1>3, <1>4, <1>5 DEF User

\* What the loop does keeps the invariant.
LEMMA MainInv ==
  ASSUME IInv, Main
  PROVE  IInv'
<1> USE DEF settingVars, requestVars, driverVars, userVars
<1> ctxDone \in BOOLEAN /\ reply \in Replies
  BY DEF IInv, RunTypes
<1>1. CASE PromptEnds
  BY <1>1, NothingMoves DEF PromptEnds, Exit
<1>2. CASE SelectInterrupted
  BY <1>2, PromptReturnsInv DEF SelectInterrupted
<1>3. CASE HandleEvent
  BY <1>3, NothingMoves DEF HandleEvent
<1>4. CASE RunResult
  <2>1. /\ runs' = [runs EXCEPT ![run].done = "none"]
        /\ UNCHANGED <<running, run, mode, ctxDone, mainPc, reply>>
    BY <1>4 DEF RunResult, TakeResult
  <2>2. /\ runs' \in [Runs -> Goroutines]
        /\ \A r \in Runs : runs'[r].pc = runs[r].pc /\ runs'[r].cancelled = runs[r].cancelled
    BY <2>1 DEF IInv, RunTypes, Goroutines
  <2> QED BY <2>1, <2>2 DEF IInv, RunTypes, FlagInv, LeftInv, UsesAgent, Active
<1>5. CASE Drained
  BY <1>5, PromptReturnsInv DEF Drained
<1>6. CASE AskEnds
  <2>1. \E err \in {"input", "error"} : HandlingFails(err)
    BY <1>6 DEF AskEnds
  <2> QED BY <1>6, <2>1, HandlingFailsInv DEF AskEnds
<1>7. CASE ReplySent
  <2>1. /\ replyTo \in Runs /\ runs[replyTo].pc = "await"
        /\ runs' = [runs EXCEPT ![replyTo].pc = "received"] /\ mainPc' = "replyWait"
        /\ UNCHANGED <<running, run, mode, ctxDone, reply>>
    BY <1>7 DEF ReplySent, HandOver
  <2>2. "received" \in RunPcs
    BY DEF RunPcs
  <2>3. /\ runs' \in [Runs -> Goroutines]
        /\ runs'[replyTo].pc = "received" /\ runs'[replyTo].cancelled = runs[replyTo].cancelled
        /\ \A r \in Runs \ {replyTo} : runs'[r] = runs[r]
    BY <2>1, <2>2, Moves DEF IInv
  <2> QED BY <2>1, <2>3 DEF IInv, RunTypes, FlagInv, LeftInv, UsesAgent, Active
<1>8. CASE ReplyReturns
  BY <1>8, NothingMoves DEF ReplyReturns, LetGo
<1>9. CASE ReplyRefused
  BY <1>9, HandlingFailsInv DEF ReplyRefused, LetGo
<1>10. CASE ReplyInterrupted
  BY <1>10, HandlingFailsInv DEF ReplyInterrupted, LetGo
<1> QED
  BY <1>1, <1>2, <1>3, <1>4, <1>5, <1>6, <1>7, <1>8, <1>9, <1>10 DEF Main

\* Every step keeps the invariant.
LEMMA InvStep == IInv /\ [Next]_vars => IInv'
<1> SUFFICES ASSUME IInv, [Next]_vars PROVE IInv'
  OBVIOUS
<1>1. CASE Next
  BY <1>1, UserInv, MainInv, RunInv DEF Next
<1>2. CASE UNCHANGED vars
  BY <1>2, NothingMoves DEF vars, driverVars, requestVars, settingVars, IInv, RunTypes
<1> QED BY <1>1, <1>2

\* The invariant holds in every state of every behaviour.
LEMMA Invariance == Spec => []IInv
BY InvStep, InitInv, PTL DEF Spec

-----------------------------------------------------------------------------
(* Results *)

\* However often clnkr's prompts are interrupted, no two runs use the agent at
\* once, and every run that was left behind has been told to stop
\* (setRunning, driver.go; runDriverPrompt, main.go).
THEOREM AgentExclusiveAlways == Spec => []AgentExclusive
<1>1. ASSUME IInv PROVE Cardinality({r \in Runs : UsesAgent(r)}) <= 1
  <2> DEFINE users == {r \in Runs : UsesAgent(r)}
  <2>1. CASE users = {}
    BY <2>1, FS_EmptySet
  <2>2. CASE users # {}
    <3>1. PICK r \in users : TRUE
      BY <2>2
    <3>2. users = {r}
      BY <3>1, <1>1 DEF IInv, FlagInv
    <3> HIDE DEF users
    <3>3. Cardinality(users) = 1
      BY <3>2, FS_Singleton
    <3> QED BY <3>3 DEF users
  <2> QED BY <2>1, <2>2
<1>2. IInv => AgentExclusive
  BY <1>1 DEF IInv, LeftInv, AgentExclusive
<1> QED BY <1>2, Invariance, PTL

-----------------------------------------------------------------------------
(* Prompts that nobody disturbs *)

\* No run was interrupted, and every request can be answered.
Undisturbed == interrupts = 0 /\ (stdin = "open" \/ mode = "full_send")

\* Where a run has a request, and where it is on the way to one.
HoldingPcs == {"emitRequest", "await", "received"}
AskingPcs  == HoldingPcs \cup {"emitRefusal", "request"}

ChannelTypes ==
  /\ events \in Seq(Events) /\ pending \in Runs \cup {NoRun}
  /\ mainPc \in {"prompt", "select", "ask", "replySend", "replyWait", "exited"}
  /\ interrupts \in Nat

\* Only the loop's run is active, it has not been told to stop, and it owes
\* its result; only a run that asks for approval gets to a request.
ActiveInv == \A r \in Runs : Active(r) =>
  /\ r = run /\ ~runs[r].cancelled /\ runs[r].done = "none" /\ ~Draining
  /\ runs[r].mode \in {mode, "compact"}
  /\ runs[r].pc \notin {"emitBusy", "returnBusy"}
  /\ runs[r].pc = "start" => ~running
  /\ runs[r].pc \in AskingPcs => runs[r].mode = "approval"

\* It alone holds the flag and the request.
HeldInv ==
  /\ running => run # NoRun /\ Active(run)
  /\ pending # NoRun => pending = run
  /\ \A r \in Runs : pending = r <=> runs[r].pc \in HoldingPcs

Waiting == run # NoRun /\ runs[run].pc = "await"

\* A request is the last event until it is answered, and so it is when the loop
\* has printed it; and at the prompt there is no event left.
RequestInv ==
  /\ \A i \in DOMAIN events : events[i].kind = "request" => i = Len(events) /\ Waiting
  /\ mainPc \in {"ask", "replySend"} => Waiting /\ events = <<>>
  /\ mainPc = "replySend" => replyTo = run
  /\ mainPc \in {"prompt", "exited"} => run = NoRun /\ ~Draining /\ events = <<>>

Clean == ~ctxDone /\ ActiveInv /\ HeldInv /\ RequestInv

CleanInv == IInv /\ ChannelTypes /\ (Undisturbed => Clean)

\* NoRun and Closed are no runs.
LEMMA Numbers == NoRun \notin Runs /\ Closed \notin Runs /\ NoRun # Closed
BY MaxRunsAssumption DEF NoRun, Runs, Closed

\* Where the run of the loop is, if any run is active.
LEMMA ActiveIs ==
  ASSUME Clean, NEW r \in Runs, Active(r)
  PROVE  /\ r = run /\ run # NoRun /\ ~runs[r].cancelled /\ runs[r].done = "none"
         /\ runs[r].mode \in {mode, "compact"} /\ ~Draining
         /\ mainPc \notin {"prompt", "exited"}
BY Numbers DEF Clean, ActiveInv, RequestInv

\* A step that takes a run to another place, past its start.
Moved(r, to) ==
  /\ runs' \in [Runs -> Goroutines]
  /\ \A s \in Runs \ {r} : runs'[s] = runs[s]
  /\ runs'[r].pc = to /\ runs'[r].mode = runs[r].mode
  /\ runs'[r].cancelled = runs[r].cancelled /\ runs'[r].done = runs[r].done

\* Changing the place of a goroutine is such a step.
LEMMA MovedTo ==
  ASSUME RunTypes, NEW r \in Runs, NEW to \in RunPcs,
         \/ runs' = [runs EXCEPT ![r].pc = to]
         \/ runs' = [runs EXCEPT ![r].pc = to, ![r].canCompact = FALSE]
  PROVE  Moved(r, to)
<1>1. CASE runs' = [runs EXCEPT ![r].pc = to]
  BY <1>1 DEF RunTypes, Goroutines, Moved
<1>2. CASE runs' = [runs EXCEPT ![r].pc = to, ![r].canCompact = FALSE]
  <2>1. /\ runs' \in [Runs -> Goroutines]
        /\ \A s \in Runs \ {r} : runs'[s] = runs[s]
    <3> DEFINE g == [runs[r] EXCEPT !.pc = to, !.canCompact = FALSE]
    <3>1. g \in Goroutines
      <4>1. runs[r] \in Goroutines
        BY DEF RunTypes
      <4> QED BY <4>1 DEF Goroutines
    <3>2. runs' = [runs EXCEPT ![r] = g]
      BY <1>2, Zenon DEF RunTypes
    <3> HIDE DEF g
    <3> QED BY <3>1, <3>2 DEF RunTypes
  <2>2. runs'[r].pc = to /\ runs'[r].mode = runs[r].mode
    BY <1>2 DEF RunTypes, Goroutines
  <2>3. runs'[r].cancelled = runs[r].cancelled /\ runs'[r].done = runs[r].done
    BY <1>2 DEF RunTypes, Goroutines
  <2> QED BY <2>1, <2>2, <2>3 DEF Moved
<1> QED BY <1>1, <1>2

\* How a step of a run deals with the request.
Asks(r, to) ==
  /\ to \in AskingPcs => runs[r].mode = "approval"
  /\ \/ pending' = pending /\ (runs[r].pc \in HoldingPcs <=> to \in HoldingPcs)
     \/ pending' = r /\ pending = NoRun /\ to = "emitRequest"
     \/ pending' = NoRun /\ pending = r /\ to \notin HoldingPcs

\* The loop's run stays the only one wherever it goes.
LEMMA MoveHeld ==
  ASSUME IInv, ChannelTypes, Clean, NEW r \in Runs, Active(r),
         NEW to \in RunPcs \ {"none", "start", "emitBusy", "returnBusy"},
         Moved(r, to), Asks(r, to), running' \in BOOLEAN,
         UNCHANGED <<run, runErr, mode>>
  PROVE  ActiveInv' /\ HeldInv'
<1>1. r = run /\ run # NoRun
  BY ActiveIs
<1>2. ActiveInv'
  BY <1>1 DEF Clean, ActiveInv, Active, Moved, Asks, Draining
<1>3. Active(run)'
  BY <1>1 DEF Active, Moved
<1>4. pending' # NoRun => pending' = run'
  BY <1>1 DEF Clean, HeldInv, Asks
<1>5. ASSUME NEW s \in Runs PROVE pending' = s <=> runs'[s].pc \in HoldingPcs
  <2>1. CASE s = r
    <3>1. pending = r <=> runs[r].pc \in HoldingPcs
      BY DEF Clean, HeldInv
    <3>2. "emitRequest" \in HoldingPcs /\ NoRun # r
      BY Numbers DEF HoldingPcs
    <3>3. runs'[s].pc = to
      BY <2>1 DEF Moved
    <3> QED BY <2>1, <3>1, <3>2, <3>3, Zenon DEF Asks
  <2>2. CASE s # r
    BY <2>2, <1>1, Numbers DEF Clean, HeldInv, Asks, Moved, HoldingPcs
  <2> QED BY <2>1, <2>2
<1>6. HeldInv'
  BY <1>1, <1>3, <1>4, <1>5 DEF HeldInv
<1> QED BY <1>2, <1>6

\* A run that waits for no answer sends at most one event, and waits if it is a
\* request; the others are none.
LEMMA MoveRequest ==
  ASSUME IInv, ChannelTypes, Clean, NEW r \in Runs, Active(r), runs[r].pc # "await", NEW to,
         Moved(r, to),
         \/ events' = events
         \/ events' = Append(events, SentBy(r)) /\ (SentBy(r).kind = "request" => to = "await"),
         UNCHANGED <<run, runErr, mainPc>>
  PROVE  RequestInv'
<1>1. r = run /\ run # NoRun /\ ~Waiting /\ mainPc \notin {"prompt", "exited"}
  BY ActiveIs DEF Waiting
<1>2. /\ \A i \in DOMAIN events : events[i].kind # "request"
      /\ mainPc \notin {"ask", "replySend"}
  BY <1>1 DEF Clean, RequestInv
<1>3. CASE events' = events
  BY <1>1, <1>2, <1>3 DEF RequestInv
<1>4. CASE events' = Append(events, SentBy(r)) /\ (SentBy(r).kind = "request" => to = "await")
  <2>1. ASSUME NEW i \in DOMAIN events', events'[i].kind = "request"
        PROVE  i = Len(events') /\ Waiting'
    <3>1. /\ events \in Seq(Events)
          /\ \/ i \in DOMAIN events /\ events'[i] = events[i]
             \/ i = Len(events') /\ events'[i] = SentBy(r)
      BY <1>4, <2>1 DEF ChannelTypes
    <3>2. i = Len(events') /\ SentBy(r).kind = "request"
      BY <2>1, <3>1, <1>2
    <3>3. runs'[r].pc = "await"
      BY <1>4, <3>2 DEF Moved
    <3> QED BY <1>1, <3>2, <3>3 DEF Waiting
  <2> QED BY <1>1, <1>2, <2>1 DEF RequestInv
<1> QED BY <1>3, <1>4

\* A run that returns leaves its result, and neither flag nor request.
LEMMA ReturnClean ==
  ASSUME IInv, ChannelTypes, Clean, NEW r \in Runs, RunReturns(r),
         UNCHANGED <<mode, mainPc, run, runErr>>
  PROVE  ActiveInv' /\ HeldInv' /\ RequestInv'
<1> DEFINE g == [NoGoroutine EXCEPT !.done = IF runs[r].pc = "returnOk" THEN "ok" ELSE "error"]
<1>1. /\ runs' = [runs EXCEPT ![r] = g] /\ running' = (running /\ runs[r].pc = "returnBusy")
      /\ runs[r].pc \in {"returnOk", "returnErr", "returnBusy"}
      /\ UNCHANGED <<pending, replyTo, events>>
  BY DEF RunReturns, requestVars
<1>2. g.pc = "none"
  BY DEF NoGoroutine
<1> HIDE DEF g
<1>3. /\ runs'[r].pc = "none" /\ \A s \in Runs \ {r} : runs'[s] = runs[s]
      /\ Active(r) /\ runs[r].pc # "returnBusy" /\ ~running'
  BY <1>1, <1>2 DEF IInv, RunTypes, Active, Clean, ActiveInv
<1>4. r = run /\ run # NoRun /\ ~Waiting /\ mainPc \notin {"prompt", "exited"}
  BY <1>1, <1>3, ActiveIs DEF Waiting
<1>5. runs[r].pc \notin AskingPcs /\ "none" \notin AskingPcs
  BY <1>1 DEF AskingPcs, HoldingPcs
<1>6. runs[r].pc \notin HoldingPcs /\ "none" \notin HoldingPcs
  BY <1>5 DEF AskingPcs
<1>7. pending # r /\ pending = NoRun
  BY <1>4, <1>6 DEF Clean, HeldInv
<1>8. ActiveInv'
  BY <1>3, <1>4 DEF Clean, ActiveInv, Active
<1>9. HeldInv'
  BY <1>1, <1>3, <1>6, <1>7 DEF Clean, HeldInv
<1>10. RequestInv'
  BY <1>1, <1>4 DEF Clean, RequestInv
<1> QED BY <1>8, <1>9, <1>10

\* Each step of a run that is not disturbed keeps it so: its context is not
\* done, so it drops no event and gives up no request.
LEMMA RunClean ==
  ASSUME IInv, ChannelTypes, Clean, NEW r \in Runs, RunGoroutine(r)
  PROVE  Clean'
<1>1. RunStep(r) /\ UNCHANGED <<mainPc, run, runErr, mode, ctxDone>>
  BY DEF RunGoroutine, MainWaits, settingVars
<1>2. Active(r)
  BY <1>1, RunStepMoves DEF IInv
<1>3. /\ r = run /\ run # NoRun /\ ~runs[r].cancelled
      /\ runs[r].mode \in {mode, "compact"} /\ runs[r].pc \in RunPcs
      /\ runs[r].pc \notin {"emitBusy", "returnBusy"}
      /\ runs[r].pc = "start" => ~running
      /\ runs[r].pc \in AskingPcs => runs[r].mode = "approval"
      /\ pending = r <=> runs[r].pc \in HoldingPcs
      /\ pending # NoRun => pending = r
  BY <1>2, ActiveIs DEF Clean, ActiveInv, HeldInv, IInv, RunTypes, Goroutines
<1>4. running' \in BOOLEAN /\ running \in BOOLEAN /\ reply \in Replies
  BY <1>1, RunStepMoves DEF IInv, RunTypes
<1> DEFINE Kept == ActiveInv' /\ HeldInv' /\ RequestInv'
<1> SUFFICES Kept
  BY <1>1 DEF Clean
<1>5. ASSUME NEW to \in RunPcs \ {"none", "start", "emitBusy", "returnBusy"},
             Moved(r, to), Asks(r, to), events' = events, runs[r].pc # "await"
      PROVE  Kept
  <2>1. ActiveInv' /\ HeldInv'
    BY <1>1, <1>2, <1>4, <1>5, MoveHeld
  <2>2. RequestInv'
    BY <1>1, <1>2, <1>5, MoveRequest
  <2> QED BY <2>1, <2>2
<1> HIDE DEF Kept
<1> USE DEF RunGoes, RunPcs, Emitting, EventOf, requestVars, Asks, AskingPcs, HoldingPcs
<1>6. CASE RunStarts(r)
  BY <1>3, <1>5, <1>6, MovedTo DEF RunStarts, IInv
<1>7. CASE WorkBegins(r)
  BY <1>3, <1>5, <1>7, MovedTo DEF WorkBegins, IInv
<1>8. CASE WorkEnds(r)
  BY <1>3, <1>5, <1>8, MovedTo DEF WorkEnds, IInv
<1>9. CASE WorkCompacts(r)
  BY <1>3, <1>5, <1>9, MovedTo DEF WorkCompacts, IInv
<1>10. CASE WorkAsks(r)
  BY <1>3, <1>5, <1>10, MovedTo DEF WorkAsks, IInv
<1>11. CASE RequestReply(r)
  BY <1>3, <1>5, <1>11, MovedTo DEF RequestReply, IInv
<1>12. CASE ReplyReceived(r)
  <2> DEFINE to == [answer |-> "loop", blank |-> "request", slashCompact |-> "emitRefusal"][reply]
  <2>1. to \in {"loop", "request", "emitRefusal"}
    BY <1>4 DEF Replies
  <2>2. /\ runs' = [runs EXCEPT ![r].pc = to] /\ runs[r].pc = "received"
        /\ pending' = IF pending = r THEN NoRun ELSE pending
        /\ events' = events
    BY <1>12 DEF ReplyReceived, clearPending
  <2> HIDE DEF to
  <2>3. Moved(r, to)
    BY <2>1, <2>2, MovedTo DEF IInv
  <2> QED BY <1>3, <1>5, <2>1, <2>2, <2>3
<1>13. CASE AwaitCancelled(r)
  BY <1>3, <1>13 DEF AwaitCancelled
<1>14. CASE Emit(r)
  <2> DEFINE to == SentTo[runs[r].pc]
  <2>1. /\ runs' = [runs EXCEPT ![r].pc = to] /\ runs[r].pc \in Emitting
        /\ events' = Append(events, SentBy(r)) /\ pending' = pending
    BY <1>14 DEF Emit
  <2>2. /\ to \in RunPcs \ {"none", "start", "emitBusy", "returnBusy"}
        /\ to \in HoldingPcs <=> runs[r].pc = "emitRequest"
        /\ to \in AskingPcs => runs[r].pc \in {"emitRequest", "emitRefusal"}
        /\ SentBy(r).kind = "request" => to = "await"
        /\ runs[r].pc \in HoldingPcs => runs[r].pc = "emitRequest"
    BY <1>3, <2>1 DEF SentTo, SentBy
  <2> HIDE DEF to
  <2>3. Moved(r, to)
    BY <2>1, <2>2, MovedTo DEF IInv
  <2>4. Asks(r, to)
    BY <1>3, <2>1, <2>2
  <2>5. ActiveInv' /\ HeldInv'
    BY <1>1, <1>2, <1>4, <2>2, <2>3, <2>4, MoveHeld
  <2>6. RequestInv'
    BY <1>1, <1>2, <2>1, <2>2, <2>3, MoveRequest
  <2> QED BY <2>5, <2>6 DEF Kept
<1>15. CASE EmitDropped(r)
  BY <1>3, <1>15 DEF EmitDropped
<1>16. CASE RunReturns(r)
  BY <1>1, <1>16, ReturnClean DEF Kept
<1> QED
  BY <1>1, <1>6, <1>7, <1>8, <1>9, <1>10, <1>11, <1>12, <1>13, <1>14, <1>15, <1>16 DEF RunStep

\* When the loop's run is over, everything is.
LEMMA OverIs ==
  ASSUME IInv, Clean, run = NoRun \/ ~Active(run)
  PROVE  (\A r \in Runs : ~Active(r)) /\ ~running /\ pending = NoRun
<1>1. ASSUME NEW r \in Runs PROVE ~Active(r)
  BY ActiveIs
<1>2. ~running
  BY DEF Clean, HeldInv
<1>3. pending # NoRun => run \in Runs /\ runs[run].pc \in HoldingPcs
  BY DEF Clean, HeldInv, IInv, RunTypes
<1>4. pending = NoRun
  BY <1>1, <1>3 DEF Active, HoldingPcs
<1> QED BY <1>1, <1>2, <1>4

\* While the loop asks, its run waits with its request.
LEMMA AskIs ==
  ASSUME IInv, Clean, Waiting
  PROVE  run \in Runs /\ Active(run) /\ pending = run /\ mode = "approval"
<1>1. run \in Runs /\ runs[run].pc \in HoldingPcs
  BY DEF Waiting, IInv, RunTypes, HoldingPcs
<1>2. Active(run) /\ runs[run].mode = "approval"
  BY <1>1 DEF Clean, ActiveInv, Active, HoldingPcs, AskingPcs
<1>3. pending = run
  BY <1>1 DEF Clean, HeldInv
<1>4. mode = "approval"
  BY <1>1, <1>2, ActiveIs
<1> QED BY <1>1, <1>2, <1>3, <1>4

\* A step that leaves the runs, the flag and the requests alone.
LEMMA StillHeld ==
  ASSUME Clean, UNCHANGED <<runs, running, pending, run, runErr, mode>>
  PROVE  ActiveInv' /\ HeldInv' /\ Waiting' = Waiting /\ Draining' = Draining
BY DEF Clean, ActiveInv, HeldInv, Active, Draining, Waiting

\* The loop comes back to a clean prompt if the run is over and the channel
\* is empty.
LEMMA ReturnsClean ==
  ASSUME IInv, Clean, NEW err, PromptReturns(err), \A r \in Runs : ~Active(r), events = <<>>,
         UNCHANGED <<running, pending, events>>
  PROVE  Clean'
<1>1. runs' = runs /\ run' = NoRun /\ runErr' = "none" /\ ~ctxDone'
      /\ mainPc' \in {"prompt", "exited"}
  BY DEF PromptReturns, Cancelled, IInv, RunTypes, Exit
<1>2. ~running /\ pending = NoRun
  <2>1. run = NoRun \/ ~Active(run)
    BY DEF IInv, RunTypes
  <2> QED BY <2>1, OverIs
<1>3. ActiveInv'
  BY <1>1 DEF ActiveInv, Active
<1>4. HeldInv'
  BY <1>1, <1>2 DEF Clean, HeldInv
<1>5. RequestInv'
  BY <1>1 DEF RequestInv, Draining
<1> QED BY <1>1, <1>3, <1>4, <1>5 DEF Clean

\* A prompt is typed when there is nothing left of the one before.
LEMMA TypedClean ==
  ASSUME IInv, ChannelTypes, Clean, NEW m \in {mode, "compact"}, PromptTyped(m)
  PROVE  Clean'
<1> DEFINE g == [NoGoroutine EXCEPT !.pc = "start", !.mode = m, !.cancelled = ctxDone,
                                    !.canCompact = (m # "compact")]
<1>1. /\ run' \in Runs /\ mainPc = "prompt" /\ mainPc' = "select"
      /\ runs' = [runs EXCEPT ![run'] = g]
      /\ UNCHANGED <<running, pending, events, mode, runErr, ctxDone>>
  BY DEF PromptTyped, StartDriverRun, Some, FreshRuns, IdleRuns, requestVars, settingVars
<1>2. g.pc = "start" /\ g.mode = m /\ ~g.cancelled /\ g.done = "none"
  BY DEF NoGoroutine, Clean
<1> HIDE DEF g
<1>3. run = NoRun /\ ~Draining /\ events = <<>>
  BY <1>1 DEF Clean, RequestInv
<1>4. (\A r \in Runs : ~Active(r)) /\ ~running /\ pending = NoRun
  BY <1>3, OverIs
<1>5. runs'[run'] = g /\ \A r \in Runs \ {run'} : runs'[r] = runs[r]
  BY <1>1 DEF IInv, RunTypes
<1>6. ActiveInv'
  BY <1>1, <1>2, <1>3, <1>4, <1>5 DEF ActiveInv, Active, Draining, AskingPcs, HoldingPcs
<1>7. HeldInv'
  BY <1>1, <1>2, <1>4, <1>5, Numbers DEF HeldInv, Active, HoldingPcs
<1>8. RequestInv'
  BY <1>1, <1>3 DEF RequestInv
<1> QED BY <1>1, <1>6, <1>7, <1>8 DEF Clean

\* The user does not disturb: a reply is typed for the pending request.
LEMMA UserClean ==
  ASSUME IInv, ChannelTypes, Clean, User, Undisturbed'
  PROVE  Clean'
<1>1. ASSUME NEW m \in {mode, "compact"}, PromptTyped(m) PROVE Clean'
  BY <1>1, TypedClean
<1>2. ASSUME NEW text \in Replies \ {"blank"}, ReplyTyped(text) PROVE Clean'
  <2>1. /\ UNCHANGED <<runs, running, pending, run, runErr, mode, events, ctxDone>>
        /\ mainPc = "ask" /\ mainPc' = "replySend" /\ replyTo' = pending
    BY <1>2 DEF ReplyTyped, TakeHold, settingVars
  <2>2. Waiting /\ events = <<>> /\ pending = run
    BY <2>1, AskIs DEF Clean, RequestInv
  <2>3. RequestInv'
    BY <2>1, <2>2, StillHeld DEF RequestInv
  <2> QED BY <2>1, <2>3, StillHeld DEF Clean
<1>3. CASE ReplyTypedTooLate
  <2>1. mainPc = "ask" /\ pending = NoRun
    BY <1>3 DEF ReplyTypedTooLate
  <2>2. Waiting
    BY <2>1 DEF Clean, RequestInv
  <2> QED BY <2>1, <2>2, AskIs, Numbers
<1>4. CASE Interrupt
  BY <1>4 DEF Interrupt, Undisturbed, ChannelTypes
<1>5. CASE StdinEnds
  <2>1. UNCHANGED <<runs, running, pending, replyTo, run, runErr, mode, events, ctxDone, mainPc>>
    BY <1>5 DEF StdinEnds, driverVars, requestVars, settingVars
  <2>2. RequestInv'
    BY <2>1, StillHeld DEF Clean, RequestInv
  <2> QED BY <2>1, <2>2, StillHeld DEF Clean
<1> QED BY <1>1, <1>2, <1>3, <1>4, <1>5 DEF User

\* Nor does the loop, which takes the events in their order.
LEMMA EventClean ==
  ASSUME IInv, ChannelTypes, Clean, HandleEvent
  PROVE  Clean'
<1>1. /\ mainPc = "select" /\ events # <<>> /\ events' = Tail(events)
      /\ \/ Head(events).kind = "request" /\ mainPc' = "ask"
         \/ Head(events).kind # "request" /\ mainPc' = "select"
      /\ UNCHANGED <<runs, running, pending, run, runErr, mode, ctxDone>>
  BY DEF HandleEvent, requestVars, settingVars
<1>2. /\ Head(events) = events[1] /\ 1 \in DOMAIN events
      /\ Len(events) \in Nat /\ Len(events') = Len(events) - 1
      /\ \A i \in DOMAIN events' : i + 1 \in DOMAIN events /\ events'[i] = events[i + 1]
      /\ Len(events) = 1 => events' = <<>>
  BY <1>1 DEF ChannelTypes
<1>3. Head(events).kind = "request" => Waiting /\ events' = <<>>
  BY <1>2 DEF Clean, RequestInv
<1>4. ASSUME NEW i \in DOMAIN events', events'[i].kind = "request"
      PROVE  i = Len(events') /\ Waiting
  <2>1. i + 1 = Len(events) /\ Waiting
    BY <1>2, <1>4 DEF Clean, RequestInv
  <2>2. i \in Int
    BY <1>1 DEF ChannelTypes
  <2> QED BY <1>2, <2>1, <2>2
<1>5. RequestInv'
  BY <1>1, <1>3, <1>4, StillHeld DEF RequestInv
<1> QED BY <1>1, <1>5, StillHeld DEF Clean

\* It hands the reply to the run that waits for it.
LEMMA SentClean ==
  ASSUME IInv, ChannelTypes, Clean, ReplySent
  PROVE  Clean'
<1>1. /\ replyTo \in Runs /\ runs[replyTo].pc = "await"
      /\ runs' = [runs EXCEPT ![replyTo].pc = "received"]
      /\ mainPc = "replySend" /\ mainPc' = "replyWait"
      /\ UNCHANGED <<running, events, pending, run, runErr, mode, ctxDone>>
  BY DEF ReplySent, HandOver, requestVars, settingVars
<1>2. replyTo = run /\ events = <<>>
  BY <1>1 DEF Clean, RequestInv
<1>3. Moved(run, "received") /\ "received" \in RunPcs
  BY <1>1, <1>2, MovedTo DEF IInv, RunPcs
<1>4. Active(run) /\ runs[run].mode = "approval"
  BY <1>1, <1>2 DEF Clean, ActiveInv, Active, AskingPcs, HoldingPcs
<1>5. Asks(run, "received") /\ running' \in BOOLEAN
  BY <1>1, <1>2, <1>4 DEF Asks, HoldingPcs, IInv, RunTypes
<1>6. ActiveInv' /\ HeldInv'
  BY <1>1, <1>2, <1>3, <1>4, <1>5, MoveHeld
<1>7. RequestInv'
  BY <1>1, <1>2 DEF RequestInv
<1> QED BY <1>1, <1>6, <1>7 DEF Clean

\* The rest of what the loop does keeps the prompt clean too: it does not fail
\* to take a reply, nor does it give up a run.
LEMMA MainClean ==
  ASSUME IInv, ChannelTypes, Clean, Main, Undisturbed'
  PROVE  Clean'
<1> USE DEF settingVars, requestVars, driverVars, userVars
<1>1. CASE PromptEnds
  <2>1. /\ UNCHANGED <<runs, running, pending, run, runErr, mode, ctxDone, events>>
        /\ mainPc = "prompt" /\ mainPc' = "exited"
    BY <1>1 DEF PromptEnds, Exit
  <2>2. RequestInv'
    BY <2>1, StillHeld DEF Clean, RequestInv
  <2> QED BY <2>1, <2>2, StillHeld DEF Clean
<1>2. CASE SelectInterrupted \/ ReplyInterrupted
  BY <1>2 DEF SelectInterrupted, ReplyInterrupted, Clean
<1>3. CASE RunResult
  <2>1. /\ mainPc = "select" /\ runs[run].done # "none" /\ runErr' = runs[run].done
        /\ runs' = [runs EXCEPT ![run].done = "none"]
        /\ UNCHANGED <<running, pending, run, mode, ctxDone, events, mainPc>>
    BY <1>3 DEF RunResult, TakeResult
  <2>2. run = NoRun \/ ~Active(run)
    BY <2>1 DEF IInv, RunTypes, Clean, ActiveInv
  <2>3. (\A r \in Runs : ~Active(r)) /\ ~running /\ pending = NoRun
    BY <2>2, OverIs
  <2>4. \A r \in Runs : runs'[r].pc = "none"
    BY <2>1, <2>3 DEF IInv, RunTypes, Goroutines, Active
  <2>5. ~Waiting
    BY <2>3, AskIs
  <2>6. ActiveInv' /\ HeldInv'
    BY <2>1, <2>3, <2>4, Numbers DEF ActiveInv, HeldInv, Active, HoldingPcs
  <2>7. RequestInv'
    BY <2>1, <2>5 DEF Clean, RequestInv
  <2> QED BY <2>1, <2>6, <2>7 DEF Clean
<1>4. CASE Drained
  <2>1. events = <<>> /\ Draining /\ PromptReturns(runErr) /\ UNCHANGED <<running, pending, events>>
    BY <1>4 DEF Drained
  <2>2. \A r \in Runs : ~Active(r)
    BY <2>1, ActiveIs
  <2> QED BY <2>1, <2>2, ReturnsClean
<1>5. CASE AskEnds
  <2>1. mainPc = "ask" /\ stdin' = "eof" /\ mode' = mode
    BY <1>5 DEF AskEnds
  <2>2. mode = "approval"
    BY <2>1, AskIs DEF Clean, RequestInv
  <2> QED BY <2>1, <2>2 DEF Undisturbed
<1>6. CASE ReplyReturns
  <2>1. /\ UNCHANGED <<runs, running, pending, run, runErr, mode, ctxDone, events>>
        /\ mainPc = "replyWait" /\ mainPc' = "select"
    BY <1>6 DEF ReplyReturns, LetGo
  <2>2. RequestInv'
    BY <2>1, StillHeld DEF Clean, RequestInv
  <2> QED BY <2>1, <2>2, StillHeld DEF Clean
<1>7. CASE ReplyRefused
  <2>1. mainPc = "replySend" /\ replyTo = Closed
    BY <1>7 DEF ReplyRefused
  <2>2. Waiting /\ replyTo = run
    BY <2>1 DEF Clean, RequestInv
  <2> QED BY <2>1, <2>2, AskIs, Numbers
<1> QED
  BY <1>1, <1>2, <1>3, <1>4, <1>5, <1>6, <1>7, EventClean, SentClean DEF Main

\* A run keeps the types of the events and of the request.
LEMMA RunChannel ==
  ASSUME ChannelTypes, NEW r \in Runs, RunStep(r)
  PROVE  events' \in Seq(Events) /\ pending' \in Runs \cup {NoRun}
<1>1. /\ events' = events \/ (events' = Append(events, SentBy(r)) /\ runs[r].pc \in Emitting)
      /\ pending' \in {pending, r, NoRun}
  BY DEF RunStep, RunStarts, WorkBegins, WorkEnds, WorkCompacts, WorkAsks, RequestReply,
     ReplyReceived, AwaitCancelled, Emit, EmitDropped, RunReturns, clearPending, requestVars
<1>2. runs[r].pc \in Emitting => SentBy(r) \in Events
  BY DEF SentBy, Events
<1>3. events' \in Seq(Events)
  BY <1>1, <1>2 DEF ChannelTypes
<1> QED BY <1>1, <1>3 DEF ChannelTypes

\* A step of the user or of the loop keeps the other types, and undoes no
\* disturbance.
LEMMA ChannelStep ==
  ASSUME ChannelTypes, User \/ Main
  PROVE  ChannelTypes' /\ (Undisturbed' => Undisturbed)
<1> USE DEF settingVars, requestVars, driverVars, userVars
<1>1. /\ pending' = pending /\ mode' = mode
      /\ events' = events \/ (events # <<>> /\ events' = Tail(events))
      /\ interrupts' = interrupts \/ interrupts' = interrupts + 1
      /\ stdin' = stdin \/ stdin' # "open"
  BY DEF User, PromptTyped, ReplyTyped, ReplyTypedTooLate, Interrupt, StdinEnds, TakeHold, LetGo,
     HandOver, Main, PromptEnds, SelectInterrupted, HandleEvent, RunResult, Drained, AskEnds,
     ReplySent, ReplyReturns, ReplyRefused, ReplyInterrupted
<1>2. mainPc' \in {mainPc, "select", "ask", "replySend", "replyWait", "prompt", "exited"}
  BY DEF User, PromptTyped, ReplyTyped, ReplyTypedTooLate, Interrupt, StdinEnds,
     Main, PromptEnds, SelectInterrupted, HandleEvent, RunResult, Drained, AskEnds,
     ReplySent, ReplyReturns, ReplyRefused, ReplyInterrupted, HandlingFails, PromptReturns, Exit
<1>3. events' \in Seq(Events)
  BY <1>1 DEF ChannelTypes
<1>4. ChannelTypes'
  BY <1>1, <1>2, <1>3 DEF ChannelTypes
<1>5. Undisturbed' => Undisturbed
  BY <1>1 DEF ChannelTypes, Undisturbed
<1> QED BY <1>4, <1>5

\* At the first prompt nothing has happened.
LEMMA InitClean == Init => CleanInv
<1> SUFFICES ASSUME Init PROVE CleanInv
  OBVIOUS
<1>1. NoGoroutine.pc = "none" /\ <<>> \in Seq(Events) /\ 0 \in Nat
  BY DEF NoGoroutine
<1>2. ChannelTypes
  BY <1>1 DEF Init, DriverInit, ChannelTypes
<1>3. ActiveInv /\ HeldInv
  BY <1>1, Numbers DEF Init, DriverInit, ActiveInv, HeldInv, Active, HoldingPcs
<1>4. RequestInv
  BY DEF Init, DriverInit, RequestInv, Draining
<1> QED BY <1>2, <1>3, <1>4, InitInv DEF CleanInv, Clean, Init

\* Every step keeps undisturbed prompts clean.
LEMMA CleanStep == CleanInv /\ [Next]_vars => CleanInv'
<1> SUFFICES ASSUME CleanInv, [Next]_vars PROVE CleanInv'
  OBVIOUS
<1>1. CASE User \/ Main
  BY <1>1, UserInv, MainInv, UserClean, MainClean, ChannelStep DEF CleanInv
<1>2. ASSUME NEW r \in Runs, RunGoroutine(r) PROVE CleanInv'
  <2>1. RunStep(r) /\ UNCHANGED <<mainPc, interrupts, stdin, mode>>
    BY <1>2 DEF RunGoroutine, MainWaits, userVars, settingVars
  <2>2. ChannelTypes' /\ (Undisturbed' => Undisturbed)
    BY <2>1, RunChannel DEF CleanInv, ChannelTypes, Undisturbed
  <2> QED BY <1>2, <2>2, RunInv, RunClean DEF CleanInv
<1>3. CASE UNCHANGED vars
  <2>1. IInv'
    BY <1>3, InvStep DEF CleanInv
  <2>2. /\ UNCHANGED <<runs, running, pending, events, replyTo, run, runErr, mode, ctxDone, mainPc>>
        /\ UNCHANGED <<interrupts, stdin>>
    BY <1>3 DEF vars, driverVars, requestVars, settingVars, userVars
  <2>3. ChannelTypes' /\ (Undisturbed' <=> Undisturbed)
    BY <2>2 DEF CleanInv, ChannelTypes, Undisturbed
  <2>4. Clean => Clean'
    BY <2>2, StillHeld DEF Clean, RequestInv
  <2> QED BY <2>1, <2>3, <2>4 DEF CleanInv
<1> QED BY <1>1, <1>2, <1>3 DEF Next

\* The types and the clean prompts hold in every state.
LEMMA CleanInvariance == Spec => []CleanInv
BY CleanStep, InitClean, PTL DEF Spec

\* While nobody presses Ctrl-C, and stdin does not end where it is needed, clnkr
\* asks for the next prompt, or ends, only when the last run is over, has given
\* back the flag and its request, and every event of it is handled
\* (runDriverPrompt and drainDriverEvents, main.go).
THEOREM CleanPromptAlways == Spec => []CleanPrompt
<1>1. ASSUME CleanInv, mainPc \in {"prompt", "exited"}, Undisturbed
      PROVE  (\A r \in Runs : ~Active(r)) /\ ~running /\ pending = NoRun /\ events = <<>>
  <2>1. Clean /\ run = NoRun /\ events = <<>>
    BY <1>1 DEF CleanInv, Clean, RequestInv
  <2> QED BY <1>1, <2>1, OverIs DEF CleanInv
<1>2. CleanInv => CleanPrompt
  BY <1>1 DEF CleanPrompt, Undisturbed
<1> QED BY <1>2, CleanInvariance, PTL
=============================================================================
